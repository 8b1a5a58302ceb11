# WitcherSeamless: TLA+ models

These are TLA+ models of the synchronization core of WitcherSeamless, a
client/relay multiplayer mod. Each module is translated from the C++ and
WitcherScript sources under `src/`, and TLC checks it under the
configurations listed here. `PROJECT.json` links every definition to the
source lines it models (`map`). It also lists the runs, their mutants, the
findings, and the hazards of the code.

## 1. The system

### Parts and how they interact

| Part | Source | Shared state | Operations |
|---|---|---|---|
| Narrative sync (fact registry, pending queue, story lock, fail-safe) | `src/unnamed/part_009` (`quest_sync.cpp` + `quest_sync.hpp`) | `m_fact_cache` (hash → fact, timestamp), `g_W3mPendingFacts` + mutex, `g_W3mGlobalSyncInProgress` (atomic), `global_story_lock` atomics (active, initiator, scene, timestamp) | script bridge calls `W3mAtomicAddFact`, `W3mBroadcastFact`, `W3mAcquireStoryLock`, `W3mReleaseStoryLock`, `W3mClearFactCache`, plus getters; async heartbeat every 5 s → `check_story_lock_timeout` |
| Handshake gate | `src/unnamed/part_011` 417-579 | `g_handshake_complete`, session id, name | `receive_packet_safe` gate, `receive_handshake_safe`, `W3mInitiateHandshake` |
| Heartbeat reconciliation | `part_011` 640-663 and 1007-1037; `data/scripts/local/w3mp*.ws` | script-side time, crowns, weather, smoothing flags | C++ heartbeat broadcast/receive; script `W3mSmoothTimeReconciliation`, `W3mReconcileCrowns`, `W3mReconcileWorldState` |
| Snapshot interpolator | `src/src/common/network/interpolator.hpp` | ring buffer of snapshots, count, write index, blend state | `add_snapshot`, `get_interpolated_state`, extrapolation, blend, `reset` |
| Script combat/quest wrappers | `src/src/scripts/W3M_CombatSync.ws` | none of their own; call the bridge | `AddFact`/`SetFact` wrappers, dialogue/cutscene lock helpers |
| Remote player pool and companion HUD | `src/data/scripts/local/w3mp.ws` | entity pool, remembered HUD slot per index, story companions on the two slots | `RunMultiplayerFrame` every 30 ms, `W3mStop`, `W3mRestart` |
| Server relay | `src/src/server/server.cpp` | client table with auth flags and last-seen time | relay of fact/attack/cutscene packets, auth, 20 s expiry, `states` to authenticated clients |
| Wire codec | end of `interpolator.hpp` | none | `copy_string`, `extract_string` for the packets' fixed-size char fields; `XORCipher` (never called) |
| Scaling manager | `src/src/client/module/scaling_manager.cpp`; formulas in `part_011` | `g_current_party_count` (atomic), `g_npc_scaling_cache` + mutex | `W3mSetPartyCount`, `W3mApplyScalingToNPC`, `W3mClearScalingCache`, called from the NPC and player `OnSpawned` hooks, the join/leave methods and a console command |
| Stress-test transport | `src/unnamed/part_012` | delayed packet FIFO, loss/latency settings | drop roll, delay queue every 10 ms, disable |

A client's script thread calls the narrative bridge. The scheduler's async
pipeline runs `broadcast_narrative_heartbeat` every 5 s on another thread,
and that heartbeat may force-release the story lock. The two threads share
the fact cache, the pending queue, the sync flag and the lock atomics.

Packets go through the server relay to the other clients. There, inbound
packets pass the handshake gate and are dispatched by kind. No client
registers a handler for `"fact"` packets. Script reconcilers apply the
heartbeat's authoritative values.

The game's quest system and its dialogue and cutscene events reach the
bridge through the `W3M_CombatSync.ws` wrappers, on the script thread. The
`w3mp.ws` state machine runs a 30 ms frame that sizes the remote player
pool to the list the bridge returns. It then shows each remote player on
a companion HUD slot.

### Hard behaviours

- Each atomic load and store, and each mutex section, is a separate step.
  The script thread and the async fail-safe interleave between them.
- The sync flag and the lock are separate objects. They change in
  different orders on acquire (flag first) and on release (lock first,
  then flag, then flush).
- The fail-safe races a fresh acquire: it can read the lock timestamp
  before the acquire has written it.
- A flush, and the writes that race it.
- Pruning the cache at its limit.
- Packet loss, delay and reordering between clients, and handshake gating.

### What must hold (from `spec.md` and the code's comments)

- Pending facts are applied exactly once, in enqueue order, on release.
- Consumers never see facts applied out of order.
- While the lock is held, facts are queued.
- A lock is always eventually released, and the fail-safe fires only
  after 15 s.
- Until the handshake completes, no non-handshake message is dispatched.

## 2. Modules

### `QuestSync.tla`: narrative sync core (modelled)

**Threads.** `pc` is a function over `"main"` (the script thread) and
`"async"` (the scheduler loop).

**State.**

| Variable | Code |
|---|---|
| `cache` | `m_fact_cache`: fact → entry with value, write id and timestamp |
| `clock` | the registration timestamps used so far |
| `pending` | `g_W3mPendingFacts` |
| `sync` | `g_W3mGlobalSyncInProgress` |
| `active`, `lockScene` | `m_lock_active`, `m_scene_id` |
| `tsAge` | `now - m_lock_timestamp`, in heartbeat periods, saturating at `LockTimeout + 1` |
| `outbox` | the packets handed to `network::send` |

Ghost variables:

- `heldAge`: the real age of the lock window;
- `issued`: the writes the script has made;
- `applied`: how often each write was registered.

**Actions.** Each bridge call is split at the code's atomics:

- `W3mAtomicAddFact` and `W3mBroadcastFact`:
  - `ScriptAtomicAddFact` / `ScriptBroadcastFact` (load the flag);
  - `BroadcastCheck` (`broadcast_quest_fact` loads it again);
  - `QueueFact` (`push_back` under the mutex);
  - `RegisterBroadcast` (`register_fact` under `m_fact_mutex`, with
    pruning);
  - `SendFact` (`network::send`).
- `W3mAcquireStoryLock`:
  - `ScriptAcquireStoryLock` (flag := true);
  - `AcquireCheck` (`is_locked` early return);
  - `AcquireSet` (`m_lock_active`);
  - `AcquireScene` (initiator and scene);
  - `AcquireStamp` (timestamp).
- `release_global_story_lock`, which either thread runs:
  - `ReleaseRead` (reads initiator and scene);
  - `ReleaseLock` (`release_lock`'s early return, then store
    `active := false`);
  - `ReleaseClear` (initiator and scene := 0);
  - `ReleaseSync` (flag := false);
  - `ReleaseFlush` (`flush_pending_facts`: `register_fact` for each queued
    fact in order, then `clear`);
  - `ReleaseSend` (the `quest_lock` or `story_lock_release_forced`
    packet).
- `check_story_lock_timeout`:
  - `TimeoutCheck` (the `is_locked` early return);
  - `TimeoutElapsed` (reads the timestamp and compares it with the
    timeout).
- `Tick`: a heartbeat period passes.

**Data abstraction.**

- Fact names are model values. `compute_fact_hash` is taken to be
  injective on them.
- The initiator guid is left out: nothing in the core branches on it.
- Timestamps keep only their order (`clock`) or their age in periods
  (`tsAge`).

**Pruning.** `PruneOldestFacts` keeps `floor(0.75 * CacheLimit)` entries,
as the code's `size_t` cast does. It is applied only when the size exceeds
`CacheLimit`.

### `SnapshotInterpolator.tla`: motion interpolator (modelled)

It models `player_interpolator` in `src/src/common/network/interpolator.hpp`.
The owner calls it one call at a time, with no lock, so each public call is
one action:

- `AddSnapshot`: `add_snapshot`;
- `Reset`: `reset`;
- `GetInterpolatedState`: `get_interpolated_state` with the calls it makes,
  `handle_extrapolation` (`HandleExtrapolation`) and
  `apply_blend_if_needed` / `begin_blend` (`ApplyBlendIfNeeded`);
- `Tick` and `FineStep`: `steady_clock` moves to the next 50 ms frame, or
  by half a millisecond.

**State.** `snapshots`, `writeIndex`, `count`, `inExtrap`, `blendActive`,
`blendStart`, `blendFrom`, `anchor` and `lastReturned` are the members of
the same names. `now` is the clock, in half-milliseconds. At that
resolution, two snapshots less than 1 ms apart can be told apart, which is
the case where `duration_cast<milliseconds>` truncates to 0.

**Data abstraction.** Each snapshot carries a ghost arrival number instead
of its packet. A returned state is a record of how it was computed:

- as-is from one snapshot;
- dead-reckoned by `dt` ms;
- a lerp of two snapshots at fraction `e/d`;
- a blend of an anchor and a lerp at weight `e/500`.

The arithmetic on positions and angles is left out, because the properties
are about which snapshots and which fraction the control selects.

**Ghosts.**

- `out` / `outPath`: the last result and the path that produced it.
- `resetAt`: the last id before the latest reset.
- `shown`, `resumedAt`, `finished`: the spec's recovery window, kept
  separately from the code's own blend variables so that the two can be
  compared.

### `SessionRelay.tla`: server relay and what clients send it (modelled)

The master server of `src/src/server/server.cpp`, with two clients
talking to it over UDP.

**State.**

- `srv`: the `client_map`, one `Entry` per address: present, the guid
  last claimed in a `state` packet, the authentication nonce, the guid of
  the proven public key (`NoGuid` before authentication) and the age of
  `last_packet` in clock ticks.
- `nonces`: how many `get_challenge` calls there have been.
- `net`: the set of packets in flight, read in any order.
- `heard`: the nonces each client has received in `authRequest`.
- `sends`: how many packets each client has sent, bounded by `MaxSends`.

**Actions.**

- `HandleState`, `HandleAuthResponse`, `HandleKill`: three registered
  handlers, each a whole handler, with the helpers they call
  (`NonceFor`/`AuthRequest` for `send_authentication_request`, `Killed`
  for `send_killed_command`). `clients[source]`
  inserts a default entry (epoch `last_packet`, modelled as age `Stale`)
  in the auth and kill handlers too. The nonce, key-hash and signature
  checks of `handle_authentication_response` are one verdict, in the
  code's order: a signature verifies only if it was made with the key
  presented over the nonce the address was sent.
- `HandleBroadcast`: the three relay handlers (`fact`, `attack`,
  `cutscene`). Each requires its `packet_type` byte after the protocol
  word, then sends the data unchanged to the authenticated entries:
  `RelayTargets` skips the sender for `fact` and `attack` and includes it
  for `cutscene`. The source is never looked up, so a packet from an
  address that never authenticated is relayed too.
- `ServerIgnore`: a command with no `server::on` registration is
  dropped (`handshake`, `heartbeat`, `quest_lock`, `achievement`).
- `RunFrame`: `run_frame`'s erase of entries silent for more than 20 s,
  then `send_state` (`ServerSendState`): one `states` packet to every
  remaining authenticated entry, listing the claimed guid of each
  authenticated entry (a function from address to guid, so two entries
  claiming one guid are both listed).
- `Tick`: time passes; ages saturate at `Stale`.
- `Lose`: UDP drops a packet (only when `Lossy`).
- Client senders: `InitiateHandshake`, `BroadcastGated` and `SendFact`
  from the bridge. `SendRelay` sends an `attack` or `cutscene` packet
  typed as its handler requires; no sender of these is in the
  repository, so it stands for one. `SendState`, `SendAuthResponse` and `SendKill` stand
  for the client module that is not in the repository. They may claim
  any guid and present any key, but sign only with the key they hold
  and only over a nonce they heard.

**Data abstraction.** A fact's name is reduced to its first byte,
because that is all `handle_fact_broadcast` looks at. Keys are the guids
they hash to. The `states` payload keeps only the guids: names, player
states and `state_id` are payload no handler in the repository reads.
`server::stop` has no caller in the repository and is left out.

### `HandshakeGate.tla` and `Gate.tla`: the client's handshake gate (modelled)

`Gate.tla` is the gate as spec section 4.4 states it, with no code
detail. A session becomes established through the first handshake with
a non-zero session id, and then stays established. Every other inbound
record is dropped before establishment and accepted after it.

`HandshakeGate.tla` models the client bridge of `src/unnamed/part_011`
that implements the gate.

**State.**

- `complete`, `sessionId`: `g_handshake_complete`, `g_session_id`.
- `loopback`: `g_loopback_enabled`.
- `unlocked`: `m_unlocked_achievements`, ids as byte strings.
- `processed`, `queue`: the inventory bridge's relic set and packet queue.
- `inbox`, `outbox`: packets from the network, and packets sent to the
  master server.
- `taken`, `accepted`, `made`: ghost sets of packet ids that the receive
  path handled, that it let through, and that the bridge queued as loot.

**Actions.**

- Script thread: `InitiateHandshake`, `BroadcastSessionState`,
  `BroadcastAchievement` (early return on an id already unlocked; the
  full id is inserted, the packet carries `copy_string`'s cut of it, and
  in loopback mode the receiver inserts what `extract_string` reads back),
  `QueueItem` (relic dedup) and `SetLoopback`.
- Async loops: `Heartbeat` and `ProcessQueue`. `ProcessQueue` pops the
  whole queue under the mutex. `FairSpec` adds weak fairness of
  `ProcessQueue`, the 100 ms `scheduler::loop` of `post_load`.
- Network thread: `Arrive`, where the environment delivers any kind from
  the master or another address, then `NetReceive`.
- `Passes` is `receive_packet_safe`'s source and handshake check.
- `Receive` is the whole `receive_<kind>_safe` handler; the achievement
  handler inserts `ExtractString` of the packet's `achievement_id` array.
- In loopback mode a sender hands its packet to its own receiver
  (`Emit`).

**Refinement.** `MCHandshakeGate.tla` instances `Gate` with
`established <- complete`, and keeps `taken` and `accepted`. It checks
`GateRefinement == AbstractGate!GateSpec` as a property. Every code step
is either a gate step or a stutter of the abstract gate:

- a received handshake is `TakeHandshake`;
- a received gameplay packet, or a drained loopback queue, is
  `TakeGameplay`;
- sends, queueing and arrivals stutter.

### `WireCodec.tla`: fixed-size string fields (partly)

The helpers at the end of `interpolator.hpp` that move strings in and out
of a packet's `std::array<char, N>` fields. A string is a sequence of
bytes, an array a sequence of length N; packet structs are
value-initialised, so arrays start as zeros (`ZeroArray`).

- `CopyString`: `copy_string` copies `min(size, N - 1)` bytes and writes
  the NUL right after them.
- `Strnlen`, `ExtractString`: `extract_string` takes the bytes before the
  first NUL, at most N (the community `SelectInSeq` finds the NUL).
- `CString` is not code: it is the reference reading of a string through
  an N-char field, the longest prefix with no NUL shorter than N.

`HandshakeGate` uses them on the achievement path, the only one where the
string read back changes state. The fact and loot names go through the
same helpers, but their receivers print or are absent.

### `TimeReconciler.tla`: heartbeat time smoothing (partly)

This module models `W3mSmoothTimeReconciliation` of
`src/data/scripts/local/w3mp_final.ws`. Two callers drive it:
`W3mReconcileWorldState`, on each 5 s heartbeat as spec 4.5 describes,
and the `W3mTestTimeSmoothing` console command. Nothing in the repository
calls `W3mReconcileWorldState` (the C++ heartbeat receive only prints),
so the heartbeat cadence is taken from the spec.

**State.**

- `drift3`: host minus local game time, in thirds of a second. The
  multiplier rises by `timeDiff / 3`, so the drift moves a whole number
  of thirds per engine second.
- `boost`: the raised multiplier minus the original, times 3.
- `active`, `target`, `elapsed`: the `w3mTimeSmoothing*` fields.
  `elapsed` saturates at the 3 s window, since the code only compares it
  with 3.0.
- `phase`: engine seconds since the last heartbeat.
- `weather`, `requested`, `host`: `GetCurWeather()`, the weather the
  last request blends towards, and the host's weather.

**Actions.**

- `Tick`: one engine second.
- `Heartbeat`: the whole of `W3mReconcileWorldState`: the smoothing, and
  `RequestWeatherChange` (`WeatherRequest`) when the weather differs.
- `WeatherBlend`: the engine completes a requested blend.
- `TestTimeSmoothing`: the console command. It is enabled by the
  constant `DebugConsole`.
- `Smooth`: the function's four branches:
  - start or continue, raising the multiplier;
  - complete, restoring it and snapping;
  - snap above 10 s;
  - ignore below 5 s.

`TimeDiff` is the drift rounded up, because `GameTimeToSeconds`
truncates the local time. `SnapDrift` is where `SetGameTime(hostGameTime)`
leaves the clock.

### `RemotePlayerPool.tla`: remote player pool and companion HUD (partly)

Models `src/data/scripts/local/w3mp.ws`:

- `W3mStateMachine`, with `StartMultiplayer`, `W3mStop` and `W3mRestart`;
- `RemotePlayerManager`'s entity pool and `assignedHUDSlots`;
- the HUD slot pass of `RunMultiplayerFrame`.

State:

- `mode`: no state machine, Idle, or MultiplayerState;
- `entities`: the pool, as entity ids;
- `slots`: `assignedHUDSlots`;
- `companion`: per HUD slot, whether a quest's story NPC holds it;
- `hud`: which entity the code last showed on each slot;
- `syncs`: the (index, slot) pairs the last frame passed to `SyncRemotePlayerHUD`.

A frame has no latent call, so `RunMultiplayerFrame(n)` is one step for a
list of `n` players. It does three things:

- `AdjustedPools` resizes the pool. Entities are dropped from the end, or
  created until one creation fails (a NULL from
  `CreateRemotePlayerEntity`).
- The pass walks `Min(pool, n)` indices.
- `HudPass`, a RECURSIVE fold of `HudStep`, carries `slotsUsed` from one
  index to the next exactly as the loop does.

The player list comes from `W3mGetPlayerStates`. In
`src/unnamed/part_011` that bridge function is still a stub returning an
empty array, and nothing writes `g_players`, so in this build the pool
never holds an entity. The model lets the bridge return up to
`MaxPlayers` entries. This checks the script against the interface it is
written for; the stub itself is noted under "Not modelled".

`SetCompanion` is the environment: a quest adds or removes a story
companion between frames. Which guid sits at which index, and the player
states applied to the entities, are abstracted: no property depends on
them.

### `StoryHooks.tla`: the game's narrative hooks (partly)

Models the narrative hooks of `src/src/scripts/W3M_CombatSync.ws`.
`StoryHooks` EXTENDS `QuestSync` and composes the hooks with the bridge
they call.

Every hook runs on the script thread:

- the `AddFact` and `SetFact` wrappers (`QuestFactHook`);
- `OnDialogueStart` and `OnDialogueEnd`;
- `OnCutsceneStart` and `OnCutsceneEnd`;
- `OnQuestObjectiveUpdated`;
- the exec console commands that change state (`ConsoleCommand`).

Each hook first runs the engine's own method. It then makes one
synchronous bridge call, so a hook is the entry step of the script
thread in `QuestSync`. After that, `QuestSync`'s steps and the async
fail-safe interleave as before.

New state:

- `inDialogue` and `inCutscene`, the engine's scene state;
- `lastWrite`, a ghost holding the id of the quest system's last write of
  each fact.

The engine's fact values are not modelled: no property compares them.

Left out:

- the combat hook, whose bridge function is a logging stub;
- NPC scaling, which is `ScalingManager`'s;
- the money and world-state loop, whose bridge functions nothing
  registers;
- `BlockAction` and `OnGameCameraTick`, which only read the lock;
- `AddFactWrapper`, `W3mLockForQuest` and `W3mReconcileFactState`, which
  nothing calls.

### `LegacyInterpolator.tla`: the file's first interpolator (abstract spec)

`interpolator.hpp` holds two versions of `player_interpolator`: lines
1-243 are an earlier class, lines 245-619 the current one. The earlier
class has the same ring buffer and the same bracketing loop, but no dead
reckoning and no blend. It returns `nullopt` for fewer than two snapshots,
and the newest snapshot as it is when the render time is not bracketed.
`LegacyInterpolator` models it with the same provenance records as
`SnapshotInterpolator` (`Add`, `Clear`, `Get`, `Clock`).

It serves as the abstract specification of the current class.
`SnapshotInterpolator` instantiates it with `out <- LegacyOut`, which maps
the current result to what the earlier class returns:

- a blend maps to the lerp inside it;
- a dead-reckoned state maps to its snapshot as it is;
- the result for a lone snapshot maps to nothing.

The `outPath` ghost value `"lone"` marks that last case; it is the first
`handle_extrapolation` call of `get_interpolated_state`.

`SnapshotInterpolator` also has `lerp_angle` as operators: `DownTo` and
`UpTo` are its two `while` loops (RECURSIVE), `AngleDelta` the normalised
difference, and `LerpAngleScaled` the result for a rational `t`.

### `ScalingManager.tla`: party-based NPC scaling (modelled)

Models `scaling_manager.cpp` and its script callers in `W3M_CombatSync.ws`.
All callers run on the script thread, so each hook is one action. The
30 s async loop only logs the count and is left out.

- `SetPartyCount` is `set_party_count`: clamp to at least 1, store, and
  clear the cache if the count changed. `ApplyNpcScaling` is
  `apply_npc_scaling`.
- `NpcOnSpawned` is `CNewNPC.OnSpawned`. With a party, it calls
  `W3mApplyScalingToNPC` and then multiplies the NPC's vitality.
  `NpcDespawned` is the engine destroying the entity; no code evicts its
  cache entry.
- `PlayerOnSpawned` (`W3mSetPartyCount(1)`), `OnPlayerJoined`,
  `OnPlayerLeft` and `SetTestPartyCount` are the other callers.

**State.** `partyCount`, `cache` (guid → config, or `NoConfig`), and per
NPC whether it is alive and the health multiplier it was given.

**Data.** Multipliers are exact: health in halves (`1 + (n-1)*0.5` is exact
in float), boss damage in tenths.

**Constants.** `PartyHooks` says whether `W3mOnPlayerJoined` and
`W3mOnPlayerLeft` are called. Nothing in the repository calls them, so in
a real session the party count stays 1 and no NPC is ever scaled. The run
sets `PartyHooks = TRUE` so that the intended use is checked too.

### Compositions not built

- Two `QuestSync` clients over `SessionRelay`: the relay drops every
  real fact packet (the `relay_fact_dropped` finding), so such a
  composition would only show that no fact reaches a peer. The chaos
  channel that was to sit between them (`chaos_send`) has no caller.
- An abstract fact registry (apply now, or queue and flush whole) for
  `QuestSync` to refine: the narrative sync findings
  (`questsync_stranded_fact`, `questsync_forced_release_early`) are
  behaviours that such a registry forbids, so the refinement does not
  hold and the findings already show where it fails.

## 3. Runs

### Narrative sync runs

These runs use `MCQuestSync.tla`. The MC module gives three facts, values
{1, 2}, one scene, `CacheLimit = 2`, `LockTimeout = 1` and `MaxOps = 3`.

**Why these bounds are enough.**

- Three facts against a limit of two make `register_fact` prune: a size
  of 3 drops to 1.
- Three script calls reach every pattern the properties need:
  - acquire, then two queued writes of the same fact, then the
    fail-safe's release;
  - three direct writes that overflow the cache;
  - acquire with release, or a release racing a fresh acquire.
- One heartbeat period of timeout separates an expired timestamp from a
  fresh one. The async thread's checks are still free to interleave with
  every step of the script thread.

| Run | Expect | What it checks |
|---|---|---|
| `questsync_core` (`MCQuestSync.cfg`) | pass | `TypeOK`; `WriteConservation`: every script write is in exactly one place (in the call, in the queue, or registered exactly once), so concurrent flushes by both threads lose or duplicate nothing; `PendingFlushFIFO`: after a flush, each fact holds its last queued value (or was pruned); `SyncEventuallyEnds`: a sync or lock that started always ends, through the script's release or the fail-safe. 177k distinct states; every action fires. |
| `questsync_forced_release_early` | violation | `ForcedReleaseOnlyAfterTimeout`. The fail-safe sees `m_lock_active` set before `m_lock_timestamp` is stored, and the stale timestamp (0, or the previous window's) makes it force-release a lock that was just taken. |
| `questsync_stranded_fact` | violation | `QueuedFactEventuallyApplied`. `W3mAtomicAddFact` loads the flag, the release clears it and flushes, and only then is the fact pushed. It stays in the queue with no release to come. |

Each property of the passing run has a mutant in `QuestSync.tla`, defined
just before the definition it replaces. TLC finds the property violated
under each one:

| Property | Mutant |
|---|---|
| `TypeOK` | `FlushIntoRaw`: queued records copied without `register_fact` |
| `WriteConservation` | `ReleaseFlushKeepQueue`: the `clear` is forgotten |
| `PendingFlushFIFO` | `FlushIntoReversed`: the queue walked back to front |
| `SyncEventuallyEnds` | `ReleaseSyncNoStore`: the flag is never cleared |

### Interpolator runs

`MCSnapshotInterpolator.cfg` has these bounds:

- four snapshots (one more than the ring, so it wraps);
- a clock up to 600 ms in 50 ms frames;
- one half-millisecond step in the first frame.

These bounds are enough for the cases that matter:

- an extrapolation at 0 ms, a resumption at 100 ms and a blend that ends
  500 ms later all fit;
- sub-millisecond snapshot pairs happen in the first frame.

The violation run uses three snapshots and 350 ms.

| Run | Expect | What it checks |
|---|---|---|
| `interp_core` | pass | `AngleWrapShortest`: for angles on both sides of the wrap and beyond one turn, `lerp_angle`'s difference is within [-180, 180] and still ends at `b` modulo 360; 359 → 1 at `t = 0.5` gives 360 (spec 4.1 and its test). `LegacyRefinement`: the class implements the file's first `player_interpolator` under `LegacyOut`. `RingHoldsLatest`: the valid slots hold exactly the last `count` snapshots since the reset. `InterpolationBrackets`: a lerp uses the latest snapshot at or before `now - 100 ms` and the earliest after it, at the right fraction. `ExtrapolationFromNewest`: dead reckoning starts from the newest snapshot, with age minus 100 ms. `RecoveryBlendWindow`: after an extrapolated state is shown, interpolated results blend from exactly that state, with weight equal to the time since resumption, until the first call at or past 500 ms. The action properties look at get steps: steps that change only the result and the blend state (`GetStep`). 2.8M distinct states, about 2 minutes. |
| `interp_reset_leaks_anchor` | violation | `NoPreResetData`. `reset()` keeps the anchor and blend state, so the first blend after a teleport starts from a pre-reset snapshot. |

Mutants of `interp_core`:

| Property | Mutant |
|---|---|
| `TypeOK` | `AddSnapshotUncapped`: `snapshot_count_` is not capped |
| `RingHoldsLatest` | `ResetKeepCount`: `reset` does not rewind the count |
| `InterpolationBrackets` | `OlderSetFirstFound`: the older search keeps the first match |
| `ExtrapolationFromNewest` | `MostRecentSlotFirstValid`: the newest-snapshot scan returns the first valid slot |
| `RecoveryBlendWindow` | `ApplyBlendIfNeededLate`: `>=` becomes `>` in the blend end test |
| `AngleWrapShortest` | `AngleDeltaWide`: the loops normalise to [-360, 360] |
| `LegacyRefinement` | `NewerSetAtOrAfter`: a snapshot stamped exactly at the render time counts as newer |

### Relay runs

`MCSessionRelay.cfg` has two clients holding the keys of guids 1 and 2,
`Expiry = 1`, two nonces, and send budgets of 3 and 1 packets
(`MCMaxSends`).

- Three packets let client 1 claim a guid, answer its `authRequest` (or
  repeat the claim after the request was lost, and answer then) and send
  again. That reaches authentication, forged answers, and a re-claim
  after authentication.
- Client 1 can claim client 2's guid and answer with its own key. This
  is the forgery `AuthenticatedHoldsKey` must rule out.
- Client 2's one packet makes it an unknown address: a `state`, or an
  `authResponse` or `kill` that default-builds its entry, and then
  silence. That is the case `SilentEntriesExpire` is about. A budget of
  2 for client 2 as well gives a graph about ten times larger, whose
  liveness check takes over four minutes, without adding a case the
  three properties tell apart.
- The violation run `relay_fact_dropped` gives both clients a budget
  (`MCMaxSendsParty`: 3 and 2) that lets both authenticate, since a fact
  is relayed only between two authenticated members.
- The pass run uses lossy UDP, one fact byte, one gated kind and the
  `cutscene` relay (the one that includes its sender; `attack` differs
  from `fact` only in its type byte), to keep the state space small. The violation runs use reliable delivery and
  every value, so a violation cannot be blamed on loss.

| Run | Expect | What it checks |
|---|---|---|
| `relay_core` | pass | `TypeOK`; `AuthenticatedHoldsKey`: an address is authenticated only with a key it holds, whatever guids, keys and replayed nonces clients send; `SilentEntriesExpire`: once a client has sent its last packet, its entry, including one default-built by an `authResponse` or `kill` from an unknown address, is eventually erased. 69k distinct states, about 30 s. |
| `relay_fact_dropped` | violation | `FactRelayed`. `handle_fact_broadcast` reads a `packet_type` that the sender never writes. The byte it reads is the fact name's first character, so every real fact is dropped. |

Mutants of `relay_core`:

| Property | Mutant |
|---|---|
| `TypeOK` | `HandleStateRegenNonce`: a new nonce on every state packet |
| `AuthenticatedHoldsKey` | `HandleAuthResponseNoVerify`: the signature is not checked |
| `SilentEntriesExpire` | `RunFrameAuthenticatedOnly`: only authenticated entries expire |

### Gate runs

`MCHandshakeGate.cfg` has these bounds:

- session ids {0, 7};
- one achievement id, `<<1, 2, 3, 4>>`, through a 3-char
  field (`AchLen`, for the code's 64): the long one is cut to
  `<<1, 2>>`, so a loopback or peer packet unlocks an id the script never
  passed;
- gold and one relic;
- one foreign address;
- four packet kinds inbound: handshake, loot, achievement and heartbeat
  (an inbound quest_lock is handled exactly as a heartbeat is: both
  handlers only print);
- four packet ids in total.

Four packets are enough for the interesting orders:

- loot queued before a handshake and drained after it;
- a zero-id handshake followed by a real one;
- a forged packet from the foreign address;
- a loopback switch between queueing and draining.

| Run | Expect | What it checks |
|---|---|---|
| `gate_core` | pass | `TypeOK` (which includes `accepted \subseteq taken`: nothing is let through that the receive path did not handle); `LootConservation`: every queued loot packet is in exactly one place (the queue, the outbox, or handled by the receiver); `AchievementIdsFromScripts`: every unlocked id is one a script unlocked, whole or as a C reader of its packet field sees it (`CString`), whatever loopback switches, forged packets and handshakes interleave; `GateRefinement`: the bridge implements the gate of spec 4.4. `LootEventuallyLeaves`: under the fairness of the async `process_queue` loop, every queued loot packet is eventually sent to the master server or handed to the local receiver, whether or not a handshake ever completes. About 688k distinct states, 70 s. |

Mutants of `gate_core`:

| Property | Mutant |
|---|---|
| `TypeOK` | `ExtractStringWhole` (in `WireCodec`): `extract_string` reads all N bytes without `strnlen`, so an id gains NUL bytes |
| `GateRefinement` | `PassesNoGate`: gameplay passes before the handshake |
| `LootConservation` | `ProcessQueueFrontOnly`: only the front packet is handled, though all are popped |
| `AchievementIdsFromScripts` | `CopyStringFull` (in `WireCodec`): N bytes are copied and the NUL is written only if there is room |
| `LootEventuallyLeaves` | `ProcessQueueAfterHandshake`: the loop returns early until the handshake is complete |

### Time smoothing run

`TimeReconciler.cfg` starts with the 7 s drift of spec section 8, a 5 s
heartbeat and the 3 s window. The console command is off, so every step
comes from heartbeats.

| Run | Expect | What it checks |
|---|---|---|
| `time_smoothing_stuck` | violation | `SmoothingCompletes`: a smoothing that starts ends with the multiplier restored. The first heartbeat starts smoothing at +7 s. Five seconds at +7/3 later the drift is -14/3 s, read as -4 and ignored. Five more put it past -10 s, where it is snapped without a restore. The snap leaves the +7/3 boost in place, so from the third heartbeat on the drift goes from 0 to -35/3 s in every period, is read as -11 and is snapped again: every heartbeat snaps, and the clock runs fast forever. |

### Remote player pool runs

`RemotePlayerPool.cfg` bounds:

- lists of up to 3 players against the cap of 2;
- at most 6 entities created over a behaviour, enough for a pool of two
  to be destroyed and rebuilt twice.

This is enough for:

- a third player being ignored;
- a failed spawn;
- a pool that shrinks and grows again while slots are remembered;
- a story companion on either slot.

| Run | Expect | What it checks |
|---|---|---|
| `pool_core` | pass | `TypeOK` (the pool and the slot array never exceed two); `DistinctHudSlots`: within a frame no HUD slot is given to two pool indices, across joins, departures, failed spawns, restarts and story companions. 4579 distinct states. |

While modelling the pool we also found that a remembered HUD slot is never
re-checked. Take this sequence:

1. a story companion holds slot 0;
2. the first remote player takes slot 1;
3. a quest puts a second companion on slot 1;
4. the next frame reuses the remembered slot without calling
   `GetNextAvailableHUDSlot`.

The remote player is then shown over the companion. This contradicts the
comments "respects story companion NPCs" and "leave story NPCs untouched".
No run checks it, because the bridge stub returns no players in this build.
It is listed as a hazard.

Mutants of `pool_core`:

| Property | Mutant |
|---|---|
| `TypeOK` | `FramePoolSizeUncapped`: the pool is sized without `MAX_REMOTE_PLAYERS` |
| `DistinctHudSlots` | `HudStepNoUsedCheck`: `slotsUsed` is not consulted |

### Scaling run

`ScalingManager.cfg` has three NPCs (two of them bosses), joins up to a
party of 4, console counts {0, 2, 5}, and the console switched on.

- 0 exercises the clamp (the cfg has no negative numbers; every count
  below 1 takes the same branch), and 5 a count above what the joins
  reach.
- 2 can be typed while the party is already 2, so the count stays the
  same and the cache is kept.
- Two NPCs let one NPC keep its config while another's changes.

| Run | Expect | What it checks |
|---|---|---|
| `scaling_core` | pass | `TypeOK`: the party count is at least 1 and every config is one `create_config` can return. `ScalingRecordsCurrent`: every config in the cache is `create_config` of the current party count, after any order of spawns, despawns, joins, departures, player respawns and console counts. This is the promise of the comment "Clear scaling cache to recalculate for new party size". 7912 distinct states. |

| Property | Mutant |
|---|---|
| `TypeOK` | `SetPartyCountUnclamped`: the clamp to 1 is dropped |
| `ScalingRecordsCurrent` | `SetPartyCountKeepCache`: a changed count keeps the cache |

A hazard no property covers: the cache clear does not touch NPCs already
alive. An NPC spawned in a party of 2 keeps its 1.5x health after a third
player joins; only NPCs spawned later get 2x.

### Narrative hooks run

`MCStoryHooks_SceneFactsSynced.cfg` has these bounds:

- one quest fact and one objective fact;
- one value;
- scenes 1 (the area), 999 (cutscene) and 123 (console);
- a cache limit that never prunes;
- the console switched off;
- four script calls.

Four calls are enough for a scene with one write inside it.

| Run | Expect | What it checks |
|---|---|---|
| `hooks_scene_facts_unsynced` | violation | `SceneFactsSynced`: once a scene is over and the bridge is quiet, the registry holds the quest system's last write of every fact, as spec 4.2's queue-and-flush promises. TLC finds this order: (1) `OnDialogueStart` sets the sync flag; (2) the `SetFact` wrapper sees the flag and skips the bridge; (3) `OnDialogueEnd` releases and flushes an empty queue. The choice made in the dialogue is never registered or broadcast. |

## 4. Fairness

`Spec` assumes weak fairness on three things, and each is justified by
the code:

- **`MainStep`.** A bridge call, once entered, runs to completion. No
  step blocks, and the mutexes are held only for map or vector
  operations.
- **`AsyncStep`.** `scheduler::loop` runs the heartbeat every 5000 ms on
  the async pipeline for the whole session.
- **`Tick`.** Time passes.

`SnapshotInterpolator`, `RemotePlayerPool` and `ScalingManager` have no fairness: their
properties are all safety (the refinement is of a safety specification).

`HandshakeGate`'s `FairSpec` assumes weak fairness of `ProcessQueue` only:
`post_load` starts `scheduler::loop` for `process_queue` every 100 ms on
the async pipeline for the whole session, and the step is enabled while
the queue is non-empty. Scripts, the heartbeat and the network get no
fairness.

`SessionRelay` assumes weak fairness of `RunFrame` and `Tick`.
`server::run` calls `run_frame` every 30 ms until it is stopped, and the
clock always advances. Clients and the network get no fairness.

`TimeReconciler` assumes weak fairness of `Tick` and `Heartbeat`: engine
time always passes, and spec 4.5 sends the heartbeat every 5 s. The
console command gets no fairness.

`StoryHooks` keeps `QuestSync`'s fairness for the bridge steps. The engine events (hooks) get none: a dialogue may never start or end.

New script calls (`ScriptCall`) are not fair: a game script may never
call again. This is why `QueuedFactEventuallyApplied` fails: no later
release is guaranteed.

## 5. Not modelled, and why

- `W3mReconcileCrowns` is one comparison and one engine call, and
  nothing calls it. It differs from spec 8: any crowns difference is
  corrected, where spec 8 ignores a difference of 5.
- The weather request is modelled (see `TimeReconciler`), but the time
  smoothing run keeps a single weather, so that its trace is about the
  clock. `RequestWeatherChange` asks for clear weather for every host
  weather other than clear, rain and snow. Such a host weather is never
  matched, and it is requested again on every heartbeat. This is listed
  as a hazard; no run checks it.
- The script-side pending-fact queue (`W3mAtomicAddFact`,
  `W3mFlushPendingFacts`) is filled only while
  `w3mGlobalSyncInProgress` is set. The flag is set and cleared inside
  the single synchronous body of `W3mReconcileWorldState`, so the queue
  is always empty and every call applies directly. (Its flush would turn
  a queued permanent fact, `validFor = -1`, into a removal.)
- The unguarded `m_unlocked_achievements` set is modelled as updated
  atomically. See the hazard in `PROJECT.json`.

- Read-only getters (`W3mGetFactValue`, `W3mHasFact`, `W3mGetFactCount`,
  `W3mComputeWorldStateHash`) change no state. The world-state hash the
  heartbeat computes only feeds a `printf`.
- `dialogue_proximity_manager` only logs and records teleport requests,
  which nothing consumes.
- The packet structs and `buffer_serializer` are data layouts; packets
  are whole records in the model. `XORCipher` (the end of
  `interpolator.hpp`) is called nowhere in the repository, so packets go
  out unencrypted and there is no encryption step to model.
- `W3mApplyPartyScaling` and `get_scaling_description` only log or
  format text.
- The receivers of the server's `"attack"`, `"cutscene"` and `"states"`
  packets are not in the repository; in `SessionRelay` a client takes
  them off the network and nothing more. The relays forward packets from
  any address, authenticated or not (a hazard in `PROJECT.json`); the run
  budget has no violation run left to state it.
- UI, input, dashboard, renderer and logger are presentation and I/O.
- The stress-test channel (`src/unnamed/part_012`): `chaos_send` is
  never called from the networking code, and the dashboard's `chaos`
  command only prints ("integration pending"). The script bridge
  `W3mInjectNetworkChaos` would only set the latency and loss of a
  channel that nothing sends through, and `process_delayed_packets`
  drains a queue nothing fills. spec.md also puts the chaos harness out
  of scope.
- `W3mGetPlayerStates` is a stub that returns an empty array, and nothing
  writes `g_players`; `RemotePlayerPool` lets the bridge return non-empty
  lists instead (see its section).
- The retired runs about the quest lock racing a forced release, and about
  the relay having no handshake handler, are kept as hazards in
  `PROJECT.json`: the run budget went to the pool and to time smoothing.
  The relay run `relay_guid_rebind` was retired in the same way, for the
  scaling run. It found `AuthenticatedGuidIsKeyGuid` violated:
  `handle_player_state` rebinds `client.guid` on every state packet, also
  after authentication. This is now a hazard in `PROJECT.json`.
- Vendored libtomcrypt and deploy scripts are not part of the protocol.
- 32-bit hash collisions of fact names: the model takes the hash to be
  injective (see the hazard in `PROJECT.json`).
