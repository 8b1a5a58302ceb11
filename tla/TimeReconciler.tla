--------------------------- MODULE TimeReconciler ---------------------------
(***************************************************************************)
(* The client's game-clock reconciliation of                              *)
(* src/data/scripts/local/w3mp_final.ws: W3mSmoothTimeReconciliation as   *)
(* called by W3mReconcileWorldState on every host heartbeat and by the     *)
(* W3mTestTimeSmoothing console command.                                  *)
(*                                                                         *)
(* Time is counted in whole engine seconds.  The drift between the host's *)
(* game clock and the local one is kept in thirds of a game second,        *)
(* because the smoothing multiplier adds timeDiff / 3 game seconds per     *)
(* engine second: with the multiplier raised by b/3, the local clock gains *)
(* b thirds on the host every engine second.  Only the difference between  *)
(* the two clocks matters; both run at the same base multiplier.           *)
(***************************************************************************)
EXTENDS Integers

CONSTANTS
    InitialDrifts, \* host minus local game seconds when the session starts
    Period,        \* engine seconds between two heartbeats (5)
    Window,        \* smoothingDuration, 3.0 engine seconds
    DebugConsole,  \* whether the exec console commands are typed at all
    Weathers,      \* EWeatherEffect values the clients may be in
    HostWeathers   \* the host's weather, as the heartbeat reports it

Requestable == {"clear", "rain", "snow"}  \* the cases RequestWeatherChange names

VARIABLES
    drift3,    \* host game time minus local game time, in thirds of a second
    boost,     \* current multiplier minus w3mOriginalTimeMultiplier, x 3
    active,    \* thePlayer.w3mTimeSmoothingActive
    target,    \* thePlayer.w3mTargetTimeOffset
    elapsed,   \* engine time since w3mSmoothingStartTime, saturating at Window
    phase,     \* engine seconds since the last heartbeat
    weather,   \* GetCurWeather()
    requested, \* the weather the last RequestWeatherChange blends towards
    host       \* the host's weather

vars == <<drift3, boost, active, target, elapsed, phase, weather, requested, host>>

AbsI(x) == IF x < 0 THEN -x ELSE x

\* timeDiff = hostGameTime - GameTimeToSeconds(local): the host's time is a
\* whole second and the local one is truncated, so the difference is the
\* drift rounded up to whole seconds.
TimeDiff == -((-drift3) \div 3)

\* theGame.SetGameTime(GameTimeCreateFromGameSeconds(hostGameTime)), where
\* the caller passed hostGameTime = local seconds + d: the local clock
\* lands d seconds past its truncated value.
SnapDrift(d) == 3 * (TimeDiff - d)

\* The 5.0 <= |timeDiff| <= 10.0 test.
InBand(d) == AbsI(d) >= 5 /\ AbsI(d) <= 10

\* W3mSmoothTimeReconciliation(hostGameTime), where d is the timeDiff it
\* computes.  Starting fixes the target offset and the start time; the
\* multiplier is raised on a call less than Window seconds after the start
\* and restored, with a snap, on any later in-band call.  A drift above 10 s
\* is snapped without touching the multiplier; a smaller one is ignored.
Smooth(d) ==
    LET starting == InBand(d) /\ ~active
        tgt      == IF starting THEN d ELSE target
        el       == IF starting THEN 0 ELSE elapsed
    IN
    \/ /\ InBand(d)
       /\ el < Window
       /\ active' = TRUE
       /\ target' = tgt
       /\ elapsed' = el
       /\ boost' = tgt
       /\ UNCHANGED drift3
    \/ /\ InBand(d)
       /\ el >= Window
       /\ active' = FALSE
       /\ target' = tgt
       /\ elapsed' = el
       /\ boost' = 0
       /\ drift3' = SnapDrift(d)
    \/ /\ AbsI(d) > 10
       /\ drift3' = SnapDrift(d)
       /\ UNCHANGED <<boost, active, target, elapsed>>
    \/ /\ AbsI(d) < 5
       /\ UNCHANGED <<drift3, boost, active, target, elapsed>>

\* RequestWeatherChange(targetWeather): WT_Clear, WT_Rain_Storm or WT_Snow
\* for the three named cases, WT_Clear for every other weather.
WeatherRequest(w) == IF w \in Requestable THEN w ELSE "clear"

-----------------------------------------------------------------------------

\* One engine second: the local clock gains boost thirds on the host.
Tick ==
    /\ phase < Period
    /\ phase' = phase + 1
    /\ drift3' = drift3 - boost
    /\ elapsed' = IF active /\ elapsed < Window THEN elapsed + 1 ELSE elapsed
    /\ UNCHANGED <<boost, active, target, weather, requested, host>>

\* The engine finishes a requested weather blend.
WeatherBlend ==
    /\ weather # requested
    /\ weather' = requested
    /\ UNCHANGED <<drift3, boost, active, target, elapsed, phase, requested, host>>

\* W3mReconcileWorldState(hostGameTime, hostWeatherID) on a heartbeat.  It
\* sets w3mGlobalSyncInProgress, smooths, requests the host's weather if
\* GetCurWeather() differs, and flushes the script's pending facts,
\* clearing the flag: nothing else runs in between, so the pending list is
\* empty.
Heartbeat ==
    /\ phase = Period
    /\ phase' = 0
    /\ Smooth(TimeDiff)
    /\ requested' = IF weather # host THEN WeatherRequest(host) ELSE requested
    /\ UNCHANGED <<weather, host>>

\* exec W3mTestTimeSmoothing: hostTime = W3mGetGameTime() + 7.
TestTimeSmoothing ==
    /\ DebugConsole
    /\ Smooth(7)
    /\ UNCHANGED <<phase, weather, requested, host>>

Init ==
    /\ drift3 \in {3 * d : d \in InitialDrifts}
    /\ boost = 0
    /\ active = FALSE
    /\ target = 0
    /\ elapsed = 0
    /\ phase = 0
    /\ weather \in Weathers
    /\ requested = weather
    /\ host \in HostWeathers

Next == Tick \/ Heartbeat \/ TestTimeSmoothing \/ WeatherBlend

\* The engine clock always advances, the heartbeat always arrives and a
\* requested weather blend completes; a console command may never be typed.
Spec == Init /\ [][Next]_vars /\ WF_vars(Tick) /\ WF_vars(Heartbeat)
            /\ WF_vars(WeatherBlend)

-----------------------------------------------------------------------------
(* Properties.                                                             *)

TypeOK ==
    /\ drift3 \in Int
    /\ boost \in -10..10
    /\ active \in BOOLEAN
    /\ target \in -10..10
    /\ elapsed \in 0..Window
    /\ phase \in 0..Period
    /\ weather \in Weathers /\ requested \in Weathers /\ host \in HostWeathers

\* Spec 4.5 and the 7 s test of section 8: a smoothing that starts
\* (W3mSmoothTimeReconciliation raising the multiplier) always ends with
\* the original multiplier restored.  The restore happens only on an
\* in-band call at least 3 s after the start, while the raised multiplier
\* keeps moving the drift by 5/3 of the offset per heartbeat.
SmoothingCompletes == active ~> (~active /\ boost = 0)

=============================================================================
