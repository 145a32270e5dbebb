------------------------------ MODULE GpuProbe ------------------------------
(***************************************************************************)
(* The two verdicts a launch leaves for the next one about the GPU:        *)
(* GpuSafeMode, whose sentinel survives a run that never painted, and      *)
(* BrowserHwAccel, whose sentinel survives a run that froze after it gave  *)
(* browser sources hardware acceleration.  Launches follow each other,     *)
(* exit, fault, freeze and are killed; files fail to be written, and are   *)
(* deleted when the code deletes them.                                     *)
(*                                                                         *)
(* The config directory exists, and no launch is a self-test.  Exchanging  *)
(* the armed flag and deleting the sentinel are one step: a kill between   *)
(* them leaves what a kill before them leaves.                             *)
(***************************************************************************)

VARIABLES
    \* on disk
    marker,     \* braidcast_disable_gpu.txt, the user's
    safeMode,   \* gpu-safe-mode.on
    sentinel,   \* gpu-probe.lock
    hwSentinel, \* browser-hwaccel-probe.lock
    setting,    \* browser_hw_accel, as saved
    \* in the process
    run,        \* where the launch is, "down" for none
    browserHwAccel,     \* the setting as the process has it
    software,   \* g_softwareRendering
    enabled,    \* acceleration published to obs-browser
    armed,      \* g_hwAccelProbeArmed
    frozen,     \* CEF's UI thread is stuck
    verdict     \* ghost: an accelerated run froze, and the user has not
                \* touched the setting since

disk == <<marker, safeMode, sentinel, hwSentinel, setting>>
process == <<run, browserHwAccel, software, enabled, armed, frozen>>
vars == <<disk, process, verdict>>

Init ==
    /\ marker = FALSE /\ safeMode = FALSE
    /\ sentinel = FALSE /\ hwSentinel = FALSE
    /\ setting \in BOOLEAN
    /\ run = "down"
    /\ browserHwAccel = FALSE /\ software = FALSE /\ enabled = FALSE
    /\ armed = FALSE /\ frozen = FALSE
    /\ verdict = FALSE

-----------------------------------------------------------------------------
(* Boot.                                                                   *)

\* GpuSafeMode::DecideAtBoot.
Launch ==
    /\ run = "down"
    /\ \/ /\ marker \/ safeMode
          /\ software' = TRUE /\ run' = "settings"
          /\ UNCHANGED sentinel
       \/ /\ ~marker /\ ~safeMode /\ sentinel
          /\ software' = TRUE /\ run' = "fallback"
          /\ UNCHANGED sentinel
       \/ /\ ~marker /\ ~safeMode /\ ~sentinel
          /\ software' = FALSE /\ run' = "settings"
          /\ sentinel' \in BOOLEAN
    /\ UNCHANGED <<marker, safeMode, hwSentinel, setting, browserHwAccel,
                   enabled, armed, frozen, verdict>>

\* The fallback is made sticky, if the file can be written, and then the
\* sentinel goes.
WriteSafeMode ==
    /\ run = "fallback"
    /\ run' = "consume"
    /\ safeMode' \in BOOLEAN
    /\ UNCHANGED <<marker, sentinel, hwSentinel, setting, browserHwAccel,
                   software, enabled, armed, frozen, verdict>>

ConsumeSentinel ==
    /\ run = "consume"
    /\ run' = "settings"
    /\ sentinel' = FALSE
    /\ UNCHANGED <<marker, safeMode, hwSentinel, setting, browserHwAccel,
                   software, enabled, armed, frozen, verdict>>

\* ObsBootstrap::Start has loaded the settings: BrowserHwAccel::DecideAtBoot
\* and what it decided is published.
HwAccelDecideAtBoot ==
    /\ run = "settings"
    /\ browserHwAccel' = setting
    /\ \/ /\ ~setting
          /\ hwSentinel' = FALSE
          /\ run' = "up" /\ UNCHANGED <<enabled, armed>>
       \/ /\ setting /\ software
          /\ run' = "up" /\ UNCHANGED <<enabled, armed, hwSentinel>>
       \/ /\ setting /\ ~software /\ hwSentinel
          /\ run' = "suppress" /\ UNCHANGED <<enabled, armed, hwSentinel>>
       \/ /\ setting /\ ~software /\ ~hwSentinel
          /\ hwSentinel' \in BOOLEAN
          /\ enabled' = TRUE /\ armed' = TRUE
          /\ run' = "up"
    /\ UNCHANGED <<marker, safeMode, sentinel, setting, software, frozen,
                   verdict>>

\* Mutant: the verdict is spent whether or not the setting was saved.
SuppressAnyway ==
    /\ run = "suppress"
    /\ browserHwAccel' = FALSE
    /\ setting' \in BOOLEAN
    /\ run' = "confirm"
    /\ UNCHANGED <<marker, safeMode, sentinel, hwSentinel, software, enabled,
                   armed, frozen, verdict>>

\* The setting is turned off and saved, or the save fails.
Suppress ==
    /\ run = "suppress"
    /\ browserHwAccel' = FALSE
    /\ \/ setting' = FALSE /\ run' = "confirm"
       \/ run' = "up" /\ UNCHANGED setting
    /\ UNCHANGED <<marker, safeMode, sentinel, hwSentinel, software, enabled,
                   armed, frozen, verdict>>

ConfirmSuppressionPersisted ==
    /\ run = "confirm"
    /\ hwSentinel' = FALSE
    /\ run' = "up"
    /\ UNCHANGED <<marker, safeMode, sentinel, setting, browserHwAccel,
                   software, enabled, armed, frozen, verdict>>

-----------------------------------------------------------------------------
(* A run and its end.                                                      *)

\* DisarmHwAccelProbe, and the sentinel with it: only the process that armed
\* the probe closes it.
CloseProbe ==
    /\ hwSentinel' = (hwSentinel /\ ~armed)
    /\ armed' = FALSE

\* OnLoadEnd of the main frame: NotePaintSuccess.
Paint ==
    /\ run = "up" /\ ~frozen
    /\ sentinel' = FALSE
    /\ UNCHANGED <<marker, safeMode, hwSentinel, setting, process, verdict>>

\* The probe's timer task: NoteSurvived.
ProbeTimer ==
    /\ run = "up" /\ ~frozen /\ armed
    /\ CloseProbe
    /\ UNCHANGED <<marker, safeMode, sentinel, setting, run, browserHwAccel,
                   software, enabled, frozen, verdict>>

\* The user ticks or unticks the setting, or changes another one of the file;
\* the save may fail.
SetAdvanced(on) ==
    /\ run = "up" /\ ~frozen
    /\ browserHwAccel' = on
    /\ setting' \in {setting, on}
    /\ verdict' = (verdict /\ on = browserHwAccel)
    /\ UNCHANGED <<marker, safeMode, sentinel, hwSentinel, run, software,
                   enabled, armed, frozen>>

Freeze ==
    /\ run = "up" /\ enabled /\ ~frozen
    /\ frozen' = TRUE
    /\ UNCHANGED <<disk, run, browserHwAccel, software, enabled, armed,
                   verdict>>

Ended ==
    /\ run' = "down"
    /\ browserHwAccel' = FALSE /\ software' = FALSE /\ enabled' = FALSE
    /\ frozen' = FALSE
    /\ UNCHANGED <<marker, safeMode, sentinel, setting>>

\* Teardown, at the end of a session or from a bail-out of the boot.
Teardown ==
    /\ run \in {"settings", "up"} /\ ~frozen
    /\ CloseProbe
    /\ Ended
    /\ UNCHANGED verdict

\* A fault on any thread: bcrash's sink closes the probe and exits.
FatalError ==
    /\ run # "down"
    /\ CloseProbe
    /\ Ended
    /\ UNCHANGED verdict

\* The process is killed.  A frozen run whose sentinel is on disk has shown
\* that acceleration freezes this machine.
Kill ==
    /\ run # "down"
    /\ verdict' = (verdict \/ (frozen /\ armed /\ hwSentinel))
    /\ armed' = FALSE
    /\ Ended
    /\ UNCHANGED hwSentinel

\* Between launches the user drops the marker beside the exe, takes it away,
\* or deletes the safe-mode file.
UserFiles ==
    /\ run = "down"
    /\ marker' \in BOOLEAN
    /\ safeMode' \in {safeMode, FALSE}
    /\ UNCHANGED <<sentinel, hwSentinel, setting, process, verdict>>

-----------------------------------------------------------------------------
(* The specification.                                                      *)

Next ==
    \/ Launch
    \/ WriteSafeMode
    \/ ConsumeSentinel
    \/ HwAccelDecideAtBoot
    \/ Suppress
    \/ ConfirmSuppressionPersisted
    \/ Paint
    \/ ProbeTimer
    \/ \E on \in BOOLEAN : SetAdvanced(on)
    \/ Freeze
    \/ Teardown
    \/ FatalError
    \/ Kill
    \/ UserFiles

Spec == Init /\ [][Next]_vars

-----------------------------------------------------------------------------
(* Properties.                                                             *)

\* Every variable is a flag, and `run` a place of the boot.
GpuTypeOK ==
    /\ marker \in BOOLEAN /\ safeMode \in BOOLEAN
    /\ sentinel \in BOOLEAN /\ hwSentinel \in BOOLEAN
    /\ setting \in BOOLEAN /\ browserHwAccel \in BOOLEAN
    /\ software \in BOOLEAN /\ enabled \in BOOLEAN
    /\ armed \in BOOLEAN /\ frozen \in BOOLEAN /\ verdict \in BOOLEAN
    /\ run \in {"down", "fallback", "consume", "settings", "suppress",
                "confirm", "up"}

\* A machine that froze under acceleration is not walked into the freeze
\* again: no later launch publishes it until the user touches the setting,
\* through failed saves, launches with the GPU disabled, aborted launches,
\* faults and kills at any step (BrowserHwAccel::DecideAtBoot and its
\* closers).
FreezeRemembered == verdict => ~enabled
=============================================================================
