----------------------------- MODULE AudioStartup -----------------------------
(***************************************************************************)
(* How the board comes up: the XMOS updater holds back ESPHome's setup,    *)
(* the companion (realtime_companion.cpp) starts the microphone and the    *)
(* gateway transport behind its guard, ffva_audio sets up the codec and    *)
(* unmutes it once the microphone runs; any of it may be cut short by a    *)
(* restart of the ESP32 or of the whole board.                             *)
(***************************************************************************)
EXTENDS XmosUpdater

CONSTANT MaxRestarts    \* bound: restarts nobody asked for

ASSUME StartupAssumption == MaxRestarts \in Nat

VARIABLES
  restarts,   \* how many there were
  companion,  \* setup of the companion: "waiting", "ready", "failed"
  mic,        \* microphone_started_
  client,     \* whether client_ exists: the transport to the gateway
  codec,      \* setup of ffva_audio: "waiting", "ready" (codec_ready_), "failed"
  output,     \* output_ready_
  unmuted     \* the codec: whether it is unmuted, which outlives the ESP32

audioVars == <<companion, mic, client, codec, output, unmuted>>
startupVars == <<updater, restarts, audioVars>>

Init ==
  /\ UpdaterInit /\ restarts = 0
  /\ companion = "waiting" /\ mic = FALSE /\ client = FALSE
  /\ codec = "waiting" /\ output = FALSE /\ unmuted = FALSE

\* ESPHome goes on with its setup once can_proceed(), or past a component
\* that is marked failed.
SetupGoesOn == CanProceed \/ phase = "ERROR"

CompanionSetup ==
  /\ SetupGoesOn /\ companion = "waiting"
  /\ companion' \in {"ready", "failed"}
  /\ mic' = (companion' = "ready" /\ CanProceed)
  /\ UNCHANGED <<updater, restarts, client, codec, output, unmuted>>

\* configure_codec_primary_(): every register written and read back, or not.
ConfigureCodec == codec' \in {"ready", "failed"}

CodecSetup ==
  /\ SetupGoesOn /\ companion # "waiting" /\ codec = "waiting"
  /\ ConfigureCodec
  /\ UNCHANGED <<updater, restarts, companion, mic, client, output, unmuted>>

Running == codec # "waiting"    \* the main loop runs: ffva_audio is set up last

\* connect() may fail, and is tried again.
Connect == client' \in {client, TRUE}

CompanionLoop ==
  /\ Running /\ companion = "ready" /\ CanProceed
  /\ mic' = TRUE /\ Connect
  /\ UNCHANGED <<updater, restarts, companion, codec, output, unmuted>>

\* set_volume() and set_mute_off() may each fail, and are tried again.
CodecLoop ==
  /\ Running /\ codec = "ready" /\ ~output /\ mic
  /\ output' \in BOOLEAN /\ unmuted' \in {output' \/ unmuted, TRUE}
  /\ UNCHANGED <<updater, restarts, companion, mic, client, codec>>

\* What a restart of the ESP32 leaves of this module's state: on_shutdown()
\* mutes the codec before App.reboot(), and nothing does before a crash.
AudioRestarts(mute) ==
  /\ companion' = "waiting" /\ mic' = FALSE /\ client' = FALSE
  /\ codec' = "waiting" /\ output' = FALSE /\ unmuted' = (unmuted /\ ~mute)

UpdateVerified == Verified /\ AudioRestarts(TRUE) /\ UNCHANGED restarts

EspRestarts(mute) ==
  /\ restarts < MaxRestarts /\ restarts' = restarts + 1
  /\ Restarts /\ AudioRestarts(mute) /\ UNCHANGED xmos

PowerLost ==
  /\ restarts < MaxRestarts /\ restarts' = restarts + 1
  /\ Restarts /\ AudioRestarts(TRUE) /\ Boots

Updates == UpdaterStep /\ UNCHANGED <<restarts, audioVars>>

System == Updates \/ UpdateVerified \/ CompanionSetup \/ CodecSetup \/ CompanionLoop \/ CodecLoop

Next ==
  \/ System
  \/ XmosBoots /\ UNCHANGED <<restarts, audioVars>>
  \/ \E mute \in BOOLEAN : EspRestarts(mute)
  \/ PowerLost

Spec == Init /\ [][Next]_startupVars

\* ESPHome runs its main loop: passes of the updater, and its setup.
Fairness ==
  /\ WF_startupVars(Updates \/ UpdateVerified)
  /\ WF_startupVars(CompanionSetup)

FairSpec == Spec /\ Fairness

-------------------------------------------------------------------------------

\* The types of both modules.
StartupTypeOK ==
  /\ UpdaterTypeOK /\ restarts \in 0 .. MaxRestarts
  /\ companion \in {"waiting", "ready", "failed"} /\ mic \in BOOLEAN /\ client \in BOOLEAN
  /\ codec \in {"waiting", "ready", "failed"} /\ output \in BOOLEAN /\ unmuted \in BOOLEAN

\* The microphone, the gateway transport and the output are in use only
\* while the chip runs the image they were built for, across updates that
\* are cut short by a restart and codecs that stay unmuted through one.
AudioNeedsTarget ==
  /\ mic \/ output \/ unmuted => image = Target
  /\ mic \/ client => CanProceed

\* The board implements GuardedUpgrade, audio being the microphone or an
\* unmuted codec: an image changes only while there is none, and only the
\* stock image does.
Guard == INSTANCE GuardedUpgrade WITH audio <- mic \/ unmuted
UpgradeIsGuarded == Guard!Spec

\* Every start comes to a decision, and stays with it: the microphone runs,
\* or the update has failed and says so, whatever the chip answers.
StartupDecides == <>[](mic \/ companion = "failed" \/ phase = "ERROR")

===============================================================================
