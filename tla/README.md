# Verification of the ReSpeaker Lite realtime assistant

TLA+ models of the gateway (`src/gateway`, Python, asyncio) and of the firmware components
(`src/firmware/components`, C++, FreeRTOS under ESPHome) that together turn an ESP32 with a
microphone and a speaker into a voice assistant on OpenAI's Realtime API; what TLC checks of them,
and what TLAPS proves.

Six parts are modelled:

* **Assistant playback**: how generated speech gets from the cloud to the DAC in order, complete
  and under flow control, and how it stops when the user interrupts, a newer response supersedes
  it, the device is muted or something is lost. Four asyncio tasks on one side, four FreeRTOS tasks
  on the other, and the only state both believe in is a count of milliseconds.
* **Timers**: rows of a table that must ring on a device that may be in a voice session or offline,
  through a gateway whose tasks announce, cancel and close them between each other's awaits.
* **The session in the device**: from the wake word over the chime to the first frame of speech,
  through stops, mutes, ready waits and lost connections, against a gateway that answers later.
* **The session in the gateway**: the tasks that start, stop and switch it, and the metered cloud
  connections they open and must close.
* **Microphone input**: what becomes of each frame in the gateway, between echo guards, level gates
  that let out what they held back, and a queue that forgets its oldest.
* **Start-up**: the XMOS updater, which may rewrite the audio chip's firmware in the field, the
  codec, and the guard that keeps the microphone off until both are right.

## 1. Inventory

### Gateway (`src/gateway`)

| component | state it keeps | operations | talks to |
|---|---|---|---|
| Device endpoint (`app.py` `device_socket`) | registry `device_sessions`, one per device id | authenticate, replace an older session, dispatch messages, close | `DeviceSession`, UI hub |
| Session lifecycle (`session.py` `request_start`, `start`, `stop`, `_switch_project`, `close`) | `cloud`, `session_id`, `project_id`, `state`, `start_task`, `stopping` | open and close the cloud session, switch projects, tear down | `RealtimeConnection`, `Database`, `Planner` |
| Assistant playback (`session.py` `_audio_delta` … `_complete_playback`) | `output`, `output_buffer`, `playback_queue`, `playback_progress_event`, `cancelled_response_ids` | frame, queue, pace, send, complete, interrupt, time out | cloud reader, device |
| Microphone input (`receive_audio`, `_input_sender`) | `input_queue`, level gates, echo gate | accept, gate, queue (dropping the oldest), forward | cloud |
| Voice tools (`_handle_tool_call`, `_voice_*`) | pending end, ready wait, search tasks | end, wait for ready, timers, volume, search, switch | database, device |
| Ready wait (`_enter_ready_wait_if_possible`, `ready_detected`) | `ready_wait_requested`, `waiting_for_ready`, `pending_ready_call_id` | enter after playback, leave on the local keyword | device, cloud |
| Timers (`_run_timers`, `notify_pending_timer`, `timer_dismissed`) | rows of `timers`, `timer_alarm_sent_id` | set, ring, dismiss, cancel, resend | device, database |
| Cloud connection (`realtime.py`) | socket, reader task | connect, append audio, truncate, tool output, close | OpenAI |
| Planner (`planner.py`), database (`db.py`) | projects, plans, turns, sessions | summarise a session, revise a plan | OpenAI, SQLite |
| UI hub and REST API (`app.py`) | connected browsers | publish events, edit projects and plans | sessions, database |

### Firmware (`src/firmware`)

| component | state it keeps | operations | talks to |
|---|---|---|---|
| Playback (`realtime_companion.cpp`) | `playback_queue_`, `stream_id_`, `played_frames_`, prebuffer flags | receive, prebuffer, play, count, report, flush | gateway, speaker |
| Session and transport (same file) | `session_active_`, `stream_ready_`, authentication flags, capture and control queues | start, stop, mute, reconnect, send | gateway, microphone |
| Wake chime and timer alarm (same file) | `wake_ack_*`, `timer_alarm_*` | ring, repeat, dismiss, time out | speaker, gateway |
| XMOS updater (`xmos_dfu`) | `phase_`, `offset_`, clocks of the update | read version, download, verify, reboot | XMOS over I2C |
| Codec bring-up (`ffva_audio`) | configured, muted, volume written | configure, retry, mute on shutdown | the updater's guard, the DAC |
| Status LED, wake-word models, YAML | little | start-up configuration | hardware |

### What is hard here

* **Interleaving.** Every `await` of the session is a place where the reader, the sender, the
  watchdog or the socket loop may run. `interrupt()` holds a stream across two sends; the watchdog
  decides on a stream, awaits a flush and then completes whatever is current; `_audio_delta` uses
  `self.output` after two awaits; the sender looks at the stream, waits, and must look again.
* **No identity on audio.** A binary frame says nothing of its stream: its place on the socket, in
  the device's queue and in the speaker is all that ties it to one.
* **Flow control by a count the two sides reset separately.** The device counts what leaves its
  DAC; the gateway subtracts it from what it sent.
* **Lost reports.** The device keeps one report and overwrites or resets it; completion hangs on
  the last.
* **An alarm is at three places:** a row in the table, the id the gateway has sent and the id the
  device rings, each changed by its own tasks, with a voice session to be ended first and a
  connection that takes messages with it.
* **Three flags and an answer.** Whether there is a session is `session_active_`, `stream_ready_`
  and `session_start_pending_` on the device, written by three tasks, and `cloud`, `start_task` and
  `stopping` in the gateway, and the two agree only by messages that may cross.
* **Audio that must not be sent.** What the microphone has of an ended session sits in a half
  frame, a queue and the sender's hands when the next one starts; the chime sounds just before.
* **Tasks that cancel each other.** `stop()` cancels the watcher and the reader that may be calling
  it; a switch does the same, in the reader of the connection it replaces; `close()` cancels the
  start task.
* **Frames held back.** A level gate keeps the frames it has not let through and sends them later:
  what was rightly withheld, or belongs to another session, must not be among them.
* **Firmware that writes firmware.** An update may be cut short at any block, its acknowledgement
  lost, and the chip's answer be late or wrong.

Properties that make each component correct: *playback*, audio heard in order and once, complete
when it is said to be, silent when cancelled, never overrunning the device, always ending;
*lifecycle*, one cloud connection at a time and none left behind, the device told the truth about
it; *device session*, no speech
of one session in another, no echo of the chime, every wake word heard; *microphone input*, speech whole, in order and to its own session, the
assistant's own voice to none, nobody left deaf; *ready wait*, at most one tool answer
per call; *timers*, every timer rings until dismissed and only then; *planner*, a plan never loses
a concurrent edit; *start-up*,
no write but of the stock image, no block twice, no audio on another image.

## 2. Modules

| module | models | extends |
|---|---|---|
| `PlaybackWire` | what gateway and device say to each other: start, frame, end, flush on an in-order WebSocket | |
| `PlaybackGateway` | the playback half of `DeviceSession`, with an open device that may report anything | `PlaybackWire` |
| `MCPlaybackGateway` | the bound on the wire for TLC | `PlaybackGateway` |
| `PlaybackDevice` | playback in `RealtimeCompanion` | `PlaybackWire` |
| `PlaybackSystem` | both, joined by the two directions of the WebSocket, with fairness | `PlaybackGateway`, `PlaybackDevice` |
| `TimerAlarm` | the timers table, the gateway's tasks that announce and close timers, the connection, and the device's alarm | |
| `SessionDevice` | the voice session in `RealtimeCompanion`: user, main loop, chime, microphone, sender and WebSocket tasks | |
| `SessionSystem` | the same against the gateway as the device meets it, and the connection between them | `SessionDevice` |
| `SessionGateway` | the life of a session in `DeviceSession`, with its cloud connections and its row in the database | |
| `MicrophoneInput` | `receive_audio`, its gates, queue and sender in `DeviceSession`, with all that opens, closes or empties them | |
| `GuardedUpgrade` | what start-up promises: only the stock image is replaced, and only without audio | |
| `XmosUpdater` | `XmosDfu`, and the chip as the updater meets it over I2C | |
| `AudioStartup` | the updater, the codec and the companion in ESPHome's setup order, with restarts; implements `GuardedUpgrade` | `XmosUpdater`, `GuardedUpgrade` (instance) |
| `PlaybackGatewayProof` | type correctness and the order on the wire, proved | `PlaybackGateway`, TLAPS |
| `PlaybackOutputProof` | the other safety properties of the gateway's playback, proved | `PlaybackGatewayProof` |
| `PlaybackSystemProof` | types, the order in which audio is heard and the flow control, gateway and device together, proved | `PlaybackSystem`, `PlaybackOutputProof` |
| `TimerAlarmProof` | types, and that what is announced rings, proved | `TimerAlarm`, TLAPS |
| `AudioStartupProof` | all safety of start-up and its refinement, proved | `AudioStartup`, TLAPS |
| `SessionGatewayProof` | all safety of the gateway's session, proved | `SessionGateway`, TLAPS |
| `SessionSystemProof` | all safety of the session in the device, proved | `SessionSystem`, TLAPS |
| `MicrophoneInputProof` | all safety of the microphone input, proved | `MicrophoneInput`, TLAPS |

### How the models correspond to the code

*Time and data.* A frame is 20 ms of audio and all durations are counted in frames; a frame is
identified by its stream and its number in it, which the code does not send but the model needs
to tell frames apart. The sender's pacing sleep is the choice of when `SendFrame` happens.

*Gateway.* An action is the code between two awaits that may suspend. Where a coroutine is
suspended is a variable per task: `reader` (`starting` and `speaking` inside `_audio_delta`,
`flushing` and `truncating` inside `interrupt`, `failing` between an exception and the ERROR state,
`dead` once the reader task has ended), `sender` (`get`, `pacing`, `waiting` on the event,
`sending`, `ending`) and `watch`. A send joins the wire when it is requested, because `send_lock`
is fair, and the coroutine goes on in a later action. A stream is the number of its `OutputStream`;
the fields of the dataclass are functions of that number, so those of a stream no longer current
stay readable by a task that still holds it. `framed` counts the frames put on `playback_queue`
(`source_bytes` in frames), `kept` records the argument of `conversation.item.truncate`. The
cloud's responses come one after another with one item each; a response's audio may be done
explicitly or only with the response.

*Device.* `WebSocketTask` is `handle_websocket_event`, one handler at a time; `playback.start` and
`playback.flush` are two actions each, as the stream id and the counters are published at different
moments and the main loop and the DAC callback read them in between. `TakeFrame` and `PlayFrame`
are the two halves of the loop's pull and play, with the frame in the loop's hands between them;
a frame is placed whole or goes back. `ReportProgress` is one action: if another stream is
published between its two locks the report is of a stream the gateway has already left, which
ignores it, and the second comparison of the id keeps it from clearing the new one. The 100 ms
period is the choice of when it happens. The speaker is a buffer of `SpeakerBuffer` frames whose
`stop()` takes effect some time later. Two history variables affect no action: `heard` is the last
frame out of the DAC, and `stale` records a report made between the two moments of `playback.start`,
of the new stream with the count of the one before.

*System.* A report in flight blocks the next (`toGateway` holds one): `progress_queue_` has one
slot and is overwritten, so a slower network only loses more reports, which is already possible.

*Timers.* `TimerAlarm` is gateway and device in one module, as neither says anything without the
other. `status` and `fired` are the table's rows; `sent` is `timer_alarm_sent_id`; `at` and `held`
say where each of three tasks (`_run_timers`, the socket's loop, the session's own watch) is
suspended, and with which timer. `NotifyPending` is `notify_pending_timer` up to its first await,
and is part of every action that calls it. The stages of `stop()` are those a timer can tell
apart: `stopping` (sends and tasks, the cloud still there, whose reader may still execute a
tool call), `closed` (no cloud any more: a session may start), `ended` (`session.ended` sent).
`link` is `open` between the WebSocket's handshake and `auth`. A connection that drops takes both
directions and the device's control queue with it, in one step; the gateway's tasks of the old
connection are stopped where they are, and `ReadAuth` replaces the `DeviceSession`, as a restart
of the gateway would: the old session can still execute a tool call until then, and not after.
`SendControl(TRUE)` is a send that fails on its lock, which the code logs (and a comment at
`realtime_companion.cpp:159` explains). On the device, `WebSocketTask` is one handler at a time,
the stages of the main loop are actions of their own, `chime` is `wake_ack_pending_`, which the
wake chime and the alarm share. `PlayChime` is the whole of a chime; the minute of `AlarmTimeout`
is long enough for one, so it happens only after one has sounded, or when a voice session kept the
alarm from it. Volume zero, which silences an alarm (README.md:121), and mute are not in the model;
fewer than 16 timers are set.

*The session in the device.* An action is atomic unless another task can act on what it leaves
half done: the microphone's check (`MicCallback`) and its append (`AppendSample`), the sender's take
(`TakeFrame`) and its write (`SendFrame`, `SendFails`), `session.start` queued (`SendStart`) and
noted (`StartSent`). A frame carries the session of its oldest sample and whether the chime sounded
in any, which the code does not send but the properties need. `chime` is `wake_ack_*`, with the real
length of the recording: 17292 of its 22728 samples can be heard, the rest is a quiet tail; it is
handed over `ChimeStride` frames at a time, and `Dac` is the callback that counts it. Of time one
thing is assumed: `LinkOpens` waits for a frame's write, which is given up after one second, the
reconnection coming after two. A command is lost on a connection that stays when the control queue is
full (`SendJson`) or the sender's write fails (`SendControl`); only `SendStart`, `SendAuth` and
`ReadyDetected` look at the former, nothing at the latter. Two history variables affect no action:
`lost` has the kinds of the commands lost so (`MaxLosses` bounds how many at one time a failed write
may make it) until a connection, or for a report another one, makes up for them, and `hasty` has the
sessions that began before the microphone task had emptied its half-filled frame. Of the gateway, `SessionSystem` has what the device
can tell apart: `opening`, `orphan` (stopped while it opens), `on`, `waiting`, `switching`,
`closing`. `crossed` records that a start or a stop met one that was not settled (`press`), or a
switch of projects (`switch`); it is a history variable, and what holds only without it is said to.

*The session in the gateway.* `starter`, `stopper` and `switcher` say where `start()`, `stop()` and
`_switch_project()` are suspended and what their local variables hold; `loop` is the socket's loop,
`watchers` the `_watch_timeouts()` that run, `reader` the connections' reader tasks, `busy` while
one runs a stop or a switch. A connection and its database row are made together and share their
number. A task cancelled at an await is removed with the stop or switch it was in. `session.started`
is sent in `StartGreets`: it is two turns of the fair send lock later, and a stop needs more of them
before `session.ended`. Only the session's own connection is sent audio, so only its reader gets to
stop or switch. The one-second sleep of the watcher is the choice of when `WatcherStops` happens;
`lost` is a WebSocket on which sends raise. `crossed` records where two tasks met half way:
`connect` (a stop or a switch's successor took the connection that was being opened), `stop` (a start
within a stop), `switch` (a start, a stop or the device's end within a switch). Up to then
everything is proved; beyond, the last list of section 3 says what goes wrong.

*Microphone input.* A frame is its number, and `Silence` when the gateway sends a silent one in its
place; its power is its mean square, compared with squares of the thresholds, which is what the code
does with sums and `isqrt`. `receive_audio` has no await for a frame of the right length, so each of
its branches is one action: the gates meet the frame (`BargeMet`, `ListenMet`), then it is withheld,
silenced, put in a window or let through, with the window if it opens a gate (`PreRoll`), and
`Forward` puts what is left on the queue. The window, the incremental sum or count, and the flag of
each gate are its record. `SenderTakes` is `_input_sender` up to `append_audio()`, whose return or
failure is `SenderSent`; a failed one ends the task until the next frame. Playback is known by the
stream that is current, by whether it has been heard for the warm-up's second, and by whether it has
ended; a response by whether it has begun to sound. `interrupt()` is two actions, as it forgets the
output after its sends. `completing` is who stands between the end of a playback and the ready wait
it may begin: the socket's loop (a progress report, and no frame is received meanwhile) or the
watchdog. `phase` has the session between the awaits of `start()`, `stop()` and `_switch_project()`,
one of them at a time: how they cross is `SessionGateway`'s subject. `captured` and `passed` are history
variables, of no effect on any action; `sent` is the last frame the cloud was given.

*Start-up.* `XmosUpdater` counts the image in units of which a block has `BlockSize`, and time in
ticks that pass (`Elapse`) while the updater waits. `Due` is the comparison with `next_action_ms_`,
which `loop()` makes before it looks at the limit. The chip may be ready, busy, silent or run any
image; a write's acknowledgement may be lost whether or not it took the block; `SETALTERNATE` starts
the transfer anew, and the chip never boots part of an image. `AudioStartup` adds ESPHome's setup,
which waits for `can_proceed()`, the companion, the codec, whose volume and unmute are retried for
ever, and restarts of the ESP32 alone or of the board: a codec left unmuted stays so through the
former. `AllSent` (xmos_dfu.cpp:175) is left out, as the phase before never leaves an offset at the
end, and so is the manual `xmos_dfu.flash` action, which would skip the check of the stock version
(xmos_dfu.cpp:77) but is used by no configuration of the repository.

## 3. Runs

| run | module, cfg | what it shows | result |
|---|---|---|---|
| `playback_gateway` | `MCPlaybackGateway` | types; `WireInOrder`, `EndedMeansAllSent`, `NoMixedFrame`, `StateMatchesOutput`, `CancelledIsSilent` against any device | holds |
| `playback_capacity` | `PlaybackSystem`, `PlaybackCapacity.cfg` | types; `NoOverrun`: what the device has to play exceeds the lead by the speaker's share and a frame at most, and a queue with room for that drops nothing; `HeardInOrder` from socket to DAC, through supersession, mute and frames put back on the queue | holds |
| `playback_completion` | `PlaybackSystem`, `PlaybackCompletion.cfg` | `PlaybackEnds` under fairness | holds |
| `timer_alarm` | `TimerAlarm` | types; `AnnouncedRings`: what the gateway has announced is on its way, rings, or its dismissal is on its way back; `EveryAlarmEnds` under fairness | holds |
| `session_speech` | `SessionSystem`, `SessionSpeech.cfg` | types; `OldSpeechIsDropped`, `EchoStaysHome`, with every task stopped half way | holds |
| `session_commands` | `SessionSystem`, `SessionCommands.cfg` | `SessionIsAttended`, `ReadyOnce`, `VolumeAgrees`; `WakeIsHeard` under fairness | holds |
| `session_gateway` | `SessionGateway` | types; `SocketsAreHeld`, `HeldIsWatched`, `BooksAgree`, `DeviceIsTold`; `SessionsEnd` under fairness | holds |
| `audio_startup` | `AudioStartup` | types; `BlocksInOrder`, `UpdateBounded`, `AudioNeedsTarget`; that it implements `GuardedUpgrade`; `StartupDecides` under fairness | holds |
| `mic_gates` | `MicrophoneInput`, `MicGates.cfg` | types; `EchoStaysOut`, `SpeechIsWhole`, `WindowsAddUp` and `InputInOrder` with both gates, two playbacks, barge-in and a full queue | holds |
| `mic_session` | `MicrophoneInput`, `MicSession.cfg` | `WaitIsPrivate`, `GuardIsLifted`, `OwnSessionOnly` through a stop and a start, a switch, ready waits, and announcements and reconnections that fail | holds |
| `session_unattended` | `SessionSystem`, `SessionUnattended.cfg` | the button ends a session whose start is settled | violated |
| `mic_first_words` | `MicrophoneInput`, `MicFirstWords.cfg` | what is queued while the cloud connects is there when it has | violated |

### Bounds

Two responses are the smallest number at which one stream can supersede or follow another; every
hazard found is between a stream and the one before it. `playback_gateway` has a third stream, so
that a watchdog which awaits its flush for one stream completes the next while that one's response
still has audio, which a further stream then takes up. `MaxFrames` is two in `playback_gateway`, where every partial frame that is padded comes on top; in
`playback_completion` it is three, with a lead of one, so that the sender still waits with the second
frame of a stream when another supersedes it; and five in `playback_capacity`. In `playback_gateway` the queue holds three packets, so that it fills up and `put_nowait`
raises at each of the places that call it; in the system runs it is large enough not to, as its
overflow ends the reader for good. The wire is expanded there while it holds one message, as the
gateway never looks at it, and is unbounded (by the number of sends) in the system runs. In
`playback_capacity` there is no barge-in but a mute: what barge-in does in the gateway
`playback_gateway` has, and `HeardInOrder` is proved with it. `MaxTimeouts` is how often the
watchdog may fire, `MaxTurns` how often the user stops speaking, mutes, or the cloud reports an
error, `MaxMutes` how often the switch is closed: each changes one variable that nothing else counts.
`Lead` and `DeviceQueue` matter only in relation to each other: in `playback_capacity` the queue has
room for the lead, what the speaker holds and one frame more, the least for which `NoOverrun` is
true, and five frames make two streams that reach it; in `playback_completion` they are equal, which is what `max_device_playback_lead_ms` comes to for both
the legacy queue (200 ms, 10 frames) and the extended one (320 ms, `PLAYBACK_QUEUE_FRAMES`).

Timers: one timer, one voice session, one lost connection, and a control queue of two slots instead
of eight, so that it fills up; the two safety properties are proved for any number of each.
`MaxLosses` is zero: a failed send on a live connection breaks both safety and liveness, as the end of
this section says.

Device session: two sessions, so that one follows another, and one lost connection. A frame has two
callbacks, so that one may be half full; `session_speech` has four callbacks and a capture queue of
one frame, so that it fills up, and no other events; `session_commands` has no audio but one mute,
volume command, ready wait or switch. In `session_commands` the control queue has two slots, so that it
fills up; in `session_speech` it is long enough not to. In both a command of one kind may be lost by
a write that fails, until the next connection (or report) makes up for it. What a
lost command does is in the properties: each says which one excuses it, and the others must not.
`SocketSize` bounds only how many messages lie on the socket when a frame is added.

Gateway session: two cloud connections, so one can be replaced by, followed by or leaked beside
another; all safety properties are proved for any number. `SessionsEnd` was also checked once with
three. Start-up: an image of five units in blocks of two, so the last block is short; a limit of 18
ticks with delays of up to three, so that it strikes in every phase; two restarts.

Microphone: windows of two frames instead of 20 and 8, so that one may be full, lose its oldest frame
and open within three captured frames; a queue of two, so that a window let out behind a frame
overflows it. A frame is silent (0) or loud (3): one loud frame does not open the barge-in window
(of mean power 2) nor the listening window, two in a row do. `MaxStreams` of two lets one playback
supersede another in `mic_gates`. `MaxTurns` is how often speech is detected or a session starts, each
of which may reset the listening gate. `mic_session` has no quiet frames and no barge-in gate, but
every announcement, refused, silent or played, and two sessions with everything between them. In it
`unsung` records that an announcement was not played or a switch found no connection: `OwnSessionOnly`
is claimed up to then.

Deadlock is not checked: a finished conversation rests, and so does a device without timers.

### Fairness

Each asyncio task whose await can complete is resumed, the device's tasks and the stages of its
main loop run again and again, the DAC consumes what it is given, and the socket delivers: weak
fairness on each of those (`Fairness` in `PlaybackSystem`). Nothing is assumed of the cloud, the
user, the mute switch or of `speaker_->stop()` taking effect. The watchdog is fair, which its
one-second loop justifies, but it may fire only `MaxTimeouts` times, and `PlaybackEnds` excuses the
behaviours in which a stream sits waiting for one more. In `TimerAlarm` the scheduler polls, the
socket's loop reads, each task goes on when what it awaits is done, the client reconnects, and the
device's tasks and main-loop stages run; nothing is assumed of the user, of voice sessions, of
timers coming due, or of `start_task`.

In `SessionSystem` less is enough: as long as the main loop, the sender or the WebSocket task can
run, the client reconnect, or the gateway read or finish what it opens or closes, one of them does
(one weak fairness condition on their disjunction). Nothing is assumed of the user, the microphone,
or of the session ending, nor that a write succeeds. In `SessionGateway` every
await ends (a connect succeeds, fails or is cancelled by its time-out), a lost WebSocket is noticed by
the loop that reads it, and a session comes to its hard limit, which `_watch_timeouts` looks at
every second. In `AudioStartup` the main loop passes; the chip promises nothing, and `StartupDecides`
holds because the updater's own limits do. Volume and unmute are retried for ever, so it speaks of
the microphone only.

### What the violations show

1. *Unattended* (`session_unattended`). `_switch_project` sets `cloud` to None and awaits the old
   connection's close. A `session.stop` read there finds no connection and is ignored, without an
   answer; the device has left the session, the switch opens a new metered one, and it runs until
   its idle timeout (RealtimeVoiceAssitant.md:25, "Button or spoken stop ends the session").
2. *First words* (`mic_first_words`). While the cloud connects frames are queued, as README.md:65-67
   describes. When it has connected, `start()` sets the announcement's guard and empties the queue
   before the sender runs, if `announce_active_project` is set, which it is by default: the first words
   are kept for five seconds and then thrown away.

Further disagreements TLC found that are not kept as runs, each one change of a cfg away or seen in
a property's hypothesis:

* *A stuck alarm* (`DueTimerRings` in `TimerAlarm`, with `MaxTimers = 2` and `MaxLosses = 1`). The
  device clears `timer_dismiss_pending_id_` once the dismissal is on its control queue. If the send
  then times out (`realtime_companion.cpp:139` logs it), the row stays `ringing`: it is the oldest one
  and the one last sent, so `notify_pending_timer` returns, and no later timer of the device is
  announced until the connection is lost or the timer cancelled by voice (voice_commands.py:76).
* *A leak* (`OpenIsLimited` in `SessionGateway`). A stop while `connect()` is awaited takes the
  connection from `cloud` and closes it before it has a socket. The connection then opens, `start()`
  announces `session.started` for a session that has ended, and nobody holds the socket: its watcher
  leaves because `cloud` is None, and neither the hard limit nor a later stop reaches it
  (RealtimeVoiceAssitant.md:47).
* *A stale guard* (`FirstWordsUnguarded` in `MicrophoneInput`, `MicGates.cfg` with `MaxSessions = 3`). `stop()` resets
  the level gates but not `announcement_echo_guard`. A session that ends during a switch's
  announcement leaves it set, and the first words of the next one are withheld although nothing is
  announced (README.md:66).
* *A stale window* (`OwnSessionOnly` without `~unsung`). A switch empties the queue but not the
  listening gate's window. The announcement's playback resets it; if there is none, or the
  reconnection fails and a frame is received before the next `start()` runs, the old project's frames
  open the new one's first turn (README.md:90, "transcripts and durable project memory remain
  separated").
* *The ready wait cuts in* (`BargeInIsHeard`, with `ReadyKeyword`). The model asks for the ready wait
  in a response that also speaks; the user interrupts it. `interrupt()` forgets a pending end of the
  session, but not the ready wait, which the interrupted response's `response.done` then enters, as
  nothing is playing: the rest of the utterance is refused (session.py:747).
* *The wait is overheard* (`WaitStaysPrivate`, with `ReadyKeyword`). If a response plays during the
  ready wait, the frames captured over it fill the barge-in window although they are refused, and
  the first loud frame after the ready word lets them out with it (README.md:107, "Stops microphone
  upload").
* *The lead leaves no room.* `NoOverrun` needs a queue larger than the lead and what the speaker holds.
  The lead the gateway negotiates is the whole queue (`Lead = DeviceQueue`, as README.md:67-69 has
  it): frames of a superseded stream still in the speaker are counted as the new stream's, and the
  gateway sends more than the queue holds. `PlaybackCapacity.cfg` with `Lead = 2`, `DeviceQueue = 3`
  and `MaxFrames = 7` shows that one frame of room is not enough either. For the same reason a barge-in
  early in the new stream truncates it at a count that includes the old one's frames.
* *A stale count* (`NoOverrun` without `~stale`, `PlaybackCapacity.cfg` with `DeviceQueue = 2`).
  `playback.start` publishes the new stream's id under the mutex (realtime_companion.cpp:290-294) and
  resets the count of played frames after it (:295). A progress report of the main loop that falls in
  between says that the new stream has played all the old one had. The gateway then takes all it has
  sent of the new stream for played (session.py:720) and sends the lead once more.
* With `MaxMutes = 1` `PlaybackEnds` is violated: muting makes the device forget the stream and its
  reports stop, the gateway's sender waits for capacity, and the watchdog looks only at streams that
  have ended. The session stays SPEAKING with its microphone gated (README.md:61-62).
* Between the end of the session and `timer.alarm` the user may start the next session, in which the
  alarm does not chime and dismisses itself after a minute; and a timer cancelled while the session
  is being ended for it is announced all the same, with no stop to come (voice_commands.py:76, 107).
* A late `session.started` that meets the next wake word's chime opens the microphone during it
  (the comment at realtime_companion.h:167 says it never does): `EchoStaysHome` holds only while the
  user waits for one session to be settled. A start that arrives while an orphaned one is opening is
  answered `session.active`, which the device does not know, and lost; a start whose connect fails
  leaves the device in a session until the user stops it. `SessionIsAttended` and `WakeIsHeard` say
  `crossed` for that.
* *A command that is lost* (`SessionIsAttended` with `crossed = {}` for `Apart`, `VolumeAgrees` and
  `WakeIsHeard` without what they say of `lost`). A write that fails on a connection that stays is only
  logged (realtime_companion.cpp:137-143), and `stop_session()` and `report_volume()` do not look whether
  the queue took the message (:711, :828). A lost `session.stop` leaves a metered session running
  (RealtimeVoiceAssitant.md:25), a lost report another volume shown, a lost `session.start` the device in
  a session the gateway knows nothing of. A lost `auth` leaves the connection unauthenticated, and a
  lost `ready.detected` leaves `ready_signal_sent_` set, so the word is not sent again.
  After a lost stop the next wake word meets the old session, whose switch of projects sends
  `session.started` into the chime: `EchoStaysHome` fails without it (`SessionSpeech.cfg` with
  `MaxEvents = 1`). Of `ReadyOnce` TLC knows no such behaviour within the bounds, and only the proof
  needs that no stop was lost.
* *Half a frame* (`OldSpeechIsDropped` without `hasty`). `handle_microphone_data()` empties the
  half-filled frame when it finds capture disabled or just enabled (realtime_companion.cpp:352-367).
  `start_session()` (:667) does not. If `session.ended` and the button (or a `stop_session()` and a wake
  word) fall between two callbacks and the new session is streaming before the next, `capture_running_`
  still is true, and the first frame of the new session begins with up to 20 ms of the old one. A
  callback that is appending meanwhile does the same. It is one frame at most, which the property says.
* A start within another's `stop()` loses its watcher and its `session_id`; a start or a stop within
  a switch leaves a connection nobody holds; a failing start takes `cloud` from a stop that has not
  got to it yet, and `None.close()` then raises in the device's socket loop (session.py:1537), which
  ends the device's connection. The first two are `crossed`, the last is `StopRaises`, after
  which all the properties still hold.

## 4. Proofs

**Playback.** The first six theorems are about `GatewaySpec`, in which the device may report
anything at any time: they hold of the gateway with any device, in particular of `PlaybackSystem`'s.
They assume only that the bounds are natural numbers (`StreamsAssumption`, `BoundsAssumption`,
`QueueAssumption`), the last two also that the device's queues hold a frame (`DeviceAssumption`).

* `GatewayTypeCorrect`: `GatewaySpec => []GatewayTypeOK`. One lemma per action;
  `QueueAudioType` and `FinishType` say what a put on the bounded queue leaves. It includes that
  the queue never exceeds its maxsize.
* `WireAlwaysInOrder`: `GatewaySpec => []WireInOrder`. `WireInOrder` says nothing of what is about to
  be sent, so it is not inductive. `OrderInv` adds that nothing anywhere is of a stream newer than
  the newest, and for the current stream: its audio in the queue is ordered with the end marker
  last (`QueueOrdered`), the packet the sender waits with comes before all of it (`HeldOrdered`),
  what is on the wire before both (`WireOrdered`), all of it numbered within what was framed, and
  the reader queues nothing behind an end marker because the response's audio is done
  (`EndIsFinal`). Streams no longer current need nothing: whatever of theirs is in the queue is
  dropped when taken. `KeepOrder` covers the steps that touch none of this, `QueueGrows` the puts,
  `SendOrder` the sends.
* `EndedAlwaysSent`: `GatewaySpec => []EndedMeansAllSent`. The frames of the current stream are counted
  where they are: sent, in the sender's hands, on the queue (`Accounted`). The end marker is taken
  after all of them, as `OrderInv` has it last, and there is one frame at least (`Finished`), because
  a stream is opened by a delta that is not empty (`DeltaHeld`); what is true of a stream not opened
  yet is `Untouched`. Together they are `OutputInv`, which needs `OrderInv` beside it.
* `FramesNeverMixed`, `StateAlwaysMatches`: `NoMixedFrame` and `StateMatchesOutput` are inductive
  beside the types.
* `CancelledAlwaysSilent`: `CancelledIsSilent` is an action property: of a response that the user
  interrupted no frame is sent but while `interrupt()` still awaits its own sends. The invariant
  `CancelledIsLeaving` says that its stream is current only until then.
* `SystemTypeCorrect` and `HeardAlwaysInOrder`: `Spec => []TypeOK` and `Spec => []HeardInOrder` of
  `PlaybackSystem`. `SystemStep` takes `OrderInv` over from the gateway, of which the device only takes
  messages off the wire. `HeldInv` says that every frame the device holds lies behind what the
  gateway has still to send (`Behind`: in the sender's hands, on the queue, or not cut yet), which
  `WireBehind` derives for those on the wire. Whatever a step of the device does, put back, reset,
  stop, play or drop, it only takes frames out of the pipeline, and keeps the others in their order
  (`Thinned`, `DeviceThins`); only `ReceiveFrame` adds one, at its end.
* `NeverOverruns`: `Spec => []NoOverrun`, for every lead, queue and speaker. A count of played frames
  may include frames of the stream before, so `AheadInv` says how many: a count of a stream, wherever
  it is (`Counted`: on the device, in a report, in the gateway, or in that the gateway has sent the lead
  beyond it), exceeds what has been heard of the stream by no more than the speaker and the loop's
  hands could hold of older ones, less what they still hold (`Capped`). It stays so because frames only
  move up and older ones do not arrive any more (`StartInv`), and because a stream's frames carry
  numbers the gateway has sent (`NumbersOK`): what lies in the device beyond the bound would be
  numbered beyond it. The proof attempt found the two exceptions that the property now names, and TLC
  the behaviours that show them (section 3).

**Timers.** The constants are natural numbers and the control queue has a slot
(`TimerAssumption`); how many timers, voice sessions, lost connections and slots there are does not
matter.

* `TimerTypeCorrect`: `Spec => []TimerTypeOK`, which includes the bound on `control_queue_`.
* `AnnouncedAlwaysRings`: `Spec => []AnnouncedRings`, under `MaxLosses = 0`: no send of the device
  fails on a connection that stays. Section 3 says what such a failure does (`DueTimerRings`), so the hypothesis
  is not there for the prover. `AnnouncedRings` is about `sent`, which is set one await after the
  alarm went out, so the invariant `AnnouncedInv` follows every timer some task has sent or is
  sending (`Announced`). Its first half, `Bookkeeping`, shows that all tasks announce the same one:
  `stopping` is a lock, what a task picked under it is still the oldest ringing timer when it is
  sent, since timers that come due later are behind it, and an oldest one is unique
  (`OldestIsOne`). Its second half, `Delivery`, follows that timer: its alarm is the last alarm on
  the wire, or all of the wire is behind it and it rings or was dismissed, or its dismissal is on
  the way back (`Reaches`), and a `timer.stop` on the wire is of a closed timer, so the device may
  apply it whenever it arrives (`StopsAreClosed`). The gateway's steps are reduced to one shape,
  `Moves`, and `MovesDeliver` is proved of that; the device's steps keep `Reaches` one by one.

**The session in the gateway.** The one assumption is that the number of connections is a positive
natural number (`ConnectionsAssumption`).

* `LifecycleTypeCorrect`, `SocketsAlwaysHeld`, `SessionAlwaysWatched`, `BooksAlwaysAgree` and
  `DeviceAlwaysTold`: `Spec => []` of `LifecycleTypeOK`, `SocketsAreHeld`, `HeldIsWatched`,
  `BooksAgree` and `DeviceIsTold`. They say what must hold when nothing is under way, so the
  invariant `IInv` says it for every stage of a start, a stop and a switch: which of the three may
  run together and on which connection (`BusyOK`, `StartOK`, `StopOK`, `SwitchOK`), where `cloud` and
  its row are meanwhile (`CloudOK`, `RowsOK`), who closes which socket (`SocketsOK`), and what the
  watcher and the device have been told of (`WatchOK`, `ToldOK`). All of them but the first three
  parts (`TypesOK`, `TasksOK`, `UsedOK`) are claimed only while no task has met another half way
  (`Apart`). One lemma per task: `StartKeepsInv`, `StopKeepsInv`, `SwitchKeepsInv`, `RestKeepsInv`.

**Start-up.** Sizes, limits and delays are natural numbers, a block is not empty and the image is
not either.

* `StartupTypeCorrect`, `BlocksAlwaysInOrder`, `UpdateAlwaysBounded`, `AudioAlwaysNeedsTarget`: all
  safety properties of the run, for every image, block size, limit and number of restarts.
* `StartupImplementsGuard`: `Spec => Guard!Spec`, the refinement of `GuardedUpgrade` with the
  microphone or an unmuted codec for its `audio`: initial states map to initial states, and every
  step replaces the stock image without audio or is a stutter there.

**The session in the device.** The lengths of the queues, of a frame and of the chime's stride are
positive, everything else is a natural number (`DeviceAssumption`, `SystemAssumption`).

All theorems are of `Spec` without a condition; what excuses a property is said in it, in terms of
`crossed`, `lost` and `hasty`.

* `SessionTypeCorrect`: `Spec => []SessionTypeOK`.
* `OldSpeechAlwaysDropped`: `Spec => []OldSpeechIsDropped`. Half a frame left over is of an older
  session only if the present one is hasty, and then it can only be the first of what is captured
  (`CapturedInv`). Commands keep the order of the sessions they are of (`CommandsInv`). On the socket,
  behind the first frame that is too old for the session it would be sent into, nothing is as old any
  more, neither there nor in the sender's hands or the queues (`FramesInv`): the sender writes what
  it holds before it takes the next command, so it cannot hold an older frame across a `session.start`.
* `SessionAlwaysAttended`, `ReadyAlwaysOnce`, `EchoAlwaysStaysHome`: `Spec => []` of
  `SessionIsAttended`, `ReadyOnce` and `EchoStaysHome`. The invariant `Inv` says which commands and
  answers may be in flight together: a start, a stop and a ready word take turns with what the gateway
  has (`TurnInv`, `ReadyInv`), claimed while starts and stops are `Apart` and no stop was lost, and the
  connection and its authentication allow for no more (`LinkInv`, `AuthInv`), claimed always. `Apart`
  never becomes true again (`ApartStays`), so a step has to keep the first part only if it is there.
  The loss of anything but a stop only takes from what is in flight, which breaks none of it
  (`SentFlow`). Queues are spoken of by the kinds in them (`InFlight`, `Ahead`, `OnlyOne`, `Coming`), and
  every action is first reduced to what it does to those.
* `VolumeAlwaysAgrees`: `Spec => []VolumeAgrees`. `VolumeInv` says where the last report is, unless it
  was lost; a write that fails on an earlier one leaves it where it is (`VolumeMissed`).

**The microphone input.** Windows and limits are positive, powers natural numbers
(`MicrophoneAssumption`). All theorems are of `Spec` without a condition.

* `GuardAlwaysLifted`: `Control` excludes the phases of the session, of a response and of a playback
  from one another; beside it `GuardIsLifted` is inductive.
* `WindowsAlwaysAddUp`: `GatesOK` says that a window holds the frames of a kind that were captured
  last, and that the incremental sum or count is theirs. The power of a window is a fold over a set,
  of which no induction theorem of the library can be used; that it is weighed by a function at all,
  and that a member more weighs its power more, is shown by the least counterexample (`Least` and
  `Smallest`, from `WFMin`).
* `MicrophoneTypeCorrect`, `InputAlwaysInOrder`, `WaitAlwaysPrivate`: from `QueueOK`, which says that
  the queue holds the last of what was let through, in order, before all that a window holds. Each
  step either is `Quiet`, which at most resets a gate and takes from or empties the queue, or captures
  a frame, of which one of the outcomes in `Comes` is true.
* `OwnSessionAlways`: what is queued or held is for the session that is due (`SessionOK`), or is
  kept back by the guard until something empties it.
* `EchoAlwaysStaysOut`: of what has passed every frame came in or after a loud window of its own
  playback (`EchoOK`), which never becomes false of it.
* `SpeechAlwaysWhole`: while somebody speaks up and nothing else changes, all frames since he began are
  either out or in a window they do not fill (`SpeechOK`).

`OrderInv`, `OutputInv`, `AnnouncedInv`, `IInv`, the invariants of start-up, and those of the session
in the device and of the microphone, were checked by TLC before they were proved.

**Only model-checked.** Liveness (`PlaybackEnds`, `EveryAlarmEnds`, `WakeIsHeard`, `SessionsEnd`,
`StartupDecides`): under fairness it is out of the prover's reach. Every other property of the passing
runs is proved.

## 5. Not modelled, and the plan

The playback model leaves out: loss of the connection and `stop()` of the session in the middle of
playback, the wake chime, which shares the speaker, the ready wait and the spoken end that
`_complete_playback` may start, and audio diagnostics. The device's session leaves out the
resampler, the statistics, `state_`, which only the LED shows, the pause after a stop, and timers,
which `TimerAlarm` has; `session_start_pending_` outlives a stop in it as in the code. The gateway's
session leaves out search tasks and the senders a session starts and cancels. The microphone input
leaves out frames of the wrong length, which are refused, logging, the diagnostic recording, mute, the
spoken end of a session and a device that is lost (`close()`).

Still to come, in this order:

1. **Planner**: the plan read before and written after a call of a minute, beside edits in the
   browser.
2. **Theorems**: what the device's playback promises on its own, with any gateway.

The UI hub, the REST API, configuration and message validation, prompts, SQL, the status LED and the
wake-word models are data or single calls without a protocol of their own, and are left out for
good.

`TimerAlarm` leaves out the old session of a half-open connection once the new one has
authenticated, and a dismissal that meets another alarm id between two lines of
`process_timer_alarm`.
