---------------------------- MODULE MicrophoneInput ----------------------------
(***************************************************************************)
(* The microphone's way through the gateway (DeviceSession.receive_audio): *)
(* the echo guards, the level gates with their windows, the bounded queue  *)
(* and the task that forwards it to the cloud, beside the cloud's events,  *)
(* the playback they start and the session's start, switch and stop.       *)
(*                                                                         *)
(* A frame is the number it was captured under, and Silence once the       *)
(* gateway has blanked it.  A frame's power is its mean square, and so are *)
(* the thresholds: the code compares squares or their integer roots.       *)
(* How tasks that change the session cross is SessionGateway's subject;    *)
(* here one such change is done before the next begins.                    *)
(***************************************************************************)
EXTENDS Naturals, Sequences, FiniteSets, SequencesExt, FiniteSetsExt

CONSTANTS
  QueueLimit,       \* MAX_QUEUED_INPUT_FRAMES
  BargeWindow,      \* BARGE_IN_LEVEL_WINDOW_FRAMES
  BargePower,       \* barge_in_rms_threshold, squared; 0 disables the gate
  ListenWindow,     \* LISTENING_LEVEL_WINDOW_FRAMES
  ListenMin,        \* LISTENING_LEVEL_MIN_ACTIVE_FRAMES
  ListenRelease,    \* LISTENING_LEVEL_RELEASE_FRAMES
  ListenPower,      \* listening_rms_threshold, squared; 0 disables the gate
  Powers,           \* bound: the power a frame may have
  BargeIns,         \* the values barge_in_enabled may take
  Announce,         \* announce_active_project
  ReadyKeyword,     \* the device has the ready word, and the cloud its tool
  MaxFrames,        \* bound: frames captured
  MaxStreams,       \* bound: playback streams
  MaxTurns,         \* bound: what resets the listening gate
  MaxSessions       \* bound: cloud sessions, by starts and by switches

ASSUME MicrophoneAssumption ==
  /\ {QueueLimit, BargeWindow, ListenWindow, ListenRelease} \subseteq Nat \ {0}
  /\ {BargePower, ListenPower, MaxFrames, MaxStreams, MaxTurns, MaxSessions} \subseteq Nat
  /\ Powers \subseteq Nat /\ ListenMin \in 1 .. ListenWindow
  /\ {Announce, ReadyKeyword} \subseteq BOOLEAN
  /\ BargeIns \subseteq BOOLEAN

Silence == 0
NoStream == 0

VARIABLES
  captured,   \* history: every frame received, with its power, how it was met, and when
  passed,     \* history: the frames put on the queue as they were
  unsung,     \* history: an announcement was not played, or a switch found no connection
  queue,      \* input_queue
  sender,     \* input_task: "none", "waiting", "sending"
  sent,       \* history: the last frame append_audio() was called with as it was
  barge,      \* barge_gate_stream_id, _frames, _square_sum, _open
  listen,     \* listening_gate_frames, _active_frames, _open, _quiet_frames
  guard,      \* announcement_echo_guard
  tail,       \* the clock has not reached echo_gate_until
  bargeIn,    \* settings.barge_in_enabled
  accepting,  \* accepting_audio
  ready,      \* cloud_ready
  waitAsked,  \* ready_wait_requested
  waiting,    \* waiting_for_ready
  output,     \* self.output: its stream, whether the warm-up has been played, whether it has ended
  phase,      \* the session: start(), stop() and _switch_project(), between their awaits
  reader,     \* the cloud reader: "idle", "interrupting", "finishing" (before the ready wait)
  completing, \* who is between _complete_playback() and the ready wait it may begin
  response,   \* the cloud's response: "none", "asked", "speaking", "cancelled"
  vad,        \* the cloud's speech: "none", "speech", "bargein", "warmup" (warmup_vad_items)
  session, streams, turn  \* how many of each there were

vars == <<captured, passed, unsung, queue, sender, sent, barge, listen, guard, tail, bargeIn,
          accepting, ready, waitAsked, waiting, output, phase, reader, completing, response, vad,
          session, streams, turn>>

history == <<captured, passed, unsung>>
sends == <<queue, sender, sent>>
gates == <<barge, listen>>
guards == <<guard, tail, bargeIn>>
waits == <<accepting, waitAsked, waiting>>
counts == <<session, streams, turn>>
tasks == <<phase, reader, completing>>
cloud == <<response, vad>>

Frames == 1 .. MaxFrames
Kinds == {"withheld", "refused", "playing", "listening"}
Phases == {"off", "asked", "connecting", "greeting", "on", "clearing", "reconnecting", "stopping"}
Completers == {"loop", "watcher"}

NoOutput == [stream |-> NoStream, warm |-> FALSE, ended |-> FALSE]
BargeReset == [stream |-> NoStream, window |-> <<>>, sum |-> 0, open |-> FALSE]
ListenReset == [window |-> <<>>, active |-> 0, open |-> FALSE, quiet |-> 0]

Playing == output.stream # NoStream

\* What is captured before the cloud is connected is for the session that will be.
Moment == [session |-> IF phase \in {"asked", "connecting"} THEN session + 1 ELSE session,
           stream |-> streams, turn |-> turn]

\* What the history knows of a frame that no window and no queue will hold.
Withheld == [power |-> 0, at |-> [session |-> 0, stream |-> NoStream, turn |-> 0], kind |-> "withheld"]

Power(f) == captured[f].power
Loud(f) == Power(f) >= ListenPower
TotalPower(fs) == MapThenSumSet(Power, fs)
OnTheWay == ({sent} \cup Range(queue)) \ {Silence}

Init ==
  /\ captured = <<>> /\ passed = {} /\ unsung = FALSE
  /\ queue = <<>> /\ sender = "none" /\ sent = Silence
  /\ barge = BargeReset /\ listen = ListenReset
  /\ guard = FALSE /\ tail = FALSE /\ bargeIn = FALSE
  /\ accepting = FALSE /\ ready = FALSE /\ waitAsked = FALSE /\ waiting = FALSE
  /\ output = NoOutput /\ phase = "off" /\ reader = "idle" /\ completing = {}
  /\ response = "none" /\ vad = "none"
  /\ session = 0 /\ streams = 0 /\ turn = 0

-----------------------------------------------------------------------------
(* receive_audio                                                             *)

\* Mutant of BargeMet: the gate of one stream is taken for the next.
BargeAsItWas == barge

\* What the gates are once the frame's arrival has shown what is playing.
BargeMet == IF barge.stream = output.stream THEN barge
            ELSE [BargeReset EXCEPT !.stream = output.stream]
ListenMet == IF Playing THEN ListenReset ELSE listen

Warming == bargeIn /\ Playing /\ ~output.warm
FullyGuarded == guard \/ tail \/ (~bargeIn /\ Playing)

\* The windows, with the frame that arrives at their end.
Slide(window, limit, f) == Append(IF Len(window) = limit THEN Tail(window) ELSE window, f)
Leaving(window, limit) == IF Len(window) = limit THEN {Head(window)} ELSE {}

\* Mutant of BargeNext: a frame that leaves the window stays in the sum.
BargeNextGrows(f, p) ==
  [BargeMet EXCEPT !.window = Slide(@, BargeWindow, f), !.sum = @ + p]

BargeNext(f, p) ==
  [BargeMet EXCEPT !.window = Slide(@, BargeWindow, f),
                   !.sum = @ + p - TotalPower(Leaving(BargeMet.window, BargeWindow))]
BargeQualifies(gate) ==
  Len(gate.window) = BargeWindow /\ gate.sum >= BargePower * BargeWindow

ListenNext(f, p) ==
  [listen EXCEPT !.window = Slide(@, ListenWindow, f),
                 !.active = @ + (IF p >= ListenPower THEN 1 ELSE 0)
                              - Cardinality({g \in Leaving(listen.window, ListenWindow) : Loud(g)})]
ListenQualifies(gate) == Len(gate.window) = ListenWindow /\ gate.active >= ListenMin
QuietNext(p) == IF p >= ListenPower THEN 0 ELSE listen.quiet + 1

\* A gate that opens lets its whole window out, and starts anew.
\* Mutant of PreRoll: the frames before the one that opens it are lost.
OnlyItsLast(window) == <<Last(window)>>
PreRoll(window) == window

BargeOpened(gate) == [gate EXCEPT !.window = <<>>, !.sum = 0, !.open = TRUE]

ListenOpened(gate) == [gate EXCEPT !.window = <<>>, !.active = 0, !.open = TRUE, !.quiet = 0]

\* Mutants of Newest: the queue has no bound; a full one refuses what is new.
AllOf(fs, n) == fs
Oldest(fs, n) == SubSeq(fs, 1, IF Len(fs) > n THEN n ELSE Len(fs))

Newest(fs, n) == SubSeq(fs, IF Len(fs) > n THEN Len(fs) - n + 1 ELSE 1, Len(fs))

\* The end of receive_audio: what is left of the frame is put on the queue, which makes room
\* by dropping its oldest, unless the session takes no audio.
Forward(fs) ==
  /\ IF accepting
     THEN /\ queue' = Newest(queue \o fs, QueueLimit)
          /\ passed' = passed \cup (Range(fs) \ {Silence})
          /\ sender' = IF ready /\ sender = "none" THEN "waiting" ELSE sender
     ELSE UNCHANGED <<queue, passed, sender>>
  /\ UNCHANGED sent

Arrive(p, kind) ==
  /\ Len(captured) < MaxFrames /\ "loop" \notin completing
  /\ captured' = Append(captured,
       IF kind = "withheld" \/ (~accepting /\ ~Playing) THEN Withheld
       ELSE [power |-> p, at |-> Moment, kind |-> IF accepting THEN kind ELSE "refused"])
  /\ UNCHANGED <<unsung, guards, waits, ready, output, tasks, cloud, counts>>

Arrived == Len(captured) + 1

ReceiveGuarded(p) ==
  /\ FullyGuarded /\ Arrive(p, "withheld")
  /\ barge' = BargeMet /\ listen' = ListenMet
  /\ UNCHANGED <<passed, sends>>

ReceiveWarming(p) ==
  /\ ~FullyGuarded /\ Warming /\ Arrive(p, "withheld")
  /\ barge' = BargeMet /\ listen' = ListenReset /\ Forward(<<Silence>>)

\* _check_barge_in_level: the window goes out whole once it is loud enough.
ReceiveEcho(p) ==
  /\ ~FullyGuarded /\ ~Warming /\ Playing /\ BargePower > 0 /\ ~BargeMet.open
  /\ ~BargeQualifies(BargeNext(Arrived, p)) /\ Arrive(p, "playing")
  /\ barge' = BargeNext(Arrived, p) /\ listen' = ListenReset /\ Forward(<<Silence>>)

ReceiveBargeIn(p) ==
  /\ ~FullyGuarded /\ ~Warming /\ Playing /\ BargePower > 0 /\ ~BargeMet.open
  /\ BargeQualifies(BargeNext(Arrived, p)) /\ Arrive(p, "playing")
  /\ barge' = BargeOpened(BargeNext(Arrived, p))
  /\ listen' = ListenReset /\ Forward(PreRoll(BargeNext(Arrived, p).window))

ReceiveOverPlayback(p) ==
  /\ ~FullyGuarded /\ ~Warming /\ Playing /\ (BargePower = 0 \/ BargeMet.open)
  /\ Arrive(p, "playing")
  /\ barge' = BargeMet /\ listen' = ListenReset /\ Forward(<<Arrived>>)

ReceiveUngated(p) ==
  /\ ~FullyGuarded /\ ~Playing /\ (~accepting \/ ListenPower = 0) /\ Arrive(p, "listening")
  /\ barge' = BargeMet /\ Forward(<<Arrived>>) /\ UNCHANGED listen

\* _check_listening_level: closed, enough loud frames open it; open, enough quiet ones close it.
ReceiveListening(p) ==
  /\ ~FullyGuarded /\ ~Playing /\ accepting /\ ListenPower > 0 /\ Arrive(p, "listening")
  /\ barge' = BargeMet
  /\ \/ /\ ~listen.open /\ ~ListenQualifies(ListenNext(Arrived, p))
        /\ listen' = ListenNext(Arrived, p) /\ Forward(<<Silence>>)
     \/ /\ ~listen.open /\ ListenQualifies(ListenNext(Arrived, p))
        /\ listen' = ListenOpened(ListenNext(Arrived, p))
        /\ Forward(PreRoll(ListenNext(Arrived, p).window))
     \/ /\ listen.open /\ QuietNext(p) < ListenRelease
        /\ listen' = [listen EXCEPT !.quiet = QuietNext(p)] /\ Forward(<<Arrived>>)
     \/ /\ listen.open /\ QuietNext(p) >= ListenRelease
        /\ listen' = ListenReset /\ Forward(<<Silence>>)

Receive(p) ==
  \/ ReceiveGuarded(p) \/ ReceiveWarming(p) \/ ReceiveEcho(p) \/ ReceiveBargeIn(p)
  \/ ReceiveOverPlayback(p) \/ ReceiveUngated(p) \/ ReceiveListening(p)

TailEnds ==
  /\ tail /\ tail' = FALSE
  /\ UNCHANGED <<history, sends, gates, guard, bargeIn, ready, waits, output, tasks, cloud,
                 counts>>

-----------------------------------------------------------------------------
(* _input_sender                                                             *)

SenderTakes ==
  /\ sender = "waiting" /\ queue # <<>>
  /\ queue' = Tail(queue)
  /\ sender' = IF ready THEN "sending" ELSE "waiting"
  /\ sent' = IF ready /\ Head(queue) # Silence THEN Head(queue) ELSE sent
  /\ UNCHANGED <<history, gates, guards, ready, waits, output, tasks, cloud, counts>>

\* append_audio returns, or raises and takes the task with it until the next frame.
SenderSent ==
  /\ sender = "sending"
  /\ sender' \in {"waiting", "none"}
  /\ UNCHANGED <<history, queue, sent, gates, guards, ready, waits, output, tasks, cloud, counts>>

\* _stop_input_sender: the task is cancelled where it is, then the queue emptied.
StopInputSender == sender' = "none" /\ queue' = <<>> /\ UNCHANGED sent

StartInputSender == sender' = IF sender = "none" THEN "waiting" ELSE sender

-----------------------------------------------------------------------------
(* What is played: _audio_delta, playback_progress, _complete_playback, and  *)
(* the ready wait that playback holds back                                   *)

\* Mutant of GatesReset: the listening gate is forgotten.
BargeResetOnly == barge' = BargeReset /\ UNCHANGED listen

\* _reset_barge_in_level_gate and _reset_listening_level_gate
GatesReset == barge' = BargeReset /\ listen' = ListenReset

ReaderFree == phase = "on" /\ reader = "idle"

\* The cloud begins a response: to speech, to a tool's result, or because it was asked to.
CloudResponds ==
  /\ phase = "on" /\ response = "none" /\ response' = "asked"
  /\ UNCHANGED <<history, sends, gates, guards, ready, waits, output, tasks, vad, counts>>

AudioStarts ==
  /\ ReaderFree /\ response = "asked" /\ streams < MaxStreams
  /\ response' = "speaking" /\ streams' = streams + 1
  /\ output' = [stream |-> streams + 1, warm |-> FALSE, ended |-> FALSE]
  /\ UNCHANGED <<history, sends, gates, guards, ready, waits, tasks, vad, session, turn>>

AudioDone ==
  /\ ReaderFree /\ response = "speaking" /\ Playing /\ ~output.ended
  /\ output' = [output EXCEPT !.ended = TRUE]
  /\ UNCHANGED <<history, sends, gates, guards, ready, waits, tasks, cloud, counts>>

\* A response with nothing to play lifts the announcement's guard.
\* Mutant: only a playback does.
GuardStays == guard
GuardAfterResponse == guard /\ Playing

ResponseDone ==
  /\ ReaderFree /\ response # "none"
  /\ response' = "none"
  /\ output' = IF Playing THEN [output EXCEPT !.ended = TRUE] ELSE output
  /\ guard' = GuardAfterResponse
  /\ tail' = (tail \/ (guard /\ ~Playing))
  /\ reader' = IF waitAsked /\ ~Playing THEN "finishing" ELSE "idle"
  /\ unsung' = (unsung \/ (guard /\ ~Playing))
  /\ UNCHANGED <<captured, passed, sends, gates, bargeIn, ready, waits, phase, completing, vad,
                 counts>>

WarmUpPlayed ==
  /\ Playing /\ ~output.warm
  /\ output' = [output EXCEPT !.warm = TRUE]
  /\ UNCHANGED <<history, sends, gates, guards, ready, waits, tasks, cloud, counts>>

\* The device has played it all, or the watchdog gives up on it.  The await before the ready
\* wait is a step of its own where there is one to begin: a call that asks for one in between
\* finds nothing playing and begins it itself.
CompletePlayback(who) ==
  /\ Playing /\ output.ended /\ who \notin completing
  /\ output' = NoOutput /\ GatesReset
  /\ guard' = FALSE /\ tail' = (tail \/ guard \/ ~bargeIn)
  /\ completing' = IF waitAsked THEN completing \cup {who} ELSE completing
  /\ UNCHANGED <<history, sends, bargeIn, ready, waits, phase, reader, cloud, counts>>

\* Mutant of EnterReadyWait: what is queued goes on to the cloud.
EnterReadyWaitTalking(asked) ==
  IF asked /\ ~waiting /\ ~Playing
  THEN waitAsked' = FALSE /\ waiting' = TRUE /\ accepting' = FALSE /\ UNCHANGED queue
  ELSE waitAsked' = asked /\ UNCHANGED <<waiting, accepting, queue>>

\* _enter_ready_wait_if_possible
EnterReadyWait(asked) ==
  IF asked /\ ~waiting /\ ~Playing
  THEN waitAsked' = FALSE /\ waiting' = TRUE /\ accepting' = FALSE /\ queue' = <<>>
  ELSE waitAsked' = asked /\ UNCHANGED <<waiting, accepting, queue>>

AfterCompletion(who) ==
  /\ who \in completing /\ completing' = completing \ {who}
  /\ EnterReadyWait(waitAsked)
  /\ UNCHANGED <<history, sender, sent, gates, guards, ready, output, phase, reader, cloud,
                 counts>>

AfterResponse ==
  /\ reader = "finishing" /\ reader' = "idle"
  /\ EnterReadyWait(waitAsked)
  /\ UNCHANGED <<history, sender, sent, gates, guards, ready, output, phase, completing, cloud,
                 counts>>

Playback ==
  \/ CloudResponds \/ AudioStarts \/ AudioDone \/ ResponseDone \/ WarmUpPlayed \/ AfterResponse
  \/ \E who \in Completers : CompletePlayback(who) \/ AfterCompletion(who)

-----------------------------------------------------------------------------
(* Tool calls and the ready word                                             *)

ToolCall == ReaderFree /\ response \in {"asked", "speaking"}

VoiceWaitForReady ==
  /\ ToolCall /\ ReadyKeyword /\ EnterReadyWait(TRUE)
  /\ UNCHANGED <<history, sender, sent, gates, guards, ready, output, tasks, cloud, counts>>

ReadyDetected ==
  /\ waiting /\ "loop" \notin completing
  /\ waiting' = FALSE /\ waitAsked' = FALSE /\ accepting' = TRUE
  /\ UNCHANGED <<history, sends, gates, guards, ready, output, tasks, cloud, counts>>

VoiceSetBargeIn(enabled) ==
  /\ ToolCall /\ bargeIn' = enabled /\ barge' = BargeReset
  /\ UNCHANGED <<history, sends, listen, guard, tail, ready, waits, output, tasks, cloud, counts>>

Tools == VoiceWaitForReady \/ ReadyDetected \/ \E b \in BargeIns : VoiceSetBargeIn(b)

-----------------------------------------------------------------------------
(* The cloud's voice detection, and interrupt()                              *)

\* What the announcement's guard, the warm-up or the setting keeps from interrupting.
SpeechIgnored ==
  /\ ReaderFree /\ vad = "none" /\ turn < MaxTurns
  /\ guard \/ (Playing /\ ~bargeIn) \/ Warming \/ ~Playing
  /\ vad' = IF Warming /\ ~guard THEN "warmup" ELSE "speech"
  /\ UNCHANGED <<history, sends, gates, guards, ready, waits, output, tasks, response, counts>>

SpeechInterrupts ==
  /\ ReaderFree /\ vad = "none" /\ turn < MaxTurns
  /\ ~guard /\ Playing /\ bargeIn /\ ~Warming
  /\ vad' = "bargein" /\ reader' = "interrupting"
  /\ response' = IF response = "speaking" THEN "cancelled" ELSE response
  /\ UNCHANGED <<history, sends, gates, guards, ready, waits, output, phase, completing, counts>>

\* The flush and the truncation have been sent: the output is forgotten, whatever it is by now.
Interrupted ==
  /\ reader = "interrupting" /\ reader' = "idle"
  /\ output' = NoOutput /\ barge' = BargeReset /\ listen' = ListenOpened(ListenReset)
  /\ turn' = turn + 1
  /\ UNCHANGED <<history, sends, guards, ready, waits, phase, completing, cloud, session, streams>>

SpeechStopped ==
  /\ ReaderFree /\ vad # "none" /\ vad' = "none"
  /\ IF vad = "warmup" THEN UNCHANGED <<listen, turn>>
     ELSE listen' = ListenReset /\ turn' = turn + 1
  /\ UNCHANGED <<history, sends, barge, guards, ready, waits, output, tasks, response, session,
                 streams>>

Voice == SpeechIgnored \/ SpeechInterrupts \/ Interrupted \/ SpeechStopped

-----------------------------------------------------------------------------
(* The session                                                               *)

RequestStart ==
  /\ phase = "off" /\ phase' = "asked" /\ session < MaxSessions /\ turn < MaxTurns
  /\ "loop" \notin completing
  /\ accepting' = TRUE /\ queue' = <<>>
  /\ UNCHANGED <<history, sender, sent, gates, guards, ready, waitAsked, waiting, output, reader,
                 completing, cloud, counts>>

\* The start task runs: start() up to connect(), with the settings as they are now.
StartBegins ==
  /\ phase = "asked" /\ phase' = "connecting"
  /\ accepting' = TRUE /\ bargeIn' \in BargeIns /\ vad' = "none"
  /\ GatesReset /\ turn' = turn + 1
  /\ UNCHANGED <<history, sends, guard, tail, ready, waitAsked, waiting, output, reader,
                 completing, response, session, streams>>

Connected ==
  /\ phase = "connecting" /\ phase' = IF Announce THEN "greeting" ELSE "on"
  /\ guard' = Announce /\ queue' = IF Announce THEN <<>> ELSE queue
  /\ ready' = TRUE /\ StartInputSender /\ session' = session + 1
  /\ UNCHANGED <<history, sent, gates, tail, bargeIn, waits, output, reader, completing, cloud,
                 streams, turn>>

ConnectFails ==
  /\ phase = "connecting" /\ phase' = "off"
  /\ accepting' = FALSE /\ ready' = FALSE /\ queue' = <<>>
  /\ UNCHANGED <<history, sender, sent, gates, guards, waitAsked, waiting, output, reader,
                 completing, cloud, counts>>

\* _announce_project: the request may raise, which lifts the guard.
AnnounceProject ==
  /\ phase = "greeting" /\ phase' = "on"
  /\ queue' = <<>>
  /\ \/ guard' = TRUE /\ response' = "asked" /\ UNCHANGED unsung
     \/ guard' = FALSE /\ unsung' = TRUE /\ UNCHANGED response
  /\ UNCHANGED <<captured, passed, sender, sent, gates, tail, bargeIn, ready, waits, output, reader,
                 completing, vad, counts>>

\* _switch_project up to its first await, then with everything of the old session let go.
SwitchBegins ==
  /\ ToolCall /\ session < MaxSessions /\ phase' = "clearing"
  /\ accepting' = FALSE /\ ready' = FALSE /\ waitAsked' = FALSE /\ waiting' = FALSE
  /\ vad' = "none"
  /\ UNCHANGED <<history, sends, gates, guards, output, reader, completing, response, counts>>

SwitchCleared ==
  /\ phase = "clearing" /\ phase' = "reconnecting"
  /\ StopInputSender /\ output' = NoOutput /\ response' = "none"
  /\ UNCHANGED <<history, gates, guards, ready, waits, reader, completing, vad, counts>>

Reconnected ==
  /\ phase = "reconnecting" /\ phase' = "greeting" /\ session' = session + 1
  /\ guard' = TRUE /\ queue' = <<>> /\ accepting' = TRUE /\ ready' = TRUE /\ StartInputSender
  /\ UNCHANGED <<history, sent, gates, tail, bargeIn, waitAsked, waiting, output, reader,
                 completing, cloud, streams, turn>>

ReconnectFails ==
  /\ phase = "reconnecting" /\ phase' = "off" /\ unsung' = TRUE
  /\ UNCHANGED <<captured, passed, sends, gates, guards, ready, waits, output, reader, completing, cloud,
                 counts>>

StopBegins ==
  /\ phase = "on" /\ phase' = "stopping"
  /\ accepting' = FALSE /\ ready' = FALSE /\ waitAsked' = FALSE /\ waiting' = FALSE
  /\ vad' = "none" /\ GatesReset
  /\ UNCHANGED <<history, sends, guards, output, reader, completing, response, counts>>

\* Its sender and its output are let go, and the connection takes the reader with it.
StopEnds ==
  /\ phase = "stopping" /\ phase' = "off"
  /\ StopInputSender /\ output' = NoOutput /\ response' = "none" /\ reader' = "idle"
  /\ UNCHANGED <<history, gates, guards, ready, waits, completing, vad, counts>>

Session ==
  \/ RequestStart \/ StartBegins \/ Connected \/ ConnectFails \/ AnnounceProject \/ SwitchBegins
  \/ SwitchCleared \/ Reconnected \/ ReconnectFails \/ StopBegins \/ StopEnds

Sender == SenderTakes \/ SenderSent

Next == (\E p \in Powers : Receive(p)) \/ TailEnds \/ Sender \/ Playback \/ Tools \/ Voice \/ Session

Spec == Init /\ [][Next]_vars

-----------------------------------------------------------------------------
(* Properties                                                                *)

MicrophoneTypeOK ==
  /\ Len(captured) <= MaxFrames
  /\ \A f \in DOMAIN captured : Power(f) \in Powers \cup {0} /\ captured[f].kind \in Kinds
  /\ passed \subseteq DOMAIN captured /\ sent \in passed \cup {Silence}
  /\ queue \in Seq(passed \cup {Silence}) /\ Len(queue) <= QueueLimit
  /\ sender \in {"none", "waiting", "sending"}
  /\ barge.stream \in 0 .. MaxStreams /\ Range(barge.window) \subseteq DOMAIN captured
  /\ barge.open \in BOOLEAN /\ Len(barge.window) <= BargeWindow
  /\ listen.open \in BOOLEAN /\ listen.quiet \in 0 .. ListenRelease
  /\ Range(listen.window) \subseteq DOMAIN captured /\ Len(listen.window) <= ListenWindow
  /\ {unsung, guard, tail, bargeIn, accepting, ready, waitAsked, waiting} \subseteq BOOLEAN
  /\ output.stream \in {NoStream, streams} /\ {output.warm, output.ended} \subseteq BOOLEAN
  /\ phase \in Phases /\ reader \in {"idle", "interrupting", "finishing"}
  /\ completing \subseteq Completers
  /\ response \in {"none", "asked", "speaking", "cancelled"}
  /\ vad \in {"none", "speech", "bargein", "warmup"}
  /\ session \in 0 .. MaxSessions /\ streams \in 0 .. MaxStreams
  /\ turn \in 0 .. MaxTurns + 1

\* The count a window keeps as frames come and go is the count of the frames in it: one that
\* is not taken off again with its frame would open the gate on silence, or keep it shut.
WindowsAddUp ==
  /\ barge.sum = TotalPower(Range(barge.window))
  /\ listen.active = Cardinality({f \in Range(listen.window) : Loud(f)})

\* The cloud hears what was said in the order it was said, and nothing twice: frames come to it
\* one by one, or by the window when a gate opens, and a gate may be closed and opened again
\* while they wait.  What the full queue gives up, in the middle of a window if need be, is its
\* oldest: of all that was let through, it holds the last ("Preserve the most recent speech").
InputInOrder ==
  /\ \A window \in {barge.window, listen.window} :
       LET way == <<sent>> \o queue \o window
       IN \A i, j \in DOMAIN way : i < j /\ way[j] # Silence => way[i] < way[j]
  /\ \A f \in passed, g \in Range(queue) \ {Silence} : g < f => f \in Range(queue)

\* The assistant's own voice stays home: of what is captured over a playback, nothing leaves
\* in the warm-up, under a guard, or before a whole window of that playback was loud enough,
\* whatever was playing, open or switched on before.
EchoStaysOut ==
  \A f \in OnTheWay :
    /\ captured[f].kind # "withheld"
    /\ (captured[f].kind \in {"playing", "refused"} /\ BargePower > 0) =>
         \E g \in 1 .. f :
           LET window == {h \in DOMAIN captured : h \in g .. g + BargeWindow - 1}
           IN /\ \A h \in window : /\ captured[h].kind \in {"playing", "refused"}
                                   /\ captured[h].at.stream = captured[f].at.stream
              /\ Cardinality(window) = BargeWindow
              /\ TotalPower(window) >= BargePower * BargeWindow

\* Who goes on speaking up for a window's length is heard from the first frame on, also the
\* frames before the gate opened, as long as nothing resets the gate meanwhile.
SpeechIsWhole ==
  \A f, g \in DOMAIN captured :
    (/\ g >= f + ListenWindow - 1
     /\ \A h \in f .. g : /\ captured[h].kind = "listening" /\ Loud(h)
                          /\ captured[h].at = captured[f].at)
    => f .. g \subseteq passed

\* A session's conversation gets only what was captured in it: a switch resets no gate, and
\* leaves it to its announcement's playback to empty the old session's window.
OwnSessionOnly ==
  [][(sent' # sent /\ ~unsung) => captured[sent'].at.session = session]_vars

\* While the ready word is awaited nothing is queued for the cloud (README.md, "normal
\* microphone audio is not sent to OpenAI").
WaitIsPrivate ==
  waiting => Range(queue) \subseteq {Silence} /\ ~accepting

\* The announcement's guard makes the session deaf, so it ends with the announcement: with its
\* playback, or with its response when nothing is played.
GuardIsLifted ==
  (phase = "on" /\ guard) => response # "none" \/ Playing

-----------------------------------------------------------------------------
(* What the code does not keep of its own documents and comments            *)

\* README.md, "This preserves speech immediately after the wake word": what was let into the
\* queue while the cloud connects is there when it has.
FirstWordsKept ==
  [][(phase = "connecting" /\ ready') => Range(queue) \subseteq Range(queue')]_vars

\* The same sentence: nothing guards the microphone of a session that has yet to connect.
FirstWordsUnguarded ==
  phase \in {"asked", "connecting"} => ~guard

\* interrupt(), "do not hide the remainder of the same utterance": who has interrupted the
\* assistant is listened to until the cloud says the speech is over.
BargeInIsHeard ==
  [][(vad = "bargein" /\ vad' = "bargein" /\ accepting) => accepting']_vars

\* README.md, "Stops microphone upload": what is captured while the ready word is awaited is
\* not sent afterwards either.
WaitStaysPrivate ==
  \A f \in OnTheWay : captured[f].kind # "refused"
=============================================================================
