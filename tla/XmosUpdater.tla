------------------------------ MODULE XmosUpdater ------------------------------
(***************************************************************************)
(* The updater of the XMOS chip's firmware (components/xmos_dfu), as       *)
(* shipped: auto_update, which reads the version, writes the image over    *)
(* I2C, reboots the chip and verifies it.  The chip is external: it may    *)
(* not answer, may report busy or an error with any delay, and may take a  *)
(* write whose acknowledgement is lost.                                    *)
(*                                                                         *)
(* Time is counted in passes of the main loop: a pass that finds work does *)
(* one step, one that does not only waits.                                 *)
(***************************************************************************)
EXTENDS Naturals, Sequences

CONSTANTS
  Source, Target, Other, Mute,  \* images: stock, ours, unknown, and one without DFU service
  ImageSize, BlockSize,         \* of the embedded image and of a DNLOAD, in bytes
  BootWait,                     \* 3 s, in passes
  RetryWait,                    \* 500 ms
  DiscoverLimit,                \* 15 s
  VerifyLimit,                  \* 20 s
  UpdateLimit,                  \* 10 min
  MaxDelay                      \* the longest delay the chip may ask for: 2^24 ms

ASSUME UpdaterAssumption ==
  /\ ImageSize \in Nat \ {0} /\ BlockSize \in Nat \ {0}
  /\ BootWait \in Nat /\ RetryWait \in Nat /\ DiscoverLimit \in Nat
  /\ VerifyLimit \in Nat /\ UpdateLimit \in Nat /\ MaxDelay \in Nat
  /\ BootWait <= MaxDelay /\ RetryWait <= MaxDelay
  /\ Source # Target /\ Other \notin {Source, Target} /\ Mute \notin {Source, Target, Other}

Images == {Source, Target, Other, Mute}
NoReply == Mute      \* the result of a version read that fails
Phases == {"IDLE", "DISCOVER", "SEND_BLOCK", "POLL_BLOCK", "SEND_FINAL", "POLL_FINAL",
           "REBOOT", "VERIFY", "COMPLETE", "ERROR"}
Sending == {"SEND_BLOCK", "POLL_BLOCK", "SEND_FINAL"}       \* blocks are still to come
Sent == {"POLL_FINAL", "REBOOT"}                            \* the whole image was written

VARIABLES
  phase,      \* phase_
  offset,     \* offset_
  wait,       \* next_action_ms_, as passes from now
  age,        \* time since started_ms_
  verifyAge,  \* time since verify_started_ms_, counted while it is of use
  image,      \* the chip: the image it runs
  up,         \* the chip: whether it has booted
  received,   \* the chip: the bytes written since SETALTERNATE, by their place in the image
  final       \* the chip: whether the empty block that ends the transfer was taken

esp == <<phase, offset, wait, age, verifyAge>>
xmos == <<image, up, received, final>>
updater == <<esp, xmos>>

UpdaterInit ==
  /\ phase = "IDLE" /\ offset = 0 /\ wait = 0 /\ age = 0 /\ verifyAge = 0
  /\ image \in Images /\ up \in BOOLEAN /\ received = <<>> /\ final = FALSE

Updating == phase \notin {"IDLE", "COMPLETE", "ERROR"}
\* Mutant of CanProceed: an update that has ended lets the setup proceed, however it ended.
CanProceedOpen == phase \in {"COMPLETE", "ERROR"}

CanProceed == phase = "COMPLETE"

\* A read of the version: the chip's answer, or none.
Reads(v) == v = NoReply \/ (up /\ v = image)

\* A write: whether the chip took it, and whether it was acknowledged.
Write(taken, ok) == (ok => taken) /\ (taken => up)

SetupUpdater ==
  /\ phase = "IDLE"
  /\ phase' = "DISCOVER" /\ wait' = BootWait /\ age' = 0
  /\ UNCHANGED <<offset, verifyAge, xmos>>

\* The time of a pass that does not restart a clock.
Elapse == age' = age + 1 /\ verifyAge' = IF phase = "VERIFY" THEN verifyAge + 1 ELSE 0

\* A pass before the next action is due.
Idle ==
  /\ Updating /\ wait > 0
  /\ wait' = wait - 1 /\ Elapse
  /\ UNCHANGED <<phase, offset, xmos>>

Due(p) == phase = p /\ wait = 0

TimedOut ==
  /\ Updating /\ wait = 0 /\ age > UpdateLimit
  /\ phase' = "ERROR"
  /\ Elapse /\ UNCHANGED <<offset, wait, xmos>>

\* Mutant of Pass: the ten-minute limit does not keep a pass from doing its step.
PassUnlimited(p) == Due(p)

Pass(p) == Due(p) /\ age <= UpdateLimit

Fail == phase' = "ERROR" /\ UNCHANGED <<offset, wait>>

\* Nothing but the wait changes, and the phase is tried again.
Again(w) == wait' = w /\ UNCHANGED <<phase, offset>>

Goto(p, w) == phase' = p /\ wait' = w /\ UNCHANGED offset

NotFound ==
  /\ Pass("DISCOVER") /\ Reads(NoReply)
  /\ IF age > DiscoverLimit THEN Fail ELSE Again(RetryWait)
  /\ Elapse /\ UNCHANGED xmos

\* Our image runs already, or an unknown one, which is not touched.
FoundOther ==
  /\ Pass("DISCOVER")
  /\ \E v \in {Target, Other} :
       /\ Reads(v)
       /\ IF v = Target THEN Goto("COMPLETE", wait) ELSE Fail
  /\ Elapse /\ UNCHANGED xmos

\* Mutant of StartUpdate: any image that answers is upgraded.
StartUpdateAny(v, taken, ok) ==
  /\ Pass("DISCOVER") /\ up /\ image # Target
  /\ Reads(v) /\ Write(taken, ok)
  /\ IF ok THEN offset' = 0 /\ age' = 0 /\ wait' = 0 /\ UNCHANGED verifyAge /\ phase' = "SEND_BLOCK"
           ELSE Fail /\ Elapse
  /\ IF taken THEN received' = <<>> /\ final' = FALSE ELSE UNCHANGED <<received, final>>
  /\ UNCHANGED <<image, up>>

\* The stock image: start_update(), which asks for the version once more
\* and selects the upgrade partition.
StartUpdate(v, taken, ok) ==
  /\ Pass("DISCOVER") /\ Reads(Source) /\ Source # NoReply
  /\ Reads(v) /\ Write(taken, ok)
  /\ v = NoReply => ~taken
  /\ IF v = NoReply
       THEN Fail /\ Elapse
       ELSE /\ offset' = 0 /\ age' = 0 /\ wait' = 0 /\ UNCHANGED verifyAge
            /\ phase' = IF ok THEN "SEND_BLOCK" ELSE "ERROR"
  /\ IF taken THEN received' = <<>> /\ final' = FALSE ELSE UNCHANGED <<received, final>>
  /\ UNCHANGED <<image, up>>

\* seeed_ready_(): the status and the delay asked for, or no answer, which
\* leaves the wait alone.
NotReady(w) == w = wait \/ (up /\ w \in 0 .. MaxDelay)
Ready(w) == up /\ w \in 0 .. MaxDelay

\* Line 175, which leaves SEND_BLOCK when nothing is left to send, has no
\* action: POLL_BLOCK has left for SEND_FINAL by then (BlocksInOrder).
BlockNotReady ==
  /\ Pass("SEND_BLOCK") /\ offset < ImageSize
  /\ Again(0)                  \* 5 ms: the next pass
  /\ Elapse /\ UNCHANGED xmos

\* Mutant of Count: the last block is as long as the others.
CountFull == BlockSize

Count == IF BlockSize < ImageSize - offset THEN BlockSize ELSE ImageSize - offset
Block == [i \in 1 .. Count |-> offset + i]

\* Mutant of SendBlock: a write that fails is tried again.
SendBlockRetries(taken, ok) ==
  /\ Pass("SEND_BLOCK") /\ offset < ImageSize /\ up
  /\ Write(taken, ok)
  /\ IF ok THEN phase' = "POLL_BLOCK" /\ offset' = offset + Count /\ wait' = 0
           ELSE Again(0)
  /\ received' = IF taken THEN received \o Block ELSE received
  /\ Elapse /\ UNCHANGED <<image, up, final>>

SendBlock(taken, ok) ==
  /\ Pass("SEND_BLOCK") /\ offset < ImageSize /\ up
  /\ Write(taken, ok)
  /\ IF ok THEN phase' = "POLL_BLOCK" /\ offset' = offset + Count /\ wait' = 0
           ELSE Fail
  /\ received' = IF taken THEN received \o Block ELSE received
  /\ Elapse /\ UNCHANGED <<image, up, final>>

\* Mutant of BlockDone: a chip that is busy restarts the clock of the limit.
BlockDoneRestartsClock ==
  /\ Pass("POLL_BLOCK")
  /\ \E w \in 0 .. MaxDelay :
       \/ (Ready(w) /\ Goto(IF offset < ImageSize THEN "SEND_BLOCK" ELSE "SEND_FINAL", w))
       \/ (NotReady(w) /\ Again(w))
  /\ age' = 0 /\ UNCHANGED <<verifyAge, xmos>>

BlockDone ==
  /\ Pass("POLL_BLOCK")
  /\ \E w \in 0 .. MaxDelay :
       \/ (Ready(w) /\ Goto(IF offset < ImageSize THEN "SEND_BLOCK" ELSE "SEND_FINAL", w))
       \/ (NotReady(w) /\ Again(w))
  /\ Elapse /\ UNCHANGED xmos

\* send_final_(): a DNLOAD of no bytes.
EndTransfer(taken) == final' = (taken \/ final)

SendFinal(taken, ok) ==
  /\ Pass("SEND_FINAL")
  /\ Write(taken, ok)
  /\ IF ok THEN Goto("POLL_FINAL", 0) ELSE Fail
  /\ EndTransfer(taken)
  /\ Elapse /\ UNCHANGED <<image, up, received>>

FinalDone ==
  /\ Pass("POLL_FINAL")
  /\ \E w \in 0 .. MaxDelay :
       \/ (Ready(w) /\ Goto("REBOOT", w))
       \/ (NotReady(w) /\ Again(w))
  /\ Elapse /\ UNCHANGED xmos

\* The chip restarts: what it runs then depends on whether the transfer
\* was whole.  Even a whole image may be refused by its boot loader, or be
\* another one than the version says; a part of one is never started.
Whole == final /\ received = [i \in 1 .. ImageSize |-> i]
Boots ==
  /\ image' \in IF Whole THEN Images ELSE {image}
  /\ up' = FALSE /\ received' = <<>> /\ final' = FALSE

Reboot(taken, ok) ==
  /\ Pass("REBOOT")
  /\ Write(taken, ok)
  /\ IF taken THEN Boots ELSE UNCHANGED xmos
  /\ IF ok THEN Goto("VERIFY", BootWait) ELSE Fail
  /\ Elapse

NotVerified ==
  /\ Pass("VERIFY")
  /\ \E v \in Images \ {Target} :
       /\ Reads(v)
       /\ IF v # NoReply \/ verifyAge > VerifyLimit THEN Fail ELSE Again(RetryWait)
  /\ Elapse /\ UNCHANGED xmos

\* The restart of the ESP32: everything but the chip begins again.
Restarts == phase' = "IDLE" /\ offset' = 0 /\ wait' = 0 /\ age' = 0 /\ verifyAge' = 0

\* COMPLETE, and App.reboot(), which does not return.
Verified ==
  /\ Pass("VERIFY") /\ Reads(Target)
  /\ Restarts /\ UNCHANGED xmos

UpdaterStep ==
  \/ SetupUpdater \/ Idle \/ TimedOut \/ NotFound \/ FoundOther
  \/ BlockNotReady \/ BlockDone \/ FinalDone \/ NotVerified
  \/ \E taken, ok \in BOOLEAN :
       \/ \E v \in {Source, NoReply} : StartUpdate(v, taken, ok)
       \/ SendBlock(taken, ok) \/ SendFinal(taken, ok) \/ Reboot(taken, ok)

XmosBoots ==
  /\ ~up /\ up' = TRUE
  /\ UNCHANGED <<esp, image, received, final>>

-------------------------------------------------------------------------------

UpdaterTypeOK ==
  /\ phase \in Phases /\ offset \in 0 .. ImageSize
  /\ wait \in 0 .. MaxDelay /\ age \in Nat /\ verifyAge \in Nat
  /\ image \in Images /\ up \in BOOLEAN
  /\ received \in Seq(1 .. ImageSize) /\ final \in BOOLEAN

\* What the chip holds of the image is what the updater counts as written:
\* no block is lost, doubled or out of place whatever the acknowledgements
\* (send_block_ advances offset_ only on an acknowledged write, and a
\* write that fails may have arrived), there is a block to send in SEND_BLOCK,
\* and REBOOT is reached with all of the image.
BlocksInOrder ==
  /\ phase \in Sending \cup Sent => received = [i \in 1 .. offset |-> i]
  /\ phase \in Sending => ~final
  /\ phase = "SEND_BLOCK" => offset < ImageSize
  /\ phase \in Sent => Whole

\* The ten-minute limit bounds an update, by no more than the one delay the
\* chip asked for last: the check comes after that of next_action_ms_.
UpdateBounded == Updating => age <= UpdateLimit + MaxDelay + 1

===============================================================================
