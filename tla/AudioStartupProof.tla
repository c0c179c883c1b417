--------------------------- MODULE AudioStartupProof ---------------------------
(***************************************************************************)
(* Proofs about AudioStartup: its types, the order of the blocks, the      *)
(* bound on an update, audio only on the right image, and the refinement   *)
(* of GuardedUpgrade.  TransferInv, what the chip holds in each phase, is  *)
(* what they rest on: it ties the transfer to the stock image.             *)
(***************************************************************************)
EXTENDS AudioStartup, TLAPS

\* What has been written in each phase, and that only the stock image is
\* ever written over.
TransferInv ==
  /\ BlocksInOrder
  /\ phase \in Sending \cup Sent => image = Source
  /\ phase = "SEND_FINAL" => offset = ImageSize
  /\ received # <<>> \/ final => image = Source
  /\ CanProceed => image = Target

\* UpdateBounded, with the wait that is left.
TimeInv ==
  /\ phase = "IDLE" => age = 0
  /\ Updating => age + wait <= UpdateLimit + MaxDelay + 1

StartupInv == StartupTypeOK /\ TransferInv /\ TimeInv /\ AudioNeedsTarget

USE DEF StartupInv

\* The first bytes of the image, and the next ones behind them.
LEMMA PrefixGrows ==
  ASSUME NEW m \in Nat, NEW n \in Nat
  PROVE  [i \in 1 .. m |-> i] \o [i \in 1 .. n |-> m + i] = [i \in 1 .. m + n |-> i]
<1> DEFINE a == [i \in 1 .. m |-> i]
           b == [i \in 1 .. n |-> m + i]
<1>1. a \in Seq(Nat) /\ Len(a) = m /\ b \in Seq(Nat) /\ Len(b) = n
  OBVIOUS
<1>2. a \o b = [i \in 1 .. m + n |-> IF i <= m THEN a[i] ELSE b[i - m]]
  BY <1>1
<1>3. \A i \in 1 .. m + n : (IF i <= m THEN a[i] ELSE b[i - m]) = i
  OBVIOUS
<1> QED  BY <1>2, <1>3

LEMMA PrefixType ==
  ASSUME NEW m \in Nat, NEW n \in Nat, m <= n
  PROVE  [i \in 1 .. m |-> i] \in Seq(1 .. n)
OBVIOUS

LEMMA InitHolds == Init => StartupInv
<1> SUFFICES ASSUME Init PROVE StartupInv
  OBVIOUS
<1> USE UpdaterAssumption, StartupAssumption DEF Init, UpdaterInit
<1>0. <<>> \in Seq(1 .. ImageSize)
  OBVIOUS
<1>1. UpdaterTypeOK
  <2>1. phase \in Phases /\ offset \in 0 .. ImageSize /\ wait \in 0 .. MaxDelay /\ age \in Nat
        /\ verifyAge \in Nat /\ image \in Images
    BY DEF Phases
  <2>2. up \in BOOLEAN /\ final \in BOOLEAN
    OBVIOUS
  <2> QED  BY <1>0, <2>1, <2>2 DEF UpdaterTypeOK
<1>1a. StartupTypeOK
  <2>1. restarts \in 0 .. MaxRestarts
    OBVIOUS
  <2> QED  BY <1>1, <2>1, Zenon DEF StartupTypeOK
<1>2. TransferInv /\ AudioNeedsTarget
  BY DEF TransferInv, BlocksInOrder, Sending, Sent, CanProceed, AudioNeedsTarget
<1>3. TimeInv
  BY DEF TimeInv, Updating
<1> QED  BY <1>1a, <1>2, <1>3

\* Steps that write nothing: the chip is as it was, and the phase moves on
\* only where the transfer has reached.
QuietStep ==
  SetupUpdater \/ Idle \/ TimedOut \/ NotFound \/ FoundOther
  \/ BlockNotReady \/ BlockDone \/ FinalDone \/ NotVerified

LEMMA QuietKeepsInv ==
  ASSUME StartupInv, QuietStep, UNCHANGED <<restarts, audioVars>>
  PROVE  StartupInv'
<1> USE UpdaterAssumption, StartupAssumption
<1>0. UNCHANGED <<offset, xmos, restarts, audioVars>>
  BY DEF QuietStep, SetupUpdater, Idle, TimedOut, NotFound, FoundOther, BlockNotReady,
         BlockDone, FinalDone, NotVerified, Fail, Again, Goto
<1> USE <1>0 DEF xmos, audioVars
<1>1. phase' \in Phases /\ wait' \in 0 .. MaxDelay /\ age' \in Nat /\ verifyAge' \in Nat
  <2>1. CASE SetupUpdater
    BY <2>1 DEF StartupTypeOK, UpdaterTypeOK, Phases, SetupUpdater
  <2>2. CASE Idle
    BY <2>2 DEF StartupTypeOK, UpdaterTypeOK, Phases, Idle, Elapse
  <2>3. CASE TimedOut
    BY <2>3 DEF StartupTypeOK, UpdaterTypeOK, Phases, TimedOut, Elapse
  <2>4. CASE NotFound
    BY <2>4 DEF StartupTypeOK, UpdaterTypeOK, Phases, NotFound, Pass, Due, Elapse, Fail, Again
  <2>5. CASE FoundOther
    BY <2>5 DEF StartupTypeOK, UpdaterTypeOK, Phases, FoundOther, Pass, Due, Elapse, Fail, Goto, Reads, NoReply
  <2>6. CASE BlockNotReady
    BY <2>6 DEF StartupTypeOK, UpdaterTypeOK, Phases, BlockNotReady, Pass, Due, Elapse, Again
  <2>7. CASE BlockDone
    BY <2>7 DEF StartupTypeOK, UpdaterTypeOK, Phases, BlockDone, Pass, Due, Elapse, Goto, Again, Ready, NotReady
  <2>8. CASE FinalDone
    BY <2>8 DEF StartupTypeOK, UpdaterTypeOK, Phases, FinalDone, Pass, Due, Elapse, Goto, Again, Ready, NotReady
  <2>9. CASE NotVerified
    BY <2>9 DEF StartupTypeOK, UpdaterTypeOK, Phases, NotVerified, Pass, Due, Elapse, Fail, Again, Reads
  <2> QED  BY <2>1, <2>2, <2>3, <2>4, <2>5, <2>6, <2>7, <2>8, <2>9 DEF QuietStep
<1>2. StartupTypeOK'
  BY <1>1 DEF StartupTypeOK, UpdaterTypeOK
<1>3. TransferInv'
  <2>1. CASE SetupUpdater
    BY <2>1 DEF StartupTypeOK, UpdaterTypeOK, TransferInv, BlocksInOrder, Whole, Sending, Sent, CanProceed, SetupUpdater, Updating
  <2>2. CASE Idle
    BY <2>2 DEF StartupTypeOK, UpdaterTypeOK, TransferInv, BlocksInOrder, Whole, Sending, Sent, CanProceed, Idle, Elapse
  <2>3. CASE TimedOut
    BY <2>3 DEF StartupTypeOK, UpdaterTypeOK, TransferInv, BlocksInOrder, Whole, Sending, Sent, CanProceed, TimedOut, Elapse
  <2>4. CASE NotFound
    BY <2>4 DEF StartupTypeOK, UpdaterTypeOK, TransferInv, BlocksInOrder, Whole, Sending, Sent, CanProceed, NotFound, Pass, Due, Elapse, Fail, Again
  <2>5. CASE FoundOther
    BY <2>5 DEF StartupTypeOK, UpdaterTypeOK, TransferInv, BlocksInOrder, Whole, Sending, Sent, CanProceed, FoundOther, Pass, Due, Elapse, Fail, Goto, Reads, NoReply
  <2>6. CASE BlockNotReady
    BY <2>6 DEF StartupTypeOK, UpdaterTypeOK, TransferInv, BlocksInOrder, Whole, Sending, Sent, CanProceed, BlockNotReady, Pass, Due, Elapse, Again
  <2>7. CASE BlockDone
    BY <2>7 DEF StartupTypeOK, UpdaterTypeOK, TransferInv, BlocksInOrder, Whole, Sending, Sent, CanProceed, BlockDone, Pass, Due, Elapse, Goto, Again, Ready, NotReady
  <2>8. CASE FinalDone
    BY <2>8 DEF StartupTypeOK, UpdaterTypeOK, TransferInv, BlocksInOrder, Whole, Sending, Sent, CanProceed, FinalDone, Pass, Due, Elapse, Goto, Again, Ready, NotReady
  <2>9. CASE NotVerified
    BY <2>9 DEF StartupTypeOK, UpdaterTypeOK, TransferInv, BlocksInOrder, Whole, Sending, Sent, CanProceed, NotVerified, Pass, Due, Elapse, Fail, Again, Reads
  <2> QED  BY <2>1, <2>2, <2>3, <2>4, <2>5, <2>6, <2>7, <2>8, <2>9 DEF QuietStep
<1>4. TimeInv'
  <2>1. CASE SetupUpdater
    BY <2>1 DEF StartupTypeOK, UpdaterTypeOK, TimeInv, Updating, SetupUpdater
  <2>2. CASE Idle
    BY <2>2 DEF StartupTypeOK, UpdaterTypeOK, TimeInv, Updating, Idle, Elapse
  <2>3. CASE TimedOut
    BY <2>3 DEF StartupTypeOK, UpdaterTypeOK, TimeInv, Updating, TimedOut, Elapse
  <2>4. CASE NotFound
    BY <2>4 DEF StartupTypeOK, UpdaterTypeOK, TimeInv, Updating, NotFound, Pass, Due, Elapse, Fail, Again
  <2>5. CASE FoundOther
    BY <2>5 DEF StartupTypeOK, UpdaterTypeOK, TimeInv, Updating, FoundOther, Pass, Due, Elapse, Fail, Goto, Reads, NoReply
  <2>6. CASE BlockNotReady
    BY <2>6 DEF StartupTypeOK, UpdaterTypeOK, TimeInv, Updating, BlockNotReady, Pass, Due, Elapse, Again
  <2>7. CASE BlockDone
    BY <2>7 DEF StartupTypeOK, UpdaterTypeOK, TimeInv, Updating, BlockDone, Pass, Due, Elapse, Goto, Again, Ready, NotReady
  <2>8. CASE FinalDone
    BY <2>8 DEF StartupTypeOK, UpdaterTypeOK, TimeInv, Updating, FinalDone, Pass, Due, Elapse, Goto, Again, Ready, NotReady
  <2>9. CASE NotVerified
    BY <2>9 DEF StartupTypeOK, UpdaterTypeOK, TimeInv, Updating, NotVerified, Pass, Due, Elapse, Fail, Again, Reads
  <2> QED  BY <2>1, <2>2, <2>3, <2>4, <2>5, <2>6, <2>7, <2>8, <2>9 DEF QuietStep
<1>5. AudioNeedsTarget'
  <2>1. ~CanProceed
    BY DEF QuietStep, SetupUpdater, Idle, TimedOut, NotFound, FoundOther, BlockNotReady,
           BlockDone, FinalDone, NotVerified, Pass, Due, Updating, CanProceed
  <2> QED  BY <2>1 DEF AudioNeedsTarget
<1> QED  BY <1>2, <1>3, <1>4, <1>5

LEMMA StartUpdateKeepsInv ==
  ASSUME StartupInv, NEW v \in {Source, NoReply}, NEW taken \in BOOLEAN, NEW ok \in BOOLEAN,
         StartUpdate(v, taken, ok), UNCHANGED <<restarts, audioVars>>
  PROVE  StartupInv'
<1> USE UpdaterAssumption DEF StartUpdate, audioVars
<1>1. phase = "DISCOVER" /\ phase' \in {"SEND_BLOCK", "ERROR"} /\ wait = 0 /\ wait' = 0
      /\ image = Source /\ UNCHANGED <<image, up>>
  BY DEF Pass, Due, Reads, Fail, NoReply
<1>2. phase' = "SEND_BLOCK" => received' = <<>> /\ ~final' /\ offset' = 0
  BY DEF Fail, Write, NoReply
<1>3. offset' \in 0 .. ImageSize /\ age' \in Nat /\ verifyAge' \in Nat
  BY DEF Fail, Elapse, StartupTypeOK, UpdaterTypeOK
<1>4. received' \in Seq(1 .. ImageSize)
  <2>1. received' = <<>> \/ received' = received
    OBVIOUS
  <2>2. <<>> \in Seq(1 .. ImageSize)
    OBVIOUS
  <2> QED  BY <2>1, <2>2 DEF StartupTypeOK, UpdaterTypeOK
<1>5. final' \in BOOLEAN
  BY DEF StartupTypeOK, UpdaterTypeOK
<1>6. StartupTypeOK'
  BY <1>1, <1>3, <1>4, <1>5 DEF StartupTypeOK, UpdaterTypeOK, Phases
<1>7. phase' = "SEND_BLOCK" => received' = [i \in 1 .. offset' |-> i]
  <2>1. [i \in 1 .. 0 |-> i] = <<>>
    OBVIOUS
  <2> QED  BY <1>2, <2>1
<1>8. TransferInv'
  BY <1>1, <1>2, <1>7 DEF TransferInv, BlocksInOrder, Sending, Sent, CanProceed
<1>9. phase' = "SEND_BLOCK" => age' = 0
  BY DEF Fail
<1>10. TimeInv'
  BY <1>1, <1>9 DEF TimeInv, Updating
<1>11. AudioNeedsTarget'
  BY <1>1 DEF AudioNeedsTarget, CanProceed
<1> QED  BY <1>6, <1>8, <1>10, <1>11

LEMMA SendBlockKeepsInv ==
  ASSUME StartupInv, NEW taken \in BOOLEAN, NEW ok \in BOOLEAN,
         SendBlock(taken, ok), UNCHANGED <<restarts, audioVars>>
  PROVE  StartupInv'
<1> USE UpdaterAssumption DEF SendBlock, audioVars
<1>1. /\ phase = "SEND_BLOCK" /\ phase' \in {"POLL_BLOCK", "ERROR"} /\ wait = 0 /\ wait' = 0
      /\ age <= UpdateLimit /\ age' = age + 1 /\ verifyAge' \in Nat
      /\ UNCHANGED <<image, up, final>> /\ image = Source /\ ~final
  BY DEF Pass, Due, Fail, Elapse, StartupTypeOK, UpdaterTypeOK, TransferInv, BlocksInOrder, Sending
<1>2. received = [i \in 1 .. offset |-> i] /\ offset \in Nat /\ offset < ImageSize
  BY <1>1 DEF TransferInv, BlocksInOrder, Sending, StartupTypeOK, UpdaterTypeOK
<1>3. Count \in Nat /\ offset + Count \in 0 .. ImageSize
  BY <1>2 DEF Count
<1>4. received \o Block = [i \in 1 .. offset + Count |-> i]
  BY <1>2, <1>3, PrefixGrows DEF Block
<1>5. received' \in Seq(1 .. ImageSize)
  <2>1. [i \in 1 .. offset + Count |-> i] \in Seq(1 .. ImageSize)
    BY <1>3, PrefixType
  <2> QED  BY <1>4, <2>1 DEF StartupTypeOK, UpdaterTypeOK
<1>6. offset' \in 0 .. ImageSize /\ age' \in Nat
  BY <1>1, <1>2, <1>3 DEF Fail, StartupTypeOK, UpdaterTypeOK
<1>7. StartupTypeOK'
  BY <1>1, <1>5, <1>6 DEF StartupTypeOK, UpdaterTypeOK, Phases
<1>8. phase' = "POLL_BLOCK" => received' = [i \in 1 .. offset' |-> i]
  BY <1>4 DEF Fail, Write
<1>9. TransferInv'
  BY <1>1, <1>8 DEF TransferInv, BlocksInOrder, Sending, Sent, CanProceed
<1>10. TimeInv'
  BY <1>1 DEF TimeInv, Updating, StartupTypeOK, UpdaterTypeOK
<1>11. AudioNeedsTarget'
  BY <1>1 DEF AudioNeedsTarget, CanProceed
<1> QED  BY <1>7, <1>9, <1>10, <1>11

LEMMA SendFinalKeepsInv ==
  ASSUME StartupInv, NEW taken \in BOOLEAN, NEW ok \in BOOLEAN,
         SendFinal(taken, ok), UNCHANGED <<restarts, audioVars>>
  PROVE  StartupInv'
<1> USE UpdaterAssumption DEF SendFinal, EndTransfer, audioVars
<1>1. /\ phase = "SEND_FINAL" /\ phase' \in {"POLL_FINAL", "ERROR"} /\ wait = 0 /\ wait' = 0
      /\ age <= UpdateLimit /\ age' = age + 1 /\ verifyAge' \in Nat
      /\ UNCHANGED <<offset, image, up, received>>
  BY DEF Pass, Due, Fail, Goto, Elapse, StartupTypeOK, UpdaterTypeOK
<1>2. image = Source /\ offset = ImageSize /\ received = [i \in 1 .. offset |-> i]
  BY <1>1 DEF TransferInv, BlocksInOrder, Sending
<1>3. phase' = "POLL_FINAL" => final'
  BY DEF Fail, Write
<1>4. final' \in BOOLEAN
  BY DEF StartupTypeOK, UpdaterTypeOK
<1>5. StartupTypeOK'
  BY <1>1, <1>4 DEF StartupTypeOK, UpdaterTypeOK, Phases
<1>6. TransferInv'
  BY <1>1, <1>2, <1>3 DEF TransferInv, BlocksInOrder, Whole, Sending, Sent, CanProceed
<1>7. TimeInv'
  BY <1>1 DEF TimeInv, Updating, StartupTypeOK, UpdaterTypeOK
<1>8. AudioNeedsTarget'
  BY <1>1 DEF AudioNeedsTarget, CanProceed
<1> QED  BY <1>5, <1>6, <1>7, <1>8

LEMMA BootsTypes ==
  ASSUME StartupInv, Boots
  PROVE  image' \in Images /\ ~up' /\ up' \in BOOLEAN /\ received' = <<>> /\ final' = FALSE
         /\ received' \in Seq(1 .. ImageSize) /\ (image # Source => image' = image)
<1>1. image' \in Images
  BY DEF Boots, StartupTypeOK, UpdaterTypeOK
<1>2. Whole => image = Source
  BY DEF Whole, TransferInv
<1>3. image # Source => image' = image
  BY <1>2 DEF Boots
<1>4. <<>> \in Seq(1 .. ImageSize)
  OBVIOUS
<1> QED  BY <1>1, <1>3, <1>4 DEF Boots

LEMMA RebootKeepsInv ==
  ASSUME StartupInv, NEW taken \in BOOLEAN, NEW ok \in BOOLEAN,
         Reboot(taken, ok), UNCHANGED <<restarts, audioVars>>
  PROVE  StartupInv'
<1> USE UpdaterAssumption DEF Reboot, audioVars
<1>1. /\ phase = "REBOOT" /\ phase' \in {"VERIFY", "ERROR"} /\ wait' \in {0, BootWait}
      /\ age <= UpdateLimit /\ age' = age + 1 /\ verifyAge' \in Nat /\ UNCHANGED offset
  BY DEF Pass, Due, Fail, Goto, Elapse, StartupTypeOK, UpdaterTypeOK
<1>2. image = Source
  BY <1>1 DEF TransferInv, Sent
<1>3. image' \in Images /\ up' \in BOOLEAN /\ final' \in BOOLEAN /\ received' \in Seq(1 .. ImageSize)
  <2>1. CASE taken
    BY <2>1, BootsTypes
  <2>2. CASE ~taken
    BY <2>2 DEF xmos, StartupTypeOK, UpdaterTypeOK
  <2> QED  BY <2>1, <2>2
<1>4. received' # <<>> \/ final' => image' = Source
  <2>1. CASE taken
    BY <2>1, BootsTypes
  <2>2. CASE ~taken
    BY <2>2, <1>2 DEF xmos
  <2> QED  BY <2>1, <2>2
<1>5. wait' \in 0 .. MaxDelay
  BY <1>1
<1>6. StartupTypeOK'
  BY <1>1, <1>3, <1>5 DEF StartupTypeOK, UpdaterTypeOK, Phases
<1>7. TransferInv'
  BY <1>1, <1>4 DEF TransferInv, BlocksInOrder, Sending, Sent, CanProceed
<1>8. TimeInv'
  <2>1. age' + wait' <= UpdateLimit + MaxDelay + 1
    <3>1. \A a, w \in Nat : a <= UpdateLimit /\ w <= MaxDelay => a + 1 + w <= UpdateLimit + MaxDelay + 1
      OBVIOUS
    <3>2. age \in Nat /\ wait' \in Nat /\ wait' <= MaxDelay
      BY <1>5 DEF StartupTypeOK, UpdaterTypeOK
    <3>3. age' = age + 1 /\ age <= UpdateLimit
      BY <1>1
    <3>4. age + 1 + wait' <= UpdateLimit + MaxDelay + 1
      BY <3>1, <3>2, <3>3
    <3> QED  BY <3>3, <3>4
  <2>2. phase' # "IDLE"
    BY <1>1
  <2> HIDE DEF Reboot
  <2> QED  BY <2>1, <2>2 DEF TimeInv
<1>9. AudioNeedsTarget'
  BY <1>1, <1>2 DEF AudioNeedsTarget, CanProceed
<1> QED  BY <1>6, <1>7, <1>8, <1>9

LEMMA UpdatesKeepInv == StartupInv /\ Updates => StartupInv'
<1> SUFFICES ASSUME StartupInv, Updates PROVE StartupInv'
  OBVIOUS
<1>0. UNCHANGED <<restarts, audioVars>>
  BY DEF Updates
<1>1. CASE QuietStep
  BY <1>0, <1>1, QuietKeepsInv
<1>2. ASSUME NEW taken \in BOOLEAN, NEW ok \in BOOLEAN, NEW v \in {Source, NoReply},
             StartUpdate(v, taken, ok)
      PROVE  StartupInv'
  BY <1>0, <1>2, StartUpdateKeepsInv
<1>3. ASSUME NEW taken \in BOOLEAN, NEW ok \in BOOLEAN,
             SendBlock(taken, ok) \/ SendFinal(taken, ok) \/ Reboot(taken, ok)
      PROVE  StartupInv'
  BY <1>0, <1>3, SendBlockKeepsInv, SendFinalKeepsInv, RebootKeepsInv
<1> QED  BY <1>1, <1>2, <1>3 DEF Updates, UpdaterStep, QuietStep

\* A restart of the ESP32, with or without the chip.
LEMMA RestartKeepsInv ==
  ASSUME StartupInv, NEW mute \in BOOLEAN, Restarts, AudioRestarts(mute),
         UNCHANGED xmos \/ (mute /\ Boots), restarts' \in 0 .. MaxRestarts
  PROVE  StartupInv'
<1> USE UpdaterAssumption, StartupAssumption DEF Restarts, AudioRestarts
<1>1. /\ image' \in Images /\ up' \in BOOLEAN /\ final' \in BOOLEAN
      /\ received' \in Seq(1 .. ImageSize)
      /\ (received' # <<>> \/ final' => image' = Source)
  <2>1. CASE UNCHANGED xmos
    BY <2>1 DEF xmos, StartupTypeOK, UpdaterTypeOK, TransferInv
  <2>2. CASE Boots
    BY <2>2, BootsTypes
  <2> QED  BY <2>1, <2>2
<1>2. UpdaterTypeOK'
  BY <1>1 DEF StartupTypeOK, UpdaterTypeOK, Phases
<1>3. unmuted' \in BOOLEAN
  BY DEF StartupTypeOK
<1>4. StartupTypeOK'
  BY <1>2, <1>3 DEF StartupTypeOK
<1>5. TransferInv'
  BY <1>1 DEF TransferInv, BlocksInOrder, Sending, Sent, CanProceed
<1>6. TimeInv'
  BY DEF TimeInv, Updating
<1>7. unmuted' => image' = Target
  <2>1. CASE UNCHANGED xmos
    BY <2>1 DEF xmos, AudioNeedsTarget
  <2>2. CASE mute
    BY <2>2
  <2> QED  BY <2>1, <2>2
<1>8. AudioNeedsTarget'
  BY <1>7 DEF AudioNeedsTarget
<1> QED  BY <1>4, <1>5, <1>6, <1>8

\* The steps that leave the updater alone.
AudioStep == CompanionSetup \/ CodecSetup \/ CompanionLoop \/ CodecLoop

LEMMA AudioKeepsInv == StartupInv /\ AudioStep => StartupInv'
<1> SUFFICES ASSUME StartupInv, AudioStep PROVE StartupInv'
  OBVIOUS
<1> USE DEF AudioStep, CompanionSetup, CodecSetup, CompanionLoop, CodecLoop, ConfigureCodec, Connect
<1>1. UNCHANGED <<updater, restarts>>
  OBVIOUS
<1>2. UNCHANGED <<phase, offset, wait, age, verifyAge, image, up, received, final, restarts>>
  BY <1>1 DEF updater, esp, xmos
<1>3. UpdaterTypeOK' /\ TransferInv' /\ TimeInv'
  BY <1>2 DEF StartupTypeOK, UpdaterTypeOK, TransferInv, BlocksInOrder, Whole, CanProceed, TimeInv,
              Updating
<1>4. mic' \in BOOLEAN /\ client' \in BOOLEAN /\ output' \in BOOLEAN /\ unmuted' \in BOOLEAN
  BY DEF StartupTypeOK
<1>5. companion' \in {"waiting", "ready", "failed"} /\ codec' \in {"waiting", "ready", "failed"}
  BY DEF StartupTypeOK
<1>6. StartupTypeOK'
  BY <1>2, <1>3, <1>4, <1>5 DEF StartupTypeOK
<1>7. AudioNeedsTarget'
  <2>1. mic' \/ client' => CanProceed
    BY DEF AudioNeedsTarget
  <2>2. output' \/ unmuted' => output \/ unmuted \/ mic
    BY Zenon DEF AudioStep, CompanionSetup, CodecSetup, CompanionLoop, CodecLoop, ConfigureCodec, Connect
  <2>3. CanProceed => image = Target
    BY DEF TransferInv
  <2>4. mic \/ output \/ unmuted => image = Target
    BY DEF AudioNeedsTarget
  <2> HIDE DEF AudioStep
  <2> QED  BY <1>2, <2>1, <2>2, <2>3, <2>4 DEF AudioNeedsTarget, CanProceed
<1> QED  BY <1>3, <1>6, <1>7

LEMMA StepKeepsInv == StartupInv /\ [Next]_startupVars => StartupInv'
<1> SUFFICES ASSUME StartupInv, [Next]_startupVars PROVE StartupInv'
  OBVIOUS
<1>1. CASE Updates
  BY <1>1, UpdatesKeepInv
<1>2. CASE UpdateVerified
  <2>1. restarts' \in 0 .. MaxRestarts
    BY <1>2 DEF UpdateVerified, StartupTypeOK
  <2> QED  BY <1>2, <2>1, RestartKeepsInv DEF UpdateVerified, Verified
<1>3. CASE AudioStep
  BY <1>3, AudioKeepsInv
<1>4. ASSUME NEW mute \in BOOLEAN, EspRestarts(mute)
      PROVE  StartupInv'
  <2>1. restarts' \in 0 .. MaxRestarts
    BY <1>4, StartupAssumption DEF EspRestarts, StartupTypeOK
  <2> QED  BY <1>4, <2>1, RestartKeepsInv DEF EspRestarts
<1>5. CASE PowerLost
  <2>1. restarts' \in 0 .. MaxRestarts
    BY <1>5, StartupAssumption DEF PowerLost, StartupTypeOK
  <2> QED  BY <1>5, <2>1, RestartKeepsInv DEF PowerLost
<1>6. CASE XmosBoots /\ UNCHANGED <<restarts, audioVars>>
  <2>1. /\ up' \in BOOLEAN
        /\ UNCHANGED <<phase, offset, wait, age, verifyAge, image, received, final, restarts,
                       companion, mic, client, codec, output, unmuted>>
    BY <1>6 DEF XmosBoots, esp, audioVars
  <2> QED  BY <2>1 DEF StartupTypeOK, UpdaterTypeOK, TransferInv, BlocksInOrder, Whole, CanProceed,
                       TimeInv, Updating, AudioNeedsTarget
<1>7. CASE UNCHANGED startupVars
  BY <1>7 DEF startupVars, updater, esp, xmos, audioVars, StartupTypeOK, UpdaterTypeOK, TransferInv,
              BlocksInOrder, Whole, CanProceed, TimeInv, Updating, AudioNeedsTarget
<1> QED  BY <1>1, <1>2, <1>3, <1>4, <1>5, <1>6, <1>7 DEF Next, System, AudioStep

LEMMA InvHolds == Spec => []StartupInv
BY InitHolds, StepKeepsInv, PTL DEF Spec

--------------------------------------------------------------------------------

\* The types hold for any image, block size, limits and number of restarts:
\* offset_ never passes the end of the image, however short its last block.
THEOREM StartupTypeCorrect == Spec => []StartupTypeOK
<1>1. StartupInv => StartupTypeOK
  OBVIOUS
<1> QED  BY <1>1, InvHolds, PTL

\* What the chip holds is what the updater counts as written, in order and
\* once, and it is all of the image before the chip is rebooted.
THEOREM BlocksAlwaysInOrder == Spec => []BlocksInOrder
<1>1. StartupInv => BlocksInOrder
  BY DEF TransferInv
<1> QED  BY <1>1, InvHolds, PTL

\* An update lasts no longer than its limit and the one delay the chip has
\* asked for last.
THEOREM UpdateAlwaysBounded == Spec => []UpdateBounded
<1>1. StartupInv => UpdateBounded
  BY UpdaterAssumption DEF TimeInv, UpdateBounded, StartupTypeOK, UpdaterTypeOK
<1> QED  BY <1>1, InvHolds, PTL

\* Microphone, transport and output are in use only on the right image.
THEOREM AudioAlwaysNeedsTarget == Spec => []AudioNeedsTarget
<1>1. StartupInv => AudioNeedsTarget
  OBVIOUS
<1> QED  BY <1>1, InvHolds, PTL

\* The board implements GuardedUpgrade: every step of the updater, of the
\* startup and of a restart is a step of it, or changes neither the image
\* nor whether there is audio.
THEOREM StartupImplementsGuard == Spec => UpgradeIsGuarded
<1>1. Init => Guard!Init
  BY DEF Init, UpdaterInit, Guard!Init
<1>2. StartupInv /\ [Next]_startupVars => [Guard!Next]_Guard!vars
  <2> SUFFICES ASSUME StartupInv, [Next]_startupVars PROVE [Guard!Next]_Guard!vars
    OBVIOUS
  <2> USE DEF Guard!vars
  <2>1. image = Source => ~(mic \/ unmuted)
    BY UpdaterAssumption DEF AudioNeedsTarget
  <2>2. ASSUME Boots PROVE image' = image \/ (image = Source /\ image' \in Images)
    BY <2>2, BootsTypes
  <2>3. CASE Updates
    <3>1. UNCHANGED <<mic, unmuted>>
      BY <2>3 DEF Updates, audioVars
    <3>2. image' = image \/ (image = Source /\ image' \in Images)
      <4>1. CASE \E taken, ok \in BOOLEAN : Reboot(taken, ok)
        BY <4>1, <2>2 DEF Reboot, xmos
      <4>2. CASE ~ \E taken, ok \in BOOLEAN : Reboot(taken, ok)
        BY <2>3, <4>2 DEF Updates, UpdaterStep, SetupUpdater, Idle, TimedOut, NotFound, FoundOther,
                          BlockNotReady, BlockDone, FinalDone, NotVerified, StartUpdate, SendBlock,
                          SendFinal, xmos
      <4> QED  BY <4>1, <4>2
    <3> QED  BY <3>1, <3>2, <2>1 DEF Guard!Next, Guard!Rewrite
  <2>4. CASE UpdateVerified
    BY <2>4 DEF UpdateVerified, Verified, AudioRestarts, xmos, Guard!Next, Guard!Restart
  <2>5. CASE AudioStep
    <3>1. UNCHANGED image
      BY <2>5 DEF AudioStep, CompanionSetup, CodecSetup, CompanionLoop, CodecLoop, ConfigureCodec, Connect, updater, xmos
    <3>2. mic' \/ unmuted' => image' = Target
      BY <2>5, AudioKeepsInv DEF AudioNeedsTarget
    <3>3. CASE mic' \/ unmuted'
      <4>1. image = Target
        BY <3>1, <3>2, <3>3
      <4> QED  BY <3>1, <3>3, <4>1 DEF Guard!Next, Guard!Start
    <3>4. CASE ~(mic' \/ unmuted')
      BY <3>1, <3>4 DEF Guard!Next, Guard!Restart
    <3> QED  BY <3>3, <3>4
  <2>6. ASSUME NEW mute \in BOOLEAN, EspRestarts(mute)
        PROVE  [Guard!Next]_Guard!vars
    <3>1. UNCHANGED image /\ ~mic' /\ (unmuted' => unmuted)
      BY <2>6 DEF EspRestarts, AudioRestarts, xmos
    <3> QED  BY <3>1 DEF Guard!Next, Guard!Restart
  <2>7. CASE PowerLost
    <3>1. ~mic' /\ ~unmuted' /\ (image' = image \/ (image = Source /\ image' \in Images))
      BY <2>7, <2>2 DEF PowerLost, AudioRestarts
    <3> QED  BY <3>1, <2>1 DEF Guard!Next, Guard!Restart, Guard!Rewrite
  <2>8. CASE XmosBoots /\ UNCHANGED <<restarts, audioVars>>
    BY <2>8 DEF XmosBoots, audioVars
  <2>9. CASE UNCHANGED startupVars
    BY <2>9 DEF startupVars, updater, xmos, audioVars
  <2> QED  BY <2>3, <2>4, <2>5, <2>6, <2>7, <2>8, <2>9 DEF Next, System, AudioStep
<1> QED  BY <1>1, <1>2, InvHolds, PTL DEF Spec, UpgradeIsGuarded, Guard!Spec

================================================================================
