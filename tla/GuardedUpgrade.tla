---------------------------- MODULE GuardedUpgrade ----------------------------
(***************************************************************************)
(* What the XMOS updater promises (the comment that opens                  *)
(* firmware/respeaker-thinking-companion-ffva-auto-upgrade.yaml): audio    *)
(* starts only on the image it was built for, the image changes only while *)
(* there is no audio, and an image the updater does not know is kept.      *)
(***************************************************************************)
CONSTANTS
  Images,          \* what may be in the XMOS's flash
  Source, Target   \* the stock image, and the one to be installed

VARIABLES image, audio

vars == <<image, audio>>

Init == image \in Images /\ audio = FALSE

Start == image = Target /\ audio' = TRUE /\ UNCHANGED image

Restart == audio' = FALSE /\ UNCHANGED image

Rewrite ==
  /\ ~audio /\ image = Source
  /\ image' \in Images
  /\ audio' = FALSE

Next == Start \/ Restart \/ Rewrite

Spec == Init /\ [][Next]_vars

===============================================================================
