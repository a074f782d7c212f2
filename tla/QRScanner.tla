------------------------------ MODULE QRScanner ------------------------------
(***************************************************************************)
(* The dialog of the settings page that adds a trusted access point from a *)
(* QR code or by hand: the camera, which is asked for and granted in its   *)
(* own time, the loop of animation frames that looks for a code, and the   *)
(* detections it starts, whose answers come later, in any order, and after *)
(* the dialog was closed if they like.                                     *)
(*                                                                         *)
(* What a success sends is the backend's add_trusted (module TrustedAps);  *)
(* its answer only raises a toast.  A code is valid or it is not.          *)
(***************************************************************************)
EXTENDS Integers, FiniteSetsExt

CONSTANTS
    MaxDetect,  \* bound on the detections in flight, of each kind
    MaxOrphans  \* bound on the cameras of closed dialogs, asked for or on

ASSUME QrAssumption == MaxDetect \in Nat \ {0} /\ MaxOrphans \in Nat

VARIABLES
    qrOpen,     \* SettingsPage: the dialog is mounted
    camera,     \* the dialog's: "off", "asked" of the user, or "on"
    orphans,    \* the cameras still asked for by dialogs closed since
    cameras,    \* how many cameras are on
    late,       \* ghost: how many were granted to a dialog that was closed
    scanning,
    error,      \* a message is shown, and the video is not
    frames,     \* the scan: "off", "timer" for the first frame, or "frame"
    detecting,  \* the detections in flight
    stale       \* those of dialogs of this visit to the page closed since

cameraVars == <<camera, orphans, cameras, late>>
qrVars == <<qrOpen, cameraVars, scanning, error, frames, detecting, stale>>

QrInit ==
    /\ qrOpen = FALSE
    /\ camera = "off" /\ orphans = 0 /\ cameras = 0 /\ late = 0
    /\ scanning = TRUE /\ error = FALSE
    /\ frames = "off" /\ detecting = 0 /\ stale = 0

OpenDialog ==
    /\ ~qrOpen /\ orphans + late < MaxOrphans
    /\ qrOpen' = TRUE
    /\ camera' = "asked" /\ frames' = "timer"
    /\ UNCHANGED <<orphans, cameras, late, scanning, error, detecting, stale>>

Forgets(left) ==
    /\ qrOpen' = FALSE
    /\ camera' = "off" /\ frames' = "off"
    /\ orphans' = IF camera = "asked" THEN orphans + 1 ELSE orphans
    /\ scanning' = TRUE /\ error' = FALSE
    /\ detecting' = 0
    /\ stale' = Min({left, MaxDetect})
    /\ UNCHANGED late

(* Mutant: the camera is stopped by way of the video, which is not there   *)
(* while a message is shown.                                               *)
ClosesByVideo(left) ==
    /\ Forgets(left)
    /\ cameras' = IF camera = "on" /\ scanning /\ ~error THEN cameras - 1 ELSE cameras

(* stopCamera, from the clean-up if from nowhere else, cancels the frame   *)
(* and stops the camera it was granted; one still asked for is not called  *)
(* off.  Bound: of the detections left in flight, those over MaxDetect     *)
(* find nothing.                                                           *)
Closes(left) ==
    /\ Forgets(left)
    /\ cameras' = IF camera = "on" THEN cameras - 1 ELSE cameras

CloseDialog == qrOpen /\ Closes(detecting + stale)

(***************************************************************************)
(* startCamera.                                                            *)
(***************************************************************************)
CameraGranted ==
    /\ camera = "asked"
    /\ camera' = "on" /\ cameras' = cameras + 1
    /\ UNCHANGED <<qrOpen, orphans, late, scanning, error, frames, detecting, stale>>

(* The effect on scanning clears the timer; a frame asked for still comes. *)
CameraDenied ==
    /\ camera = "asked"
    /\ camera' = "off"
    /\ error' = TRUE /\ scanning' = FALSE
    /\ frames' = IF frames = "timer" THEN "off" ELSE frames
    /\ UNCHANGED <<qrOpen, orphans, cameras, late, detecting, stale>>

(* Nobody stops a camera granted to a dialog that is gone.                 *)
OrphanAnswered(granted) ==
    /\ orphans > 0
    /\ orphans' = orphans - 1
    /\ IF granted THEN cameras' = cameras + 1 /\ late' = late + 1 ELSE UNCHANGED <<cameras, late>>
    /\ UNCHANGED <<qrOpen, camera, scanning, error, frames, detecting, stale>>

(***************************************************************************)
(* scanFrame.                                                              *)
(***************************************************************************)
FirstFrame ==
    /\ frames = "timer"
    /\ frames' = "frame"
    /\ UNCHANGED <<qrOpen, cameraVars, scanning, error, detecting, stale>>

(* The message has taken the video's place: the scan ends, for good.       *)
FrameWithoutVideo ==
    /\ frames = "frame" /\ (error \/ ~scanning)
    /\ frames' = "off"
    /\ UNCHANGED <<qrOpen, cameraVars, scanning, error, detecting, stale>>

(* The next frame is asked for.  A detection is started when the video has *)
(* data and the browser has a BarcodeDetector; without one the picture is  *)
(* shown and no code is looked for in it.                                  *)
FrameReady ==
    /\ frames = "frame" /\ scanning /\ ~error
    /\ \/ camera = "on" /\ detecting < MaxDetect /\ detecting' = detecting + 1
       \/ UNCHANGED detecting
    /\ UNCHANGED <<qrOpen, cameraVars, scanning, error, frames, stale>>

(***************************************************************************)
(* The detections, and handleQRData.                                       *)
(***************************************************************************)
NothingDetected ==
    \/ /\ detecting > 0
       /\ detecting' = detecting - 1
       /\ UNCHANGED <<qrOpen, cameraVars, scanning, error, frames, stale>>
    \/ /\ stale > 0
       /\ stale' = stale - 1
       /\ UNCHANGED <<qrOpen, cameraVars, scanning, error, frames, detecting>>

(* Other detections may be in flight still: each of them reports again.    *)
ValidCode == detecting > 0 /\ Closes(detecting + stale - 1)

InvalidCode ==
    /\ detecting > 0
    /\ detecting' = detecting - 1
    /\ error' = TRUE
    /\ UNCHANGED <<qrOpen, cameraVars, scanning, frames, stale>>

(* A dialog of this visit that is gone reports too, and the page closes    *)
(* the one it shows.                                                       *)
StaleCode == stale > 0 /\ Closes(detecting + stale - 1)

(***************************************************************************)
(* handleManualSubmit.                                                     *)
(***************************************************************************)
SubmitInvalid ==
    /\ qrOpen
    /\ error' = TRUE
    /\ UNCHANGED <<qrOpen, cameraVars, scanning, frames, detecting, stale>>

SubmitValid == qrOpen /\ Closes(detecting + stale)

QrNext ==
    \/ OpenDialog \/ CloseDialog
    \/ CameraGranted \/ CameraDenied
    \/ \E granted \in BOOLEAN : OrphanAnswered(granted)
    \/ FirstFrame \/ FrameWithoutVideo \/ FrameReady
    \/ NothingDetected \/ ValidCode \/ InvalidCode \/ StaleCode
    \/ SubmitInvalid \/ SubmitValid

=============================================================================
