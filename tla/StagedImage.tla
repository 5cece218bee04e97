---------------------------- MODULE StagedImage -----------------------------
(***************************************************************************)
(* What POST /api/radio and radio_flash_sync promise together, without     *)
(* sectors, pieces and power failures: the staging area offers nothing or  *)
(* the application of one image, and the radio has no application or a     *)
(* whole one, which was on offer when it was installed.  The bootloader in *)
(* front of the application is not part of the promise.  Module RadioStage *)
(* implements this specification.                                          *)
(***************************************************************************)
CONSTANTS Images,   \* the images that may be staged
          None      \* "nothing"

VARIABLES
    staged,    \* the image in the staging area
    app,       \* the image whose application the radio has
    synced     \* the radio is known to have the staged image's application

stVars == <<staged, app, synced>>

Init ==
    /\ staged \in Images
    /\ app \in {None, staged}
    /\ synced = FALSE

\* A new upload begins: what was staged is gone.
Withdraw ==
    /\ staged' = None
    /\ synced' = FALSE
    /\ UNCHANGED app

\* An upload is complete.
Stage(img) ==
    /\ staged = None
    /\ staged' = img
    /\ UNCHANGED <<app, synced>>

\* The radio was found, or made, to have the application of the staged image.
Confirm ==
    /\ staged # None
    /\ app = staged
    /\ synced' = TRUE
    /\ UNCHANGED <<staged, app>>

\* The radio is to be written anew.
Doubt ==
    /\ staged # None
    /\ synced' = FALSE
    /\ UNCHANGED <<staged, app>>

\* The radio's application is erased, with an image at hand to replace it ...
Wipe ==
    /\ staged # None /\ ~synced
    /\ app' = None
    /\ UNCHANGED <<staged, synced>>

\* ... and written, never over another one.
Install ==
    /\ staged # None /\ ~synced
    /\ app = None
    /\ app' = staged
    /\ UNCHANGED <<staged, synced>>

Next ==
    \/ Withdraw
    \/ \E img \in Images : Stage(img)
    \/ Confirm \/ Doubt \/ Wipe \/ Install

Spec == Init /\ [][Next]_stVars
=============================================================================
