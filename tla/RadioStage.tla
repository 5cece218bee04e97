----------------------------- MODULE RadioStage -----------------------------
(***************************************************************************)
(* The companion radio's firmware: POST /api/radio stages an image in the  *)
(* radio_fw partition (h_radio_body in firmware/main/webui.c) and, on the  *)
(* next boot, radio_flash_sync (radio_flash.c) brings the radio's flash in *)
(* line with it.  Power may fail between any two steps.                    *)
(*                                                                         *)
(* Partition and radio flash are divided into pieces:                      *)
(*    1      first flash page of sector 0: image magic and chip id         *)
(*    2      rest of sector 0: the bootloader                              *)
(*    3      nvs, otadata and phy_init, which the running radio rewrites   *)
(*    4      first part of the application, with its descriptor            *)
(*    5...   rest of the application                                       *)
(* A piece holds the bytes a given image has there, or is erased.          *)
(***************************************************************************)
EXTENDS Integers, FiniteSets

CONSTANTS
    Images,       \* images that may be uploaded: [id, chip, magic, desc, len]
    Factory,      \* the image the partition is shipped with
    Erased,       \* content of an erased piece
    Cal,          \* calibration data the radio has written
    PartSize,     \* pieces in the partition
    MaxCuts       \* bound: power failures

NV      == 3
AppFrom == 4      \* APP_IMAGE_ADDR, RADIO_APP_IMAGE_ADDR
Pieces  == 1..PartSize
None    == 0      \* old_chip = -1: nothing staged
Known   == Images \cup {Factory}

ASSUME RadioStageAssumption ==
    /\ PartSize \in Nat /\ PartSize > AppFrom
    /\ Known \subseteq [id : Nat, chip : Nat \ {None}, magic : BOOLEAN, desc : BOOLEAN, len : Nat]
    /\ Factory.magic /\ Factory.desc /\ Factory.len \in AppFrom..PartSize
    /\ Erased \notin Known /\ Cal \notin Known
    /\ MaxCuts \in Nat

VARIABLES
    part,         \* content of the radio_fw partition
    radio,        \* content of the radio's flash
    up,           \* the POST /api/radio under way
    restart,      \* delayed_reboot_task is running
    host,         \* where the host's boot is; "run" when it is through
    n,            \* pieces received, or written to the radio
    verr,         \* the MD5 of the radio's flash could not be obtained
    fresh,        \* history: synced since the partition was last touched
    cuts          \* power failures so far

vars == <<part, radio, up, restart, host, n, verr, fresh, cuts>>

NoUpload == [pc |-> "idle", img |-> Factory, old_chip |-> None]

\* An image as it lies in flash.
Laid(img) == [p \in Pieces |-> IF p <= img.len THEN img ELSE Erased]

Init ==
    /\ part = Laid(Factory)
    /\ radio \in {Laid(Factory), [p \in Pieces |-> Erased]}
    /\ up = NoUpload
    /\ restart = FALSE
    /\ host = "sync"
    /\ n = 0
    /\ verr = FALSE
    /\ fresh = FALSE
    /\ cuts = 0
-----------------------------------------------------------------------------
(***************************************************************************)
(* h_radio_body.                                                           *)
(***************************************************************************)
bootVars == <<radio, host, verr, cuts>>

\* Any error return: the partition stays as it is at that point.
Fail == up' = NoUpload /\ n' = 0 /\ UNCHANGED <<part, restart, fresh>>

\* content_len in range; remember the chip of the image staged so far.
UploadBegin(img) ==
    /\ host = "run" /\ up.pc = "idle"
    /\ img.len \in AppFrom..PartSize
    /\ up' = [pc |-> "erase", img |-> img,
              old_chip |-> IF part[1] # Erased /\ part[1].magic THEN part[1].chip ELSE None]
    /\ n' = 0
    /\ UNCHANGED <<part, restart, fresh, bootVars>>

\* esp_partition_erase_range over the whole partition, sector by sector.
UploadErase ==
    LET m == IF n = 0 THEN 2 ELSE n + 1
    IN  /\ up.pc = "erase"
        /\ part' = [p \in Pieces |-> IF p <= m THEN Erased ELSE part[p]]
        /\ n' = IF m = PartSize THEN 0 ELSE m
        /\ up' = [up EXCEPT !.pc = IF m = PartSize THEN "recv" ELSE "erase"]
        /\ fresh' = FALSE
        /\ UNCHANGED <<restart, bootVars>>

\* Mutant: only the chip is compared.
HeaderOK_ChipOnly == up.old_chip \in {None, up.img.chip}

HeaderOK == up.img.magic /\ up.old_chip \in {None, up.img.chip}

\* Mutant: sector 0 is written as it arrives.
UploadRecv_NoHoldBack ==
    /\ up.pc = "recv" /\ n < up.img.len
    /\ IF n + 1 = 2 /\ ~HeaderOK
       THEN Fail
       ELSE /\ n' = n + 1
            /\ part' = [part EXCEPT ![n + 1] = up.img]
            /\ UNCHANGED <<up, restart, fresh>>
    /\ UNCHANGED bootVars

\* A piece of the body.  Sector 0 is held back in RAM and its header checked
\* when it is complete; the other pieces are written as they arrive.
UploadRecv ==
    /\ up.pc = "recv" /\ n < up.img.len
    /\ IF n + 1 = 2 /\ ~HeaderOK
       THEN Fail
       ELSE /\ n' = n + 1
            /\ part' = IF n + 1 <= 2 THEN part ELSE [part EXCEPT ![n + 1] = up.img]
            /\ UNCHANGED <<up, restart, fresh>>
    /\ UNCHANGED bootVars

\* The body is complete: read the descriptor back.
UploadVerify ==
    /\ up.pc = "recv" /\ n = up.img.len
    /\ IF part[AppFrom] # Erased /\ part[AppFrom].desc
       THEN up' = [up EXCEPT !.pc = "commit"] /\ UNCHANGED <<part, restart, n, fresh>>
       ELSE Fail
    /\ UNCHANGED bootVars

\* The connection breaks, or an erase or a write fails.
UploadError ==
    /\ up.pc # "idle"
    /\ Fail
    /\ UNCHANGED bootVars

\* esp_partition_write of sector 0 goes page by page: first the page that
\* carries the magic ...
CommitFirstPage ==
    /\ up.pc = "commit"
    /\ part' = [part EXCEPT ![1] = up.img]
    /\ up' = [up EXCEPT !.pc = "torn"]
    /\ UNCHANGED <<restart, n, fresh, bootVars>>

\* ... then the rest of the sector; the reboot is on its way.
Commit ==
    /\ up.pc = "torn"
    /\ part' = [part EXCEPT ![2] = up.img]
    /\ up' = NoUpload
    /\ n' = 0
    /\ restart' = TRUE
    /\ UNCHANGED <<fresh, bootVars>>

Upload == UploadErase \/ UploadRecv \/ UploadVerify \/ CommitFirstPage \/ Commit
-----------------------------------------------------------------------------
(***************************************************************************)
(* radio_flash_sync, which runs on every boot before the bridge is up.     *)
(***************************************************************************)
stageVars == <<part, up, restart, cuts>>

\* img_size: the partition without its erased tail.
ImgSize ==
    LET used == {p \in Pieces : part[p] # Erased}
    IN  IF used = {} THEN 0 ELSE CHOOSE p \in used : \A q \in used : q <= p

\* The staged image is usable: long enough, magic and descriptor in place.
Usable ==
    /\ ImgSize >= AppFrom
    /\ part[1] # Erased /\ part[1].magic
    /\ part[AppFrom] # Erased /\ part[AppFrom].desc

\* The sync is over and the bridge comes up, whatever happened.
Done(synced) ==
    /\ host' = "run" /\ n' = 0
    /\ fresh' = (fresh \/ synced)
    /\ UNCHANGED <<stageVars, radio, verr>>

SyncCheck ==
    /\ host = "sync"
    /\ IF Usable THEN host' = "connect" /\ UNCHANGED <<stageVars, radio, n, verr, fresh>>
                 ELSE Done(FALSE)

\* Mutant: without the radio's answer the sync starts over.
SyncConnect_Retries ==
    /\ host = "connect"
    /\ host' \in {"verify", "sync"}
    /\ UNCHANGED <<stageVars, radio, n, verr, fresh>>

\* The radio enters download mode, or it does not.
SyncConnect ==
    /\ host = "connect"
    /\ \/ host' = "verify" /\ UNCHANGED <<stageVars, radio, n, verr, fresh>>
       \/ Done(FALSE)

\* Mutant: the radio's flash is hashed from address 0.
AppMatches_From0 == \A p \in 1..ImgSize : radio[p] = part[p]

\* Mutant: the radio's descriptor decides.
AppMatches_ByDescriptor == radio[AppFrom] = part[AppFrom]

\* The MD5 of the application region matches.
AppMatches == \A p \in AppFrom..ImgSize : radio[p] = part[p]

SyncVerify ==
    /\ host = "verify"
    /\ \/ AppMatches /\ Done(TRUE)
       \/ /\ host' = "start"
          /\ verr' \in {FALSE, TRUE}
          /\ verr' \/ ~AppMatches
          /\ UNCHANGED <<stageVars, radio, n, fresh>>

\* esp_loader_flash_start makes the radio erase what will be written ...
FlashStart ==
    /\ host = "start"
    /\ \/ /\ host' = "erase"
          /\ n' = 0
          /\ fresh' = FALSE
          /\ UNCHANGED <<stageVars, radio, verr>>
       \/ Done(FALSE)

\* ... from offset 0 upwards.
ErasePiece ==
    /\ host = "erase"
    /\ radio' = [radio EXCEPT ![n + 1] = Erased]
    /\ n' = IF n + 1 = ImgSize THEN 0 ELSE n + 1
    /\ host' = IF n + 1 = ImgSize THEN "write" ELSE "erase"
    /\ UNCHANGED <<stageVars, verr, fresh>>

\* The command that erases may time out, wherever it has got to.
EraseTimeout == host = "erase" /\ Done(FALSE)

FlashErase == ErasePiece \/ EraseTimeout

FlashWrite ==
    /\ host = "write" /\ n < ImgSize
    /\ \/ /\ n' = n + 1
          /\ radio' = [radio EXCEPT ![n + 1] = part[n + 1]]
          /\ UNCHANGED <<stageVars, host, verr, fresh>>
       \/ Done(FALSE)

\* esp_loader_flash_finish verifies what was written.
FlashFinish ==
    /\ host = "write" /\ n = ImgSize
    /\ Done(TRUE) \/ Done(FALSE)

Sync ==
    \/ SyncCheck \/ SyncConnect \/ SyncVerify
    \/ FlashStart \/ FlashErase \/ FlashWrite \/ FlashFinish
-----------------------------------------------------------------------------
\* The radio runs and stores its calibration.
Calibrate ==
    /\ host = "run"
    /\ Erased \notin {radio[1], radio[2], radio[AppFrom]}
    /\ radio' = [radio EXCEPT ![NV] = Cal]
    /\ UNCHANGED <<stageVars, host, n, verr, fresh>>

Reboot ==
    /\ host' = "sync" /\ up' = NoUpload /\ n' = 0
    /\ restart' = FALSE /\ verr' = FALSE
    /\ UNCHANGED <<part, radio, fresh>>

\* delayed_reboot_task, or POST /api/reboot; an upload may be under way.
Restart == host = "run" /\ restart /\ Reboot /\ UNCHANGED cuts

PowerCut == cuts < MaxCuts /\ cuts' = cuts + 1 /\ Reboot

Next ==
    \/ \E img \in Images : UploadBegin(img)
    \/ Upload \/ UploadError
    \/ Sync
    \/ Calibrate
    \/ Restart \/ PowerCut

Spec == Init /\ [][Next]_vars

\* The boot goes on; users, the radio and the power supply owe nothing.
FairSpec == Spec /\ WF_vars(Sync)
-----------------------------------------------------------------------------
Cell        == Known \cup {Erased}
UploadState == [pc : {"idle", "erase", "recv", "commit", "torn"}, img : Known, old_chip : Nat]
HostState   == {"sync", "connect", "verify", "start", "erase", "write", "run"}

\* The type of the state: nothing is received or written past the partition's end.
TypeOK ==
    /\ part \in [Pieces -> Cell]
    /\ radio \in [Pieces -> Cell \cup {Cal}]
    /\ up \in UploadState
    /\ host \in HostState
    /\ n \in 0..PartSize
    /\ {restart, verr, fresh} \subseteq BOOLEAN
    /\ cuts \in 0..MaxCuts

\* radio_flash_sync has taken the staged image for good.
Accepted == host \in {"connect", "verify", "start", "erase", "write"}

\* "a truncated-but-descriptor-valid image must never reach the radio": wherever
\* an upload, an erase or the commit was cut off, the application the sync accepts
\* is the whole one of the image that the marker names, with nothing behind it.
\* That is all the code achieves.  A commit of sector 0 that is cut off behind its
\* first page leaves the marker without a bootloader, and the sync accepts that,
\* against the comments: README.md, "Seen while modelling".
AcceptedAppWhole ==
    Accepted => \E img \in Known :
                   \A p \in {1} \cup NV..PartSize : part[p] = Laid(img)[p]

\* When the sync has found the radio to match, or has rewritten it, the radio has
\* the whole application of the staged image, whatever was interrupted before.
InSyncAppWhole ==
    host = "run" /\ fresh =>
        \E img \in Known : /\ part[AppFrom] = img
                           /\ \A p \in AppFrom..img.len : radio[p] = img

\* A radio that was synced and has only run since is not flashed again, unless
\* its flash cannot be read: "the board would re-flash its radio on EVERY boot".
NoNeedlessRewrite == host = "start" /\ ~verr => ~fresh

\* The images that may reach the radio.
Sound == {img \in Known : img.magic /\ img.desc /\ img.len \in AppFrom..PartSize}

\* What the partition stages, by the page with the magic alone (the bootloader
\* behind it may be missing, see AcceptedAppWhole), and the image of which the radio
\* has the whole application.
Staged == part[1]
App ==
    LET img == radio[AppFrom]
    IN  IF img \in Sound /\ \A p \in AppFrom..img.len : radio[p] = img THEN img ELSE Erased

ST == INSTANCE StagedImage
          WITH Images <- Sound, None <- Erased, staged <- Staged, app <- App, synced <- fresh

\* Upload and sync implement the staging area of module StagedImage: whatever is
\* cut off where, the marker of an image appears and is withdrawn in one step, and
\* the radio gets the application of the image it names or none.
ImplementsStagedImage == ST!Spec

\* "Never fatal": every boot gets through the sync to the bridge, unless the
\* power keeps failing.
BootCompletes == (host # "run") ~> (host = "run")
=============================================================================
