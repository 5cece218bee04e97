-------------------------------- MODULE Ota --------------------------------
(***************************************************************************)
(* Firmware update of the board itself.  Three tasks share the flash and a *)
(* little RAM state:                                                       *)
(*                                                                         *)
(*  - the web server task, which takes POST /api/ota (h_ota in webui.c),   *)
(*    /api/update/check and /api/update/install, one request at a time;    *)
(*  - ota_install_task (ota_check.c), which pulls the release image;       *)
(*  - the main task, which feeds the task watchdog (main.c) and is taken   *)
(*    off it while an upload runs.                                         *)
(*                                                                         *)
(* The board has two application slots.  An image lies in a slot in two    *)
(* pieces: its header and descriptor, and the rest.  Power may fail, or    *)
(* the board panic, at any time.                                           *)
(***************************************************************************)
EXTENDS Versions

CONSTANTS
    Images,       \* images that may be uploaded or served
    Factory,      \* the image the board is shipped with
    Manifests,    \* versions the release server may announce
    Erased, Junk  \* contents of flash that belong to no image

Slots  == {0, 1}
Pieces == 1..2
Known  == Images \cup {Factory}

\* own: project_name is this firmware's; chip: made for this chip; digest: the
\* image's checksum is right; ver: its version.
ASSUME OtaAssumption ==
    /\ Known \subseteq [id : Nat, magic : BOOLEAN, own : BOOLEAN, chip : BOOLEAN,
                        digest : BOOLEAN, ver : Texts]
    /\ Factory.magic /\ Factory.own /\ Factory.chip /\ Factory.digest
    /\ Manifests \subseteq Texts
    /\ Erased \notin Known /\ Junk \notin Known /\ Erased # Junk

VARIABLES
    slot,         \* content of the two slots
    boot,         \* the slot otadata names
    running,      \* the slot the running firmware was started from
    fw_ver,       \* FW_VERSION_STRING of the running firmware
    reboot,       \* a restart is 500 ms away
    web,          \* the request the web server works on: [pc, img, n]
    s_state,      \* result of the last manifest check
    s_install,    \* 0 idle, 1 running, 2 error
    inst,         \* ota_install_task: [pc, img, n]
    s_wdt_on, s_wdt_paused,   \* main.c's view of the main task's watchdog
    subscribed,   \* the main task is on the task watchdog
    main          \* where the main task is in app_wdt_feed_main

flashVars == <<slot, boot, running, fw_ver>>
instVars  == <<s_install, inst>>
wdtVars   == <<s_wdt_on, s_wdt_paused, subscribed>>
vars == <<flashVars, reboot, web, s_state, instVars, wdtVars, main>>

NoTask  == [pc |-> "idle", img |-> Factory, n |-> 0]
Other(s) == 1 - s
Laid(img) == [p \in Pieces |-> img]

\* esp_image_verify: the slot holds one image, whole, for this chip.
Verified(s) == \E img \in Known : img.chip /\ img.digest /\ slot[s] = Laid(img)

\* Mutant: the slot otadata names.
Passive_BootSlot == boot

\* esp_ota_get_next_update_partition: the slot that is not running.
Passive == Other(running)

Init ==
    /\ slot = [s \in Slots |-> IF s = 0 THEN Laid(Factory) ELSE [p \in Pieces |-> Erased]]
    /\ boot = 0 /\ running = 0 /\ fw_ver = Factory.ver
    /\ reboot = FALSE
    /\ web = NoTask
    /\ s_state = "idle"
    /\ s_install = 0 /\ inst = NoTask
    /\ s_wdt_on = TRUE /\ s_wdt_paused = FALSE /\ subscribed = TRUE
    /\ main = "sleep"
-----------------------------------------------------------------------------
(***************************************************************************)
(* h_ota: pause the watchdog, h_ota_body, resume.                          *)
(***************************************************************************)
Web(pc1) == web' = [web EXCEPT !.pc = pc1]

\* h_ota_body returns.
Return == web' = [NoTask EXCEPT !.pc = "resume"]

\* app_wdt_pause_main takes the main task off the watchdog...
UploadPause(img) ==
    /\ web.pc = "idle"
    /\ web' = [pc |-> "pause", img |-> img, n |-> 0]
    /\ IF s_wdt_on THEN subscribed' = FALSE /\ s_wdt_on' = FALSE
                   ELSE UNCHANGED <<subscribed, s_wdt_on>>
    /\ UNCHANGED <<flashVars, reboot, s_state, instVars, s_wdt_paused, main>>

\* ...and then sets the flag.
UploadPaused ==
    /\ web.pc = "pause"
    /\ s_wdt_paused' = TRUE
    /\ Web("begin")
    /\ UNCHANGED <<flashVars, reboot, s_state, instVars, s_wdt_on, subscribed, main>>

\* esp_ota_begin erases the passive slot.
UploadBegin ==
    /\ web.pc = "begin"
    /\ slot' = [slot EXCEPT ![Passive] = [p \in Pieces |-> Erased]]
    /\ Web("recv")
    /\ UNCHANGED <<boot, running, fw_ver, reboot, s_state, instVars, wdtVars, main>>

\* Flash is written without an erase: what is there must be blank, or the same.
Programmed(old, img) ==
    IF old = Erased \/ old = img THEN img ELSE Junk

\* Mutant: the project name is not compared.
HeaderOK_AnyProject(img) == img.magic

HeaderOK(img) == img.magic /\ img.own

\* A piece of the body: with the first one, the header is checked before
\* anything is written.
UploadRecv ==
    LET p == web.n + 1
    IN  /\ web.pc = "recv" /\ p \in Pieces
        /\ IF p = 1 /\ ~HeaderOK(web.img)
           THEN Return /\ UNCHANGED slot
           ELSE /\ slot' = [slot EXCEPT ![Passive][p] = Programmed(@, web.img)]
                /\ web' = [web EXCEPT !.n = p]
        /\ UNCHANGED <<boot, running, fw_ver, reboot, s_state, instVars, wdtVars, main>>

\* esp_ota_end validates the slot, whoever has written it.
UploadEnd ==
    /\ web.pc = "recv" /\ web.n = 2
    /\ IF Verified(Passive) THEN Web("setboot") ELSE Return
    /\ UNCHANGED <<flashVars, reboot, s_state, instVars, wdtVars, main>>

\* esp_ota_set_boot_partition validates again and writes otadata.
UploadSetBoot ==
    /\ web.pc = "setboot"
    /\ IF Verified(Passive) THEN boot' = Passive /\ reboot' = TRUE
                            ELSE UNCHANGED <<boot, reboot>>
    /\ Return
    /\ UNCHANGED <<slot, running, fw_ver, s_state, instVars, wdtVars, main>>

\* A receive or flash error: every early return of the body.
UploadError ==
    /\ web.pc \in {"begin", "recv", "setboot"}
    /\ Return
    /\ UNCHANGED <<flashVars, reboot, s_state, instVars, wdtVars, main>>

\* Mutant: the wrapper returns without resuming.
UploadResume_Missing ==
    /\ web.pc = "resume"
    /\ web' = NoTask
    /\ UNCHANGED <<flashVars, reboot, s_state, instVars, wdtVars, main>>

\* app_wdt_resume_main; the main task puts itself back on the watchdog.
UploadResume ==
    /\ web.pc = "resume"
    /\ s_wdt_paused' = FALSE
    /\ web' = NoTask
    /\ UNCHANGED <<flashVars, reboot, s_state, instVars, s_wdt_on, subscribed, main>>
-----------------------------------------------------------------------------
(***************************************************************************)
(* ota_check_refresh, called by the web server task.                       *)
(***************************************************************************)
CheckBegin ==
    /\ web.pc = "idle"
    /\ web' = [NoTask EXCEPT !.pc = "check"]
    /\ s_state' = "checking"
    /\ UNCHANGED <<flashVars, reboot, instVars, wdtVars, main>>

CheckEnd(v) ==
    /\ web.pc = "check"
    /\ web' = NoTask
    /\ s_state' = IF Offered(v, fw_ver) THEN "available" ELSE "up_to_date"
    /\ UNCHANGED <<flashVars, reboot, instVars, wdtVars, main>>

\* No client, no answer, a status other than 200, a body too large, empty or
\* not JSON, no version in it.
CheckFail ==
    /\ web.pc = "check"
    /\ web' = NoTask
    /\ s_state' = "error"
    /\ UNCHANGED <<flashVars, reboot, instVars, wdtVars, main>>
-----------------------------------------------------------------------------
(***************************************************************************)
(* ota_install_start and ota_install_task.                                 *)
(***************************************************************************)
Inst(pc1) == inst' = [inst EXCEPT !.pc = pc1]

\* install_set_err, after which the task is gone.
InstallFail == s_install' = 2 /\ inst' = NoTask

\* One install at a time; the server has img to offer.
InstallStart(img) ==
    /\ web.pc = "idle" /\ s_install # 1
    /\ s_install' = 1
    /\ inst' = [pc |-> "begin", img |-> img, n |-> 0]
    /\ UNCHANGED <<flashVars, reboot, web, s_state, wdtVars, main>>

\* esp_https_ota_begin and esp_https_ota_get_img_desc have brought the image's
\* descriptor, which is checked: nothing is written yet.  The deadline of the
\* download loop does not cover this part.
InstallBegin ==
    /\ inst.pc = "begin"
    /\ IF HeaderOK(inst.img) THEN Inst("perform") /\ UNCHANGED s_install
                             ELSE InstallFail
    /\ UNCHANGED <<flashVars, reboot, web, s_state, wdtVars, main>>

\* esp_https_ota_perform: the first call refuses an image for another chip,
\* the slot is erased sector by sector ahead of the writes.
InstallPerform ==
    LET p == inst.n + 1
    IN  /\ inst.pc = "perform" /\ p \in Pieces
        /\ IF p = 1 /\ ~inst.img.chip
           THEN InstallFail /\ UNCHANGED slot
           ELSE /\ slot' = [slot EXCEPT ![Passive][p] = inst.img]
                /\ inst' = [inst EXCEPT !.n = p]
                /\ UNCHANGED s_install
        /\ UNCHANGED <<boot, running, fw_ver, reboot, web, s_state, wdtVars, main>>

\* Mutant: the loop has no deadline.
InstallTimeout_Never == FALSE /\ UNCHANGED vars

\* The deadline of the download loop.
InstallTimeout ==
    /\ inst.pc = "perform" /\ inst.n < 2
    /\ InstallFail
    /\ UNCHANGED <<flashVars, reboot, web, s_state, wdtVars, main>>

\* Any other error: connection, descriptor, transfer, incomplete data.
InstallError ==
    /\ inst.pc \in {"begin", "perform"}
    /\ InstallFail
    /\ UNCHANGED <<flashVars, reboot, web, s_state, wdtVars, main>>

\* esp_https_ota_finish: validate the slot, make it the boot slot.
InstallFinish ==
    /\ inst.pc = "perform" /\ inst.n = 2
    /\ IF Verified(Passive)
       THEN boot' = Passive /\ reboot' = TRUE /\ inst' = [NoTask EXCEPT !.pc = "done"] /\ UNCHANGED s_install
       ELSE InstallFail /\ UNCHANGED <<boot, reboot>>
    /\ UNCHANGED <<slot, running, fw_ver, web, s_state, wdtVars, main>>
-----------------------------------------------------------------------------
(***************************************************************************)
(* app_wdt_feed_main, once per second in the main task.                    *)
(***************************************************************************)
FeedTest ==
    /\ main = "sleep" /\ ~s_wdt_paused
    /\ main' = "tested"
    /\ UNCHANGED <<flashVars, reboot, web, s_state, instVars, wdtVars>>

FeedAdd ==
    /\ main = "tested"
    /\ IF s_wdt_on THEN main' = "sleep" /\ UNCHANGED subscribed
                   ELSE main' = "added" /\ subscribed' = TRUE
    /\ UNCHANGED <<flashVars, reboot, web, s_state, instVars, s_wdt_on, s_wdt_paused>>

FeedNote ==
    /\ main = "added"
    /\ s_wdt_on' = TRUE
    /\ main' = "sleep"
    /\ UNCHANGED <<flashVars, reboot, web, s_state, instVars, s_wdt_paused, subscribed>>
-----------------------------------------------------------------------------
(***************************************************************************)
(* Restarts.  The boot loader starts the slot otadata names, and the other *)
(* one when that does not verify.                                          *)
(***************************************************************************)
Booted == IF Verified(boot) THEN boot ELSE Other(boot)

StartUp ==
    /\ running' = Booted /\ fw_ver' = slot[Booted][1].ver
    /\ reboot' = FALSE
    /\ web' = NoTask /\ s_state' = "idle"
    /\ s_install' = 0 /\ inst' = NoTask
    /\ s_wdt_on' = TRUE /\ s_wdt_paused' = FALSE /\ subscribed' = TRUE /\ main' = "sleep"
    /\ UNCHANGED <<slot, boot>>

\* delayed_reboot_task, or the end of ota_install_task.
Restart == reboot /\ StartUp

PowerCut == StartUp

Next ==
    \/ \E img \in Images : UploadPause(img) \/ InstallStart(img)
    \/ UploadPaused \/ UploadBegin \/ UploadRecv \/ UploadEnd \/ UploadSetBoot
    \/ UploadError \/ UploadResume
    \/ CheckBegin \/ CheckFail
    \/ \E v \in Manifests : CheckEnd(v)
    \/ InstallBegin \/ InstallPerform \/ InstallTimeout \/ InstallError \/ InstallFinish
    \/ FeedTest \/ FeedAdd \/ FeedNote
    \/ Restart \/ PowerCut

Spec == Init /\ [][Next]_vars

\* Tasks run and the deadline expires.  Nothing is assumed of the release server
\* or of the peer that uploads: they may stall for ever, the server before it has
\* sent the descriptor too.
FairSpec ==
    /\ Spec
    /\ WF_vars(InstallTimeout) /\ WF_vars(InstallFinish)
    /\ WF_vars(UploadResume)
    /\ WF_vars(FeedTest) /\ WF_vars(FeedAdd) /\ WF_vars(FeedNote)
    /\ WF_vars(Restart)
-----------------------------------------------------------------------------
SlotContent == [Pieces -> Known \cup {Erased, Junk}]
WebState    == [pc : {"idle", "pause", "begin", "recv", "setboot", "resume", "check"},
                img : Known, n : 0..2]
InstState   == [pc : {"idle", "begin", "perform", "done"}, img : Known, n : 0..2]

TypeOK ==
    /\ slot \in [Slots -> SlotContent]
    /\ boot \in Slots /\ running \in Slots /\ reboot \in BOOLEAN
    /\ fw_ver \in {img.ver : img \in Known}
    /\ web \in WebState
    /\ s_state \in {"idle", "checking", "up_to_date", "available", "error"}
    /\ s_install \in 0..2
    /\ inst \in InstState
    /\ s_wdt_on \in BOOLEAN /\ s_wdt_paused \in BOOLEAN /\ subscribed \in BOOLEAN
    /\ main \in {"sleep", "tested", "added"}

\* "it can never brick": whatever an upload and an install write at the same
\* time, and wherever power fails, the next boot finds a whole image.
AlwaysBoots == Verified(Booted)

\* A foreign image is never started: what the next boot runs is this firmware,
\* although validation looks at the slot and not at what was uploaded.
BootsOwnFirmware == Verified(boot) => slot[boot][1].own

\* What a wrong offer would lead to is a downgrade at a click: whatever version the
\* server announces, with parts missing, longer than the buffer or with a suffix,
\* it is offered only if its number is later than the running firmware's
\* (ota_check.c 70-87, 213-226), and a later one that fits is not missed.
OfferIsLater ==
    web.pc = "check" =>
        \A v \in Manifests : /\ Offered(v, fw_ver) => IsLater(v, fw_ver)
                             /\ Len(v) < VER_STR_MAX /\ IsLater(v, fw_ver) => Offered(v, fw_ver)

\* "would otherwise spin the loop forever with s_install stuck at running": a
\* download ends even if the server stalls without closing the connection.  That
\* is the part with the deadline; before it, an install whose server does not send
\* the descriptor stays "running".
InstallEnds == inst.pc = "perform" ~> s_install # 1

\* When no upload runs, the main task gets back on the watchdog.
WatchdogRearmed ==
    web.pc = "idle" ~> subscribed \/ web.pc # "idle"
=============================================================================
