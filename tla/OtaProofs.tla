----------------------------- MODULE OtaProofs -----------------------------
(***************************************************************************)
(* Proofs about module Ota, for any images uploaded or served, whatever    *)
(* they claim to be.                                                       *)
(***************************************************************************)
EXTENDS Ota, TLAPS

(***************************************************************************)
(* The inductive invariant, in parts.                                      *)
(***************************************************************************)

\* Slot s holds a whole image of this firmware.
OwnWhole(s) ==
    \E img \in Known : img.chip /\ img.digest /\ img.own /\ slot[s] = Laid(img)

\* Nobody writes the slot the firmware runs from.
RunningIntact == OwnWhole(running)

\* The header of a foreign image never gets into flash: an upload and an install
\* that write over each other leave own headers, or none.
HeadersOwn == \A s \in Slots : slot[s][1] \in Known => slot[s][1].own

\* The install writes only after it has looked at the descriptor.
InstallChecked == inst.pc = "perform" => inst.img.own

OtaInv == TypeOK /\ RunningIntact /\ HeadersOwn /\ InstallChecked

-----------------------------------------------------------------------------
(***************************************************************************)
(* Lemmas about the two slots.                                             *)
(***************************************************************************)

\* The other slot is another one.
LEMMA OtherSlot ==
    ASSUME NEW s \in Slots
    PROVE  Other(s) \in Slots /\ Other(s) # s /\ Other(Other(s)) = s
  BY DEF Slots, Other

\* An image in a slot is what both pieces of it hold.
LEMMA LaidPieces ==
    ASSUME NEW img \in Known
    PROVE  Laid(img) \in SlotContent /\ Laid(img)[1] = img /\ Laid(img)[2] = img
  BY DEF Laid, SlotContent, Pieces

\* What the boot loader starts: as long as the running slot is intact, a whole
\* image of this firmware.
LEMMA BootedOwn ==
    ASSUME OtaInv
    PROVE  Booted \in Slots /\ OwnWhole(Booted) /\ slot[Booted][1] \in Known
  <1>1. boot \in Slots /\ running \in Slots
    BY DEF OtaInv, TypeOK
  <1>2. ASSUME Verified(boot)
        PROVE  OwnWhole(boot)
    <2>1. PICK img \in Known : img.chip /\ img.digest /\ slot[boot] = Laid(img)
      BY <1>2 DEF Verified
    <2>2. img.own
      BY <1>1, <2>1, LaidPieces DEF OtaInv, HeadersOwn
    <2>3. QED
      BY <2>1, <2>2 DEF OwnWhole
  <1>3. OwnWhole(running) => Verified(running)
    BY DEF OwnWhole, Verified
  <1>4. ASSUME ~Verified(boot)
        PROVE  Other(boot) = running
    <2>1. boot # running
      BY <1>3, <1>4 DEF OtaInv, RunningIntact
    <2>2. QED
      BY <1>1, <2>1 DEF Slots, Other
  <1>5. Booted \in Slots /\ OwnWhole(Booted)
    BY <1>1, <1>2, <1>4 DEF Booted, OtaInv, RunningIntact
  <1>6. OwnWhole(Booted) => slot[Booted][1] \in Known
    BY LaidPieces DEF OwnWhole
  <1>7. QED
    BY <1>5, <1>6

\* Writing the passive slot leaves the running one intact; headers stay own if
\* the new header is.
LEMMA PassiveWritten ==
    ASSUME OtaInv, NEW c \in SlotContent, slot' = [slot EXCEPT ![Passive] = c],
           c[1] \in Known => c[1].own, running' = running
    PROVE  slot' \in [Slots -> SlotContent] /\ RunningIntact' /\ HeadersOwn'
  <1>1. running \in Slots /\ slot \in [Slots -> SlotContent]
    BY DEF OtaInv, TypeOK
  <1>2. Passive \in Slots /\ Passive # running
    BY <1>1, OtherSlot DEF Passive
  <1>3. slot'[running] = slot[running] /\ slot'[Passive] = c
        /\ \A s \in Slots \ {Passive} : slot'[s] = slot[s]
    BY <1>1, <1>2
  <1>4. RunningIntact'
    BY <1>3 DEF OtaInv, RunningIntact, OwnWhole
  <1>5. HeadersOwn'
    BY <1>2, <1>3 DEF OtaInv, HeadersOwn
  <1>6. QED
    BY <1>1, <1>4, <1>5

\* The same for a write of one piece.
LEMMA PieceWritten ==
    ASSUME OtaInv, NEW p \in Pieces, NEW v \in Known \cup {Erased, Junk},
           slot' = [slot EXCEPT ![Passive][p] = v],
           p = 1 /\ v \in Known => v.own, running' = running
    PROVE  slot' \in [Slots -> SlotContent] /\ RunningIntact' /\ HeadersOwn'
  <1> DEFINE c == [slot[Passive] EXCEPT ![p] = v]
  <1>1. running \in Slots /\ slot \in [Slots -> SlotContent] /\ HeadersOwn
    BY DEF OtaInv, TypeOK
  <1>2. Passive \in Slots
    BY <1>1, OtherSlot DEF Passive
  <1>3. slot[Passive] \in SlotContent
    BY <1>1, <1>2
  <1>4. c \in SlotContent /\ c[1] = (IF p = 1 THEN v ELSE slot[Passive][1])
    BY <1>3 DEF SlotContent, Pieces
  <1>5. c[1] \in Known => c[1].own
    BY <1>1, <1>2, <1>4 DEF HeadersOwn
  <1>6. slot' = [slot EXCEPT ![Passive] = c]
    OBVIOUS
  <1> HIDE DEF c
  <1>7. QED
    BY <1>4, <1>5, <1>6, PassiveWritten

-----------------------------------------------------------------------------
(***************************************************************************)
(* The invariant holds initially and every action keeps it.                *)
(***************************************************************************)

LEMMA TaskTypes ==
    /\ NoTask \in WebState /\ NoTask \in InstState
    /\ [NoTask EXCEPT !.pc = "resume"] \in WebState /\ [NoTask EXCEPT !.pc = "check"] \in WebState
    /\ [NoTask EXCEPT !.pc = "done"] \in InstState /\ [NoTask EXCEPT !.pc = "done"].pc = "done"
  <1>1. Factory \in Known
    BY DEF Known
  <1>2. NoTask \in WebState /\ NoTask \in InstState
    BY <1>1 DEF NoTask, WebState, InstState
  <1>3. \A r \in WebState : [r EXCEPT !.pc = "resume"] \in WebState /\ [r EXCEPT !.pc = "check"] \in WebState
    BY DEF WebState
  <1>4. \A r \in InstState : [r EXCEPT !.pc = "done"] \in InstState /\ [r EXCEPT !.pc = "done"].pc = "done"
    BY DEF InstState
  <1>5. QED
    BY <1>2, <1>3, <1>4

LEMMA InitOtaInv == Init => OtaInv
  <1> SUFFICES ASSUME Init
               PROVE  OtaInv
    OBVIOUS
  <1>1. Factory \in Known /\ Erased \notin Known /\ 0 \in Slots
    BY OtaAssumption DEF Known, Slots
  <1>2. /\ slot[0] = Laid(Factory) /\ slot[1] = [p \in Pieces |-> Erased]
        /\ slot \in [Slots -> SlotContent]
    BY <1>1, LaidPieces DEF Init, Slots, SlotContent
  <1>3. fw_ver \in {img.ver : img \in Known} /\ boot \in Slots /\ running \in Slots
    BY <1>1 DEF Init
  <1>4. TypeOK
    <2>1. /\ reboot \in BOOLEAN /\ s_wdt_on \in BOOLEAN /\ s_wdt_paused \in BOOLEAN
          /\ subscribed \in BOOLEAN
      BY DEF Init
    <2>2. /\ web \in WebState /\ inst \in InstState /\ s_install \in 0..2 /\ s_state = "idle"
          /\ main = "sleep"
      BY TaskTypes DEF Init
    <2>3. QED
      BY <1>2, <1>3, <2>1, <2>2 DEF TypeOK
  <1>5. RunningIntact
    BY <1>1, <1>2, OtaAssumption DEF Init, RunningIntact, OwnWhole
  <1>6. HeadersOwn
    BY <1>1, <1>2, LaidPieces, OtaAssumption DEF HeadersOwn, Slots, Pieces
  <1>7. InstallChecked
    BY DEF Init, InstallChecked, NoTask
  <1>8. QED
    BY <1>4, <1>5, <1>6, <1>7 DEF OtaInv

\* Steps of the web server, the watchdog and the install that leave the flash
\* alone.
LEMMA FlashKept ==
    ASSUME OtaInv, UNCHANGED <<slot, running>>
    PROVE  RunningIntact' /\ HeadersOwn'
  BY DEF OtaInv, RunningIntact, HeadersOwn, OwnWhole

\* An upload: POST /api/ota.
LEMMA UploadStep ==
    ASSUME OtaInv,
           \/ \E img \in Images : UploadPause(img)
           \/ UploadPaused \/ UploadBegin \/ UploadRecv \/ UploadEnd \/ UploadSetBoot
           \/ UploadError \/ UploadResume
    PROVE  OtaInv'
  <1> USE DEF flashVars, instVars, wdtVars
  <1>0. TypeOK /\ web \in WebState /\ running \in Slots /\ InstallChecked
    BY DEF OtaInv, TypeOK
  <1>1. UNCHANGED <<running, fw_ver, instVars>>
    BY DEF UploadPause, UploadPaused, UploadBegin, UploadRecv, UploadEnd, UploadSetBoot, UploadError,
           UploadResume
  <1>2. InstallChecked'
    BY <1>0, <1>1 DEF InstallChecked
  <1>3. \A pc1 \in {"recv", "begin", "setboot"} : [web EXCEPT !.pc = pc1] \in WebState
    BY <1>0 DEF WebState
  <1>4. Passive \in Slots
    BY <1>0, OtherSlot DEF Passive
  <1>5. ASSUME NEW img \in Images, UploadPause(img)
        PROVE  OtaInv'
    <2>1. web' \in WebState
      BY <1>5 DEF UploadPause, WebState, Known
    <2>2. QED
      BY <1>0, <1>2, <1>5, <2>1, FlashKept DEF UploadPause, OtaInv, TypeOK
  <1>6. CASE UploadPaused
    <2>1. web' \in WebState
      BY <1>3, <1>6 DEF UploadPaused, Web
    <2>2. QED
      BY <1>0, <1>2, <1>6, <2>1, FlashKept DEF UploadPaused, OtaInv, TypeOK
  <1>7. CASE UploadBegin
    <2>1. web' \in WebState
      BY <1>3, <1>7 DEF UploadBegin, Web
    <2>2. [p \in Pieces |-> Erased] \in SlotContent /\ [p \in Pieces |-> Erased][1] \notin Known
      BY OtaAssumption DEF SlotContent, Pieces
    <2>3. slot' \in [Slots -> SlotContent] /\ RunningIntact' /\ HeadersOwn'
      BY <1>1, <1>7, <2>2, PassiveWritten DEF UploadBegin
    <2>4. QED
      BY <1>0, <1>2, <1>7, <2>1, <2>3 DEF UploadBegin, OtaInv, TypeOK
  <1>8. CASE UploadRecv
    <2> DEFINE p == web.n + 1
    <2>1. CASE Return /\ UNCHANGED slot
      BY <1>0, <1>1, <1>2, <1>8, <2>1, FlashKept, TaskTypes DEF UploadRecv, Return, OtaInv, TypeOK
    <2>2. CASE /\ p = 1 => HeaderOK(web.img)
               /\ slot' = [slot EXCEPT ![Passive][p] = Programmed(@, web.img)]
               /\ web' = [web EXCEPT !.n = p]
      <3> DEFINE v == Programmed(slot[Passive][p], web.img)
      <3>1. p \in Pieces /\ web.img \in Known
        BY <1>0, <1>8 DEF UploadRecv, WebState
      <3>2. v \in Known \cup {Erased, Junk} /\ (v \in Known => v = web.img)
        BY <3>1, OtaAssumption DEF Programmed
      <3>3. p = 1 => web.img.own
        BY <2>2 DEF HeaderOK
      <3>4. slot' = [slot EXCEPT ![Passive][p] = v]
        BY <2>2
      <3> HIDE DEF v
      <3>5. slot' \in [Slots -> SlotContent] /\ RunningIntact' /\ HeadersOwn'
        BY <1>1, <3>1, <3>2, <3>3, <3>4, PieceWritten
      <3>6. web' \in WebState
        BY <1>0, <2>2, <3>1 DEF WebState, Pieces
      <3>7. QED
        BY <1>0, <1>2, <1>8, <3>5, <3>6 DEF UploadRecv, OtaInv, TypeOK
    <2>3. QED
      BY <1>8, <2>1, <2>2 DEF UploadRecv
  <1>9. CASE UploadEnd
    <2>1. web' \in WebState
      BY <1>3, <1>9, TaskTypes DEF UploadEnd, Web, Return
    <2>2. QED
      BY <1>0, <1>2, <1>9, <2>1, FlashKept DEF UploadEnd, OtaInv, TypeOK
  <1>10. CASE UploadSetBoot
    <2>1. web' \in WebState /\ boot' \in Slots /\ reboot' \in BOOLEAN
      BY <1>0, <1>4, <1>10, TaskTypes DEF UploadSetBoot, Return, TypeOK
    <2>2. QED
      BY <1>0, <1>2, <1>10, <2>1, FlashKept DEF UploadSetBoot, OtaInv, TypeOK
  <1>11. CASE UploadError
    BY <1>0, <1>2, <1>11, FlashKept, TaskTypes DEF UploadError, Return, OtaInv, TypeOK
  <1>12. CASE UploadResume
    BY <1>0, <1>2, <1>12, FlashKept, TaskTypes DEF UploadResume, OtaInv, TypeOK
  <1>13. QED
    BY <1>5, <1>6, <1>7, <1>8, <1>9, <1>10, <1>11, <1>12

\* A check of the manifest: /api/update/check.
LEMMA CheckStep ==
    ASSUME OtaInv, CheckBegin \/ CheckFail \/ \E v \in Manifests : CheckEnd(v)
    PROVE  OtaInv'
  <1> USE DEF flashVars, instVars, wdtVars
  <1>0. TypeOK /\ InstallChecked
    BY DEF OtaInv
  <1>1. UNCHANGED <<slot, running, boot, fw_ver, inst, reboot, s_install, wdtVars, main>>
    BY DEF CheckBegin, CheckFail, CheckEnd
  <1>2. web' \in WebState
    BY TaskTypes DEF CheckBegin, CheckFail, CheckEnd
  <1>3. /\ s_state' \in {"checking", "up_to_date", "available", "error"}
    BY <1>0 DEF CheckBegin, CheckFail, CheckEnd, TypeOK
  <1>4. TypeOK' /\ InstallChecked'
    BY <1>0, <1>1, <1>2, <1>3 DEF TypeOK, InstallChecked
  <1>5. QED
    BY <1>1, <1>4, FlashKept DEF OtaInv

\* ota_install_task.
LEMMA InstallStep ==
    ASSUME OtaInv,
           \/ \E img \in Images : InstallStart(img)
           \/ InstallBegin \/ InstallPerform \/ InstallTimeout \/ InstallError \/ InstallFinish
    PROVE  OtaInv'
  <1> USE DEF flashVars, wdtVars
  <1>0. TypeOK /\ inst \in InstState /\ running \in Slots /\ InstallChecked
    BY DEF OtaInv, TypeOK
  <1>1. UNCHANGED <<running, fw_ver, s_state, web, wdtVars, main>>
    BY DEF InstallStart, InstallBegin, InstallPerform, InstallTimeout, InstallError, InstallFinish
  <1>3. Passive \in Slots
    BY <1>0, OtherSlot DEF Passive
  <1>4. ASSUME InstallFail, UNCHANGED <<slot, boot, reboot>>
        PROVE  OtaInv'
    <2>1. InstallChecked'
      BY <1>4 DEF InstallFail, InstallChecked, NoTask
    <2>2. TypeOK'
      BY <1>0, <1>1, <1>4, TaskTypes DEF InstallFail, TypeOK
    <2>3. QED
      BY <1>1, <1>4, <2>1, <2>2, FlashKept DEF OtaInv
  <1>5. ASSUME NEW img \in Images, InstallStart(img)
        PROVE  OtaInv'
    <2>1. inst' \in InstState /\ inst'.pc = "begin"
      BY <1>5 DEF InstallStart, InstState, Known
    <2>2. QED
      BY <1>0, <1>5, <2>1, FlashKept DEF InstallStart, OtaInv, TypeOK, InstallChecked
  <1>6. CASE InstallBegin
    <2>1. CASE HeaderOK(inst.img) /\ Inst("perform") /\ UNCHANGED s_install
      <3>1. inst' \in InstState /\ inst'.img = inst.img /\ inst'.img.own
        BY <1>0, <2>1 DEF Inst, InstState, HeaderOK
      <3>2. QED
        BY <1>0, <1>6, <2>1, <3>1, FlashKept DEF InstallBegin, OtaInv, TypeOK, InstallChecked
    <2>2. QED
      BY <1>4, <1>6, <2>1 DEF InstallBegin
  <1>7. CASE InstallPerform
    <2> DEFINE p == inst.n + 1
    <2>1. CASE /\ slot' = [slot EXCEPT ![Passive][p] = inst.img]
               /\ inst' = [inst EXCEPT !.n = p]
               /\ UNCHANGED s_install
      <3>1. p \in Pieces /\ inst.img \in Known /\ inst.img.own
        BY <1>0, <1>7 DEF InstallPerform, InstState, InstallChecked
      <3>2. slot' \in [Slots -> SlotContent] /\ RunningIntact' /\ HeadersOwn'
        BY <1>1, <2>1, <3>1, PieceWritten
      <3>3. inst' \in InstState /\ inst'.img = inst.img
        BY <1>0, <2>1, <3>1 DEF InstState, Pieces
      <3>4. QED
        BY <1>0, <1>7, <2>1, <3>1, <3>2, <3>3 DEF InstallPerform, OtaInv, TypeOK, InstallChecked
    <2>2. QED
      BY <1>4, <1>7, <2>1 DEF InstallPerform
  <1>8. CASE InstallTimeout \/ InstallError
    BY <1>4, <1>8 DEF InstallTimeout, InstallError
  <1>9. CASE InstallFinish
    <2>1. CASE boot' = Passive /\ reboot' = TRUE /\ inst' = [NoTask EXCEPT !.pc = "done"] /\ UNCHANGED s_install
      <3>1. InstallChecked' /\ UNCHANGED slot
        BY <1>9, <2>1, TaskTypes DEF InstallFinish, InstallChecked
      <3>2. TypeOK'
        BY <1>0, <1>1, <1>3, <2>1, <3>1, TaskTypes DEF TypeOK
      <3>3. QED
        BY <1>1, <3>1, <3>2, FlashKept DEF OtaInv
    <2>2. QED
      BY <1>4, <1>9, <2>1 DEF InstallFinish
  <1>10. QED
    BY <1>5, <1>6, <1>7, <1>8, <1>9

\* The main task's watchdog.
LEMMA FeedStep ==
    ASSUME OtaInv, FeedTest \/ FeedAdd \/ FeedNote
    PROVE  OtaInv'
  <1>1. UNCHANGED <<slot, boot, running, fw_ver, reboot, web, s_state, s_install, inst>>
    BY DEF FeedTest, FeedAdd, FeedNote, flashVars, instVars
  <1>2. TypeOK'
    BY <1>1 DEF FeedTest, FeedAdd, FeedNote, OtaInv, TypeOK, wdtVars
  <1>3. InstallChecked'
    BY <1>1 DEF OtaInv, InstallChecked
  <1>4. QED
    BY <1>1, <1>2, <1>3, FlashKept DEF OtaInv

\* A restart forgets everything but the flash, and runs an own whole image.
LEMMA StartStep ==
    ASSUME OtaInv, StartUp
    PROVE  OtaInv'
  <1>1. Booted \in Slots /\ OwnWhole(Booted) /\ slot[Booted][1] \in Known
    BY BootedOwn
  <1>2. running' = Booted /\ slot' = slot /\ fw_ver' = slot[Booted][1].ver
    BY DEF StartUp
  <1>3. RunningIntact'
    BY <1>1, <1>2 DEF RunningIntact, OwnWhole
  <1>4. HeadersOwn'
    BY <1>2 DEF OtaInv, HeadersOwn
  <1>5. InstallChecked'
    BY DEF StartUp, InstallChecked, NoTask
  <1>6. fw_ver' \in {img.ver : img \in Known}
    BY <1>1, <1>2
  <1>7. TypeOK'
    <2>1. /\ reboot' \in BOOLEAN /\ s_wdt_on' \in BOOLEAN /\ s_wdt_paused' \in BOOLEAN
          /\ subscribed' \in BOOLEAN
      BY DEF StartUp
    <2>2. /\ web' \in WebState /\ inst' \in InstState /\ s_install' \in 0..2 /\ s_state' = "idle"
          /\ main' = "sleep" /\ UNCHANGED <<slot, boot>>
      BY TaskTypes DEF StartUp
    <2>3. slot \in [Slots -> SlotContent] /\ boot \in Slots
      BY DEF OtaInv, TypeOK
    <2>4. QED
      BY <1>1, <1>2, <1>6, <2>1, <2>2, <2>3 DEF TypeOK
  <1>8. QED
    BY <1>3, <1>4, <1>5, <1>7 DEF OtaInv

LEMMA OtaStep == OtaInv /\ [Next]_vars => OtaInv'
  <1> SUFFICES ASSUME OtaInv, [Next]_vars
               PROVE  OtaInv'
    OBVIOUS
  <1>1. CASE UNCHANGED vars
    <2>1. TypeOK' /\ InstallChecked' /\ UNCHANGED <<slot, running>>
      BY <1>1 DEF OtaInv, TypeOK, InstallChecked, vars, flashVars, instVars, wdtVars
    <2>2. QED
      BY <2>1, FlashKept DEF OtaInv
  <1>2. CASE Restart \/ PowerCut
    BY <1>2, StartStep DEF Restart, PowerCut
  <1>3. QED
    BY <1>1, <1>2, UploadStep, CheckStep, InstallStep, FeedStep DEF Next

LEMMA OtaInvariance == Spec => []OtaInv
  BY InitOtaInv, OtaStep, PTL DEF Spec

-----------------------------------------------------------------------------
(***************************************************************************)
(* The theorems.                                                           *)
(***************************************************************************)

\* "It can never brick": whatever an upload and an install write over each
\* other, and wherever power fails, the boot loader finds a whole image.
THEOREM NeverBricks == Spec => []AlwaysBoots
  <1>1. OtaInv => AlwaysBoots
    BY BootedOwn DEF AlwaysBoots, OwnWhole, Verified
  <1>2. QED
    BY <1>1, OtaInvariance, PTL

\* Validation accepts any project's image, so that only the order of header
\* check and first write keeps a foreign image from being started; it does.
THEOREM NoForeignFirmware == Spec => []BootsOwnFirmware
  <1>1. OtaInv => BootsOwnFirmware
    <2> SUFFICES ASSUME OtaInv, Verified(boot)
                 PROVE  slot[boot][1].own
      BY DEF BootsOwnFirmware
    <2>1. PICK img \in Known : slot[boot] = Laid(img)
      BY DEF Verified
    <2>2. QED
      BY <2>1, LaidPieces DEF OtaInv, HeadersOwn, TypeOK
  <1>2. QED
    BY <1>1, OtaInvariance, PTL
=============================================================================
