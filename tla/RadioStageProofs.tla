-------------------------- MODULE RadioStageProofs --------------------------
(***************************************************************************)
(* Proofs about module RadioStage, for any images uploaded, a partition of *)
(* any size and any number of power failures.                              *)
(***************************************************************************)
EXTENDS RadioStage, TLAPS

(***************************************************************************)
(* The inductive invariant, in parts.                                      *)
(***************************************************************************)

\* Image img lies in the partition; the rest of sector 0 may be missing.
Holds(img) ==
    /\ img \in Known /\ img.len \in AppFrom..PartSize /\ img.magic /\ img.desc
    /\ part \in {Laid(img), [Laid(img) EXCEPT ![2] = Erased]}

\* The first page, with the magic, is there only when everything behind sector 0
\* is: the erase takes it first, and the commit puts it back last.
PageIsMarker == part[1] = Erased \/ \E img \in Known : Holds(img)

\* How far an upload has come, and what it has left of the partition.
UploadOK ==
    /\ up.pc # "idle" => host = "run" /\ up.img.len \in AppFrom..PartSize
    /\ up.pc = "erase" => /\ n < PartSize
                          /\ n = 0 \/ (n >= 2 /\ \A p \in 1..n : part[p] = Erased)
    /\ up.pc \in {"recv", "commit"} =>
          /\ part = [p \in Pieces |-> IF 3 <= p /\ p <= n THEN up.img ELSE Erased]
          /\ n <= up.img.len
          /\ n >= 2 => up.img.magic
    /\ up.pc = "commit" => n = up.img.len /\ up.img.desc
    /\ up.pc = "torn" => Holds(up.img) /\ part = [Laid(up.img) EXCEPT ![2] = Erased]

\* From the acceptance of an image to the end of the sync the partition is not
\* touched, and the radio has what was written so far.
SyncOK ==
    /\ Accepted => Usable
    /\ host \in {"erase", "write"} => ~fresh
    /\ host = "erase" => n < ImgSize
    /\ host = "write" => n <= ImgSize /\ \A p \in 1..n : radio[p] = part[p]

\* A sync that was reported and not undone since: the radio has the application.
FreshOK ==
    fresh => \E img \in Known : Holds(img) /\ \A p \in AppFrom..img.len : radio[p] = img

StageInv ==
    TypeOK /\ PageIsMarker /\ UploadOK /\ SyncOK /\ FreshOK /\ NoNeedlessRewrite

-----------------------------------------------------------------------------
(***************************************************************************)
(* Lemmas about the content of the partition.                              *)
(***************************************************************************)

\* What the pieces of a partition hold that holds img.
LEMMA HeldPieces ==
    ASSUME NEW img, Holds(img)
    PROVE  /\ img \in Known /\ img # Erased /\ img.len \in Nat
           /\ AppFrom <= img.len /\ img.len <= PartSize
           /\ part \in [Pieces -> Cell]
           /\ part[1] = img /\ part[AppFrom] = img
           /\ \A p \in Pieces : /\ p > img.len => part[p] = Erased
                                /\ p <= img.len /\ p # 2 => part[p] = img
  <1>1. /\ img \in Known /\ img # Erased /\ img.len \in Nat /\ PartSize \in Nat
        /\ AppFrom <= img.len /\ img.len <= PartSize /\ 1 \in Pieces /\ AppFrom \in Pieces
    BY RadioStageAssumption DEF Holds, AppFrom, Pieces
  <1>2. Laid(img) \in [Pieces -> Cell]
    BY <1>1 DEF Laid, Cell
  <1>3. part \in [Pieces -> Cell] /\ \A p \in Pieces : p # 2 => part[p] = Laid(img)[p]
    BY <1>1, <1>2 DEF Holds, Cell
  <1>4. part[2] \in {Laid(img)[2], Erased}
    BY <1>1, <1>2 DEF Holds, Pieces, AppFrom
  <1>5. \A p \in Pieces : Laid(img)[p] = (IF p <= img.len THEN img ELSE Erased)
    BY DEF Laid
  <1>6. \A p \in Pieces : /\ p > img.len => part[p] = Erased
                          /\ p <= img.len /\ p # 2 => part[p] = img
    BY <1>1, <1>3, <1>4, <1>5 DEF Pieces, AppFrom
  <1>7. QED
    BY <1>1, <1>3, <1>6 DEF AppFrom, Pieces

\* The application of the image that is held.
LEMMA AppHeld ==
    ASSUME NEW img, Holds(img), NEW p \in AppFrom..img.len
    PROVE  p \in Pieces /\ part[p] = img
  <1>1. p \in Pieces /\ p <= img.len /\ p # 2
    BY HeldPieces, RadioStageAssumption DEF Pieces, AppFrom
  <1>2. QED
    BY <1>1, HeldPieces

\* img_size finds the end of the image.
LEMMA ImgSizeHeld ==
    ASSUME NEW img, Holds(img)
    PROVE  ImgSize = img.len
  <1> DEFINE used == {p \in Pieces : part[p] # Erased}
  <1>1. img.len \in used /\ \A q \in used : q <= img.len
    BY HeldPieces, RadioStageAssumption DEF Pieces, AppFrom
  <1>2. used # {} /\ used \subseteq Nat
    BY <1>1, RadioStageAssumption DEF Pieces
  <1>3. ImgSize = CHOOSE p \in used : \A q \in used : q <= p
    BY <1>2 DEF ImgSize
  <1>4. \A p \in used : (\A q \in used : q <= p) => p = img.len
    BY <1>1, <1>2
  <1> HIDE DEF used
  <1>5. QED
    BY <1>1, <1>3, <1>4

\* A usable partition holds an image, and its size is known.
LEMMA UsableHolds ==
    ASSUME PageIsMarker, Usable
    PROVE  \E img \in Known : Holds(img) /\ ImgSize = img.len
  BY ImgSizeHeld DEF PageIsMarker, Usable

\* A step that leaves the partition alone.
LEMMA PartKept ==
    ASSUME part' = part
    PROVE  /\ \A img : Holds(img)' <=> Holds(img)
           /\ PageIsMarker => PageIsMarker'
           /\ ImgSize' = ImgSize /\ (Usable' <=> Usable)
           /\ radio' = radio /\ (fresh' => fresh) /\ FreshOK => FreshOK'
  <1>1. \A img : Holds(img)' <=> Holds(img)
    BY DEF Holds
  <1>2. ImgSize' = ImgSize
    BY DEF ImgSize
  <1>3. Usable' <=> Usable
    BY <1>2 DEF Usable
  <1>4. QED
    BY <1>1, <1>2, <1>3 DEF PageIsMarker, FreshOK

\* Only an idle upload lets the host boot.
LEMMA BootIdle ==
    ASSUME TypeOK, UploadOK, host # "run"
    PROVE  up.pc = "idle"
  BY DEF UploadOK

LEMMA NoUploadType == NoUpload \in UploadState /\ NoUpload.pc = "idle"
  BY DEF NoUpload, UploadState, Known, None

LEMMA InitStageInv == Init => StageInv
  <1> SUFFICES ASSUME Init
               PROVE  StageInv
    OBVIOUS
  <1> USE RadioStageAssumption
  <1>1. Factory \in Known /\ PartSize \in Nat /\ PartSize > 4
    BY DEF Known, AppFrom
  <1>2. Holds(Factory)
    BY <1>1 DEF Init, Holds
  <1>3. part \in [Pieces -> Cell] /\ radio \in [Pieces -> Cell \cup {Cal}]
    BY <1>1 DEF Init, Laid, Cell
  <1>4. TypeOK
    <2>1. n \in 0..PartSize /\ cuts \in 0..MaxCuts /\ host \in HostState
      BY <1>1 DEF Init, HostState
    <2>2. {restart, verr, fresh} \subseteq BOOLEAN
      BY DEF Init
    <2>3. QED
      BY <1>3, <2>1, <2>2, NoUploadType DEF Init, TypeOK
  <1>5. PageIsMarker /\ FreshOK /\ NoNeedlessRewrite
    BY <1>1, <1>2 DEF Init, PageIsMarker, FreshOK, NoNeedlessRewrite
  <1>6. UploadOK /\ SyncOK
    BY NoUploadType DEF Init, UploadOK, SyncOK, Accepted
  <1>7. QED
    BY <1>4, <1>5, <1>6 DEF StageInv

-----------------------------------------------------------------------------
(***************************************************************************)
(* Every action keeps the invariant.                                       *)
(***************************************************************************)

\* An upload runs while the host does not boot: nothing of the sync is disturbed.
LEMMA UploadRuns ==
    ASSUME host' = host, host = "run"
    PROVE  SyncOK' /\ NoNeedlessRewrite'
  BY DEF SyncOK, Accepted, NoNeedlessRewrite

\* An image that is not in the partition has not been synced.
LEMMA NotFresh ==
    ASSUME FreshOK, part[1] = Erased
    PROVE  ~fresh
  BY HeldPieces DEF FreshOK

LEMMA FailStep ==
    ASSUME StageInv, up.pc # "idle", Fail, UNCHANGED bootVars
    PROVE  StageInv'
  <1>1. host = "run" /\ host' = host
    BY DEF StageInv, UploadOK, bootVars
  <1>2. TypeOK'
    BY NoUploadType, RadioStageAssumption DEF StageInv, TypeOK, Fail, bootVars
  <1>3. PageIsMarker' /\ FreshOK'
    BY PartKept DEF StageInv, Fail, bootVars
  <1>4. UploadOK'
    BY NoUploadType DEF Fail, UploadOK
  <1>5. QED
    BY <1>1, <1>2, <1>3, <1>4, UploadRuns DEF StageInv

LEMMA BeginStep ==
    ASSUME StageInv, NEW img \in Images, UploadBegin(img)
    PROVE  StageInv'
  <1>1. part' = part /\ host = "run" /\ host' = host /\ up'.pc = "erase" /\ up'.img = img /\ n' = 0
    BY DEF UploadBegin, bootVars
  <1>2. up' \in UploadState
    <2>1. part[1] # Erased => part[1] \in Known
      BY RadioStageAssumption DEF StageInv, TypeOK, Pieces, AppFrom, Cell
    <2>2. (IF part[1] # Erased /\ part[1].magic THEN part[1].chip ELSE None) \in Nat
      BY <2>1, RadioStageAssumption DEF None
    <2>3. QED
      BY <2>2 DEF UploadBegin, UploadState, Known
  <1>3. TypeOK'
    BY <1>1, <1>2, RadioStageAssumption DEF UploadBegin, StageInv, TypeOK, bootVars
  <1>4. PageIsMarker' /\ FreshOK'
    BY PartKept DEF StageInv, UploadBegin, bootVars
  <1>5. UploadOK'
    BY <1>1, RadioStageAssumption DEF UploadBegin, UploadOK, AppFrom
  <1>6. QED
    BY <1>1, <1>3, <1>4, <1>5, UploadRuns DEF StageInv

LEMMA EraseStep ==
    ASSUME StageInv, UploadErase
    PROVE  StageInv'
  <1> DEFINE m == IF n = 0 THEN 2 ELSE n + 1
  <1>0. /\ n \in 0..PartSize /\ PartSize \in Nat /\ PartSize > 4 /\ up \in UploadState
        /\ part \in [Pieces -> Cell] /\ host = "run" /\ host' = host
        /\ up.pc = "erase" /\ up.img.len \in AppFrom..PartSize /\ n < PartSize
        /\ n = 0 \/ n >= 2
    BY RadioStageAssumption DEF StageInv, TypeOK, UploadOK, UploadErase, AppFrom, bootVars
  <1>1. m \in 2..PartSize
    BY <1>0
  <1>2. /\ part' = [p \in Pieces |-> IF p <= m THEN Erased ELSE part[p]]
        /\ n' = (IF m = PartSize THEN 0 ELSE m)
        /\ up' = [up EXCEPT !.pc = IF m = PartSize THEN "recv" ELSE "erase"]
        /\ fresh' = FALSE /\ UNCHANGED <<restart, bootVars>>
    BY DEF UploadErase
  <1>3. /\ up' \in UploadState /\ up'.img = up.img
        /\ up'.pc = (IF m = PartSize THEN "recv" ELSE "erase")
    BY <1>0, <1>2 DEF UploadState
  <1> HIDE DEF m
  <1>4. TypeOK'
    <2>1. part' \in [Pieces -> Cell] /\ n' \in 0..PartSize
      BY <1>0, <1>1, <1>2 DEF Cell
    <2>2. QED
      BY <1>2, <1>3, <2>1 DEF StageInv, TypeOK, bootVars
  <1>5. PageIsMarker' /\ FreshOK'
    BY <1>0, <1>1, <1>2 DEF PageIsMarker, FreshOK, Pieces
  <1>6. UploadOK'
    <2>1. CASE m = PartSize
      <3>1. part' = [p \in Pieces |-> IF 3 <= p /\ p <= 0 THEN up.img ELSE Erased]
        BY <1>0, <1>2, <2>1 DEF Pieces
      <3>2. QED
        BY <1>0, <1>2, <1>3, <2>1, <3>1 DEF UploadOK, AppFrom
    <2>2. CASE m # PartSize
      <3>1. \A p \in 1..m : part'[p] = Erased
        BY <1>0, <1>1, <1>2 DEF Pieces
      <3>2. QED
        BY <1>0, <1>1, <1>2, <1>3, <2>2, <3>1 DEF UploadOK
    <2>3. QED
      BY <2>1, <2>2
  <1>7. QED
    BY <1>0, <1>4, <1>5, <1>6, UploadRuns DEF StageInv

LEMMA RecvStep ==
    ASSUME StageInv, UploadRecv
    PROVE  StageInv'
  <1>0. /\ n \in 0..PartSize /\ PartSize \in Nat /\ PartSize > 4 /\ up \in UploadState
        /\ up.pc = "recv" /\ host = "run" /\ host' = host
        /\ up.img.len \in Nat /\ up.img.len <= PartSize /\ n < up.img.len
        /\ up.img.len \in AppFrom..PartSize /\ up.img \in Known
        /\ part = [p \in Pieces |-> IF 3 <= p /\ p <= n THEN up.img ELSE Erased]
        /\ n >= 2 => up.img.magic
    BY RadioStageAssumption DEF StageInv, TypeOK, UploadOK, UploadRecv, AppFrom, bootVars, UploadState
  <1>1. ~fresh
    BY <1>0, NotFresh DEF StageInv, Pieces
  <1>2. CASE Fail
    BY <1>0, <1>2, FailStep DEF UploadRecv
  <1>3. CASE /\ n + 1 = 2 => HeaderOK
             /\ n' = n + 1
             /\ part' = IF n + 1 <= 2 THEN part ELSE [part EXCEPT ![n + 1] = up.img]
             /\ UNCHANGED <<up, restart, fresh>>
    <2>1. part' = [p \in Pieces |-> IF 3 <= p /\ p <= n' THEN up.img ELSE Erased]
      <3>1. CASE n + 1 <= 2
        <4>1. \A p \in Pieces : 3 <= p /\ p <= n <=> 3 <= p /\ p <= n'
          BY <1>0, <1>3, <3>1 DEF Pieces
        <4>2. QED
          BY <1>0, <1>3, <3>1, <4>1
      <3>2. CASE ~(n + 1 <= 2)
        <4>1. part' = [p \in Pieces |-> IF p = n + 1 THEN up.img ELSE part[p]]
          BY <1>0, <1>3, <3>2
        <4>2. \A p \in Pieces : part[p] = IF 3 <= p /\ p <= n THEN up.img ELSE Erased
          BY <1>0
        <4>3. \A p \in Pieces : (IF p = n + 1 THEN up.img ELSE part[p])
                                = IF 3 <= p /\ p <= n' THEN up.img ELSE Erased
          BY <1>0, <1>3, <3>2, <4>2 DEF Pieces
        <4>4. QED
          BY <4>1, <4>3
      <3>3. QED
        BY <3>1, <3>2
    <2>2. n' >= 2 => up.img.magic
      BY <1>0, <1>3 DEF HeaderOK
    <2>3. UploadOK'
      BY <1>0, <1>3, <2>1, <2>2 DEF UploadOK
    <2>4. PageIsMarker' /\ FreshOK'
      BY <1>0, <1>1, <1>3, <2>1 DEF PageIsMarker, FreshOK, Pieces
    <2>5. TypeOK'
      <3>1. n' \in 0..PartSize
        BY <1>0, <1>3
      <3>2. part' \in [Pieces -> Cell]
        BY <1>0, <2>1 DEF Cell
      <3>3. QED
        BY <1>3, <3>1, <3>2 DEF UploadRecv, StageInv, TypeOK, bootVars
    <2>6. QED
      BY <1>0, <2>3, <2>4, <2>5, UploadRuns DEF StageInv
  <1>4. QED
    BY <1>2, <1>3 DEF UploadRecv

LEMMA VerifyStep ==
    ASSUME StageInv, UploadVerify
    PROVE  StageInv'
  <1>0. /\ up \in UploadState /\ up.pc = "recv" /\ n = up.img.len /\ host = "run" /\ host' = host
        /\ up.img.len \in AppFrom..PartSize /\ PartSize \in Nat /\ PartSize > 4
        /\ part = [p \in Pieces |-> IF 3 <= p /\ p <= n THEN up.img ELSE Erased]
        /\ n >= 2 => up.img.magic
    BY RadioStageAssumption DEF StageInv, TypeOK, UploadOK, UploadVerify, AppFrom, bootVars
  <1>1. CASE Fail
    BY <1>0, <1>1, FailStep DEF UploadVerify
  <1>2. CASE /\ part[AppFrom].desc
             /\ up' = [up EXCEPT !.pc = "commit"] /\ UNCHANGED <<part, restart, n, fresh>>
    <2>1. part[AppFrom] = up.img
      BY <1>0 DEF Pieces, AppFrom
    <2>2. up' \in UploadState /\ up'.pc = "commit" /\ up'.img = up.img
      BY <1>0, <1>2 DEF UploadState
    <2>3. UploadOK'
      BY <1>0, <1>2, <2>1, <2>2 DEF UploadOK, AppFrom
    <2>4. PageIsMarker' /\ FreshOK'
      BY <1>2, PartKept DEF UploadVerify, StageInv, bootVars
    <2>5. TypeOK'
      BY <1>2, <2>2 DEF UploadVerify, StageInv, TypeOK, bootVars
    <2>6. QED
      BY <1>0, <2>3, <2>4, <2>5, UploadRuns DEF StageInv
  <1>3. QED
    BY <1>1, <1>2 DEF UploadVerify

LEMMA CommitStep ==
    ASSUME StageInv, CommitFirstPage \/ Commit
    PROVE  StageInv'
  <1>0. /\ up \in UploadState /\ up.pc \in {"commit", "torn"} /\ host = "run" /\ host' = host
        /\ PartSize \in Nat /\ PartSize > 4 /\ part \in [Pieces -> Cell] /\ up.img \in Known
        /\ UNCHANGED <<radio, fresh, bootVars>>
    BY RadioStageAssumption
       DEF StageInv, TypeOK, UploadOK, CommitFirstPage, Commit, AppFrom, bootVars, UploadState
  <1>1. CASE CommitFirstPage
    <2>1. /\ up.pc = "commit" /\ n = up.img.len /\ up.img.desc
          /\ up.img.len \in 4..PartSize /\ up.img.magic
          /\ part = [p \in Pieces |-> IF 3 <= p /\ p <= n THEN up.img ELSE Erased]
      BY <1>1 DEF CommitFirstPage, StageInv, UploadOK, AppFrom
    <2>2. part' = [Laid(up.img) EXCEPT ![2] = Erased]
      <3>1. part' = [p \in Pieces |-> IF p = 1 THEN up.img ELSE part[p]]
        BY <1>0, <1>1 DEF CommitFirstPage
      <3>2. [Laid(up.img) EXCEPT ![2] = Erased] = [p \in Pieces |-> IF p = 2 THEN Erased ELSE Laid(up.img)[p]]
        BY DEF Laid
      <3>3. \A p \in Pieces : Laid(up.img)[p] = IF p <= n THEN up.img ELSE Erased
        BY <2>1 DEF Laid
      <3>4. \A p \in Pieces : part[p] = IF 3 <= p /\ p <= n THEN up.img ELSE Erased
        BY <2>1
      <3>5. \A p \in Pieces : (IF p = 1 THEN up.img ELSE part[p])
                              = IF p = 2 THEN Erased ELSE Laid(up.img)[p]
        BY <1>0, <2>1, <3>3, <3>4 DEF Pieces
      <3>6. QED
        BY <3>1, <3>2, <3>5
    <2>3. up' \in UploadState /\ up'.img = up.img /\ up'.pc = "torn" /\ UNCHANGED <<n, restart>>
      BY <1>0, <1>1 DEF CommitFirstPage, UploadState
    <2>4. Holds(up.img)'
      BY <1>0, <2>1, <2>2, <2>3 DEF Holds, AppFrom
    <2>5. ~fresh
      BY <1>0, <2>1, NotFresh DEF StageInv, Pieces
    <2>6. UploadOK' /\ PageIsMarker' /\ FreshOK'
      BY <1>0, <2>1, <2>2, <2>3, <2>4, <2>5 DEF UploadOK, PageIsMarker, FreshOK, AppFrom
    <2>7. TypeOK'
      <3>1. part' \in [Pieces -> Cell]
        BY <1>0, <1>1 DEF CommitFirstPage, Cell
      <3>2. QED
        BY <1>0, <2>3, <3>1 DEF StageInv, TypeOK, bootVars
    <2>8. QED
      BY <1>0, <2>6, <2>7, UploadRuns DEF StageInv
  <1>2. CASE Commit
    <2>1. Holds(up.img) /\ part = [Laid(up.img) EXCEPT ![2] = Erased]
      BY <1>2 DEF Commit, StageInv, UploadOK
    <2>2. part' = Laid(up.img)
      <3>1. part' = [part EXCEPT ![2] = up.img]
        BY <1>2 DEF Commit
      <3>2. part' = [p \in Pieces |-> IF p = 2 THEN up.img ELSE part[p]]
        BY <1>0, <3>1
      <3>3. \A p \in Pieces : part[p] = IF p = 2 THEN Erased ELSE Laid(up.img)[p]
        BY <2>1 DEF Laid
      <3>4. \A p \in Pieces : Laid(up.img)[p] = IF p <= up.img.len THEN up.img ELSE Erased
        BY DEF Laid
      <3>5. 2 <= up.img.len
        BY <2>1, HeldPieces DEF AppFrom
      <3>6. \A p \in Pieces : (IF p = 2 THEN up.img ELSE part[p])
                              = IF p <= up.img.len THEN up.img ELSE Erased
        BY <3>3, <3>4, <3>5 DEF Pieces
      <3>7. QED
        BY <3>2, <3>6 DEF Laid
    <2>3. PICK img \in Known : /\ img = up.img /\ img.len \in AppFrom..PartSize
                               /\ img.magic /\ img.desc /\ part[1] = img
      BY <1>0, <2>1, HeldPieces DEF Holds
    <2>4. Holds(img)'
      <3>1. part' = Laid(img)
        BY <2>2, <2>3
      <3>2. QED
        BY <2>3, <3>1 DEF Holds
    <2>5. UploadOK' /\ n' = 0 /\ up' \in UploadState /\ restart' = TRUE
      BY <1>2, NoUploadType DEF Commit, UploadOK
    <2>6. PageIsMarker'
      BY <2>3, <2>4 DEF PageIsMarker
    <2>7. FreshOK'
      <3>1. SUFFICES ASSUME fresh
                     PROVE  \A p \in AppFrom..img.len : radio[p] = img
        BY <1>0, <2>3, <2>4 DEF FreshOK
      <3>2. PICK b \in Known : Holds(b) /\ \A p \in AppFrom..b.len : radio[p] = b
        BY <3>1 DEF StageInv, FreshOK
      <3>3. b = img
        BY <2>3, <3>2, HeldPieces
      <3>4. QED
        BY <3>2, <3>3
    <2>8. TypeOK'
      <3>1. part' \in [Pieces -> Cell] /\ n' \in 0..PartSize
        BY <1>0, <2>2, <2>5 DEF Cell, Laid
      <3>2. {restart', verr', fresh'} \subseteq BOOLEAN
        BY <1>0, <2>5 DEF StageInv, TypeOK, bootVars
      <3>3. QED
        BY <1>0, <2>5, <3>1, <3>2 DEF StageInv, TypeOK, bootVars
    <2>9. QED
      BY <1>0, <2>5, <2>6, <2>7, <2>8, UploadRuns DEF StageInv
  <1>3. QED
    BY <1>1, <1>2

\* The end of the sync, whatever the outcome.
LEMMA DoneStep ==
    ASSUME StageInv, host # "run", NEW synced \in BOOLEAN, Done(synced),
           synced => Accepted /\ \A p \in AppFrom..ImgSize : radio[p] = part[p]
    PROVE  StageInv'
  <1>1. /\ host' = "run" /\ n' = 0 /\ fresh' = (fresh \/ synced)
        /\ UNCHANGED <<part, up, restart, cuts, radio, verr>>
    BY DEF Done, stageVars
  <1>2. PageIsMarker'
    BY <1>1, PartKept DEF StageInv
  <1>3. UploadOK'
    BY <1>1, BootIdle DEF StageInv, UploadOK
  <1>4. SyncOK' /\ NoNeedlessRewrite'
    BY <1>1 DEF SyncOK, Accepted, NoNeedlessRewrite
  <1>5. FreshOK'
    <2>1. CASE fresh
      <3>1. PICK img \in Known : Holds(img) /\ \A p \in AppFrom..img.len : radio[p] = img
        BY <2>1 DEF StageInv, FreshOK
      <3>2. Holds(img)'
        BY <1>1, <3>1, PartKept
      <3>3. QED
        BY <1>1, <3>1, <3>2 DEF FreshOK
    <2>2. CASE synced
      <3>1. PICK img \in Known : Holds(img) /\ ImgSize = img.len
        BY <2>2, UsableHolds DEF StageInv, SyncOK
      <3>2. Holds(img)'
        BY <1>1, <3>1, PartKept
      <3>3. \A p \in AppFrom..img.len : radio[p] = img
        BY <2>2, <3>1, AppHeld
      <3>4. QED
        BY <1>1, <3>2, <3>3 DEF FreshOK
    <2>3. QED
      BY <1>1, <2>1, <2>2 DEF FreshOK
  <1>6. TypeOK'
    <2>1. fresh' \in BOOLEAN
      BY <1>1
    <2>2. n' \in 0..PartSize /\ host' \in HostState
      BY <1>1, RadioStageAssumption DEF HostState
    <2>3. QED
      BY <1>1, <2>1, <2>2 DEF StageInv, TypeOK
  <1>7. QED
    BY <1>2, <1>3, <1>4, <1>5, <1>6 DEF StageInv

\* A step of the sync towards the radio, before anything is written.
LEMMA AheadStep ==
    ASSUME StageInv, host # "run", NEW h \in {"connect", "verify", "start"}, host' = h, Usable,
           UNCHANGED <<part, up, restart, cuts, radio, n, fresh>>, verr' \in BOOLEAN,
           h = "start" /\ ~verr' => ~fresh
    PROVE  StageInv'
  <1>1. PageIsMarker' /\ FreshOK' /\ Usable'
    BY PartKept DEF StageInv
  <1>2. UploadOK'
    BY BootIdle DEF StageInv, UploadOK
  <1>3. SyncOK' /\ NoNeedlessRewrite'
    BY <1>1 DEF SyncOK, Accepted, NoNeedlessRewrite
  <1>4. TypeOK'
    BY DEF StageInv, TypeOK, HostState
  <1>5. QED
    BY <1>1, <1>2, <1>3, <1>4 DEF StageInv

LEMMA SyncStep ==
    ASSUME StageInv, Sync
    PROVE  StageInv'
  <1> USE DEF stageVars
  <1>0. host # "run" /\ verr \in BOOLEAN
    BY DEF StageInv, TypeOK, Sync, SyncCheck, SyncConnect, SyncVerify, FlashStart, FlashErase, ErasePiece, EraseTimeout,
           FlashWrite, FlashFinish
  <1>a. ASSUME Accepted
        PROVE  \E img \in Known : Holds(img) /\ ImgSize = img.len
    BY <1>a, UsableHolds DEF StageInv, SyncOK
  <1>1. CASE SyncCheck
    BY <1>0, <1>1, DoneStep, AheadStep DEF SyncCheck
  <1>2. CASE SyncConnect
    <2>1. Usable
      BY <1>2 DEF SyncConnect, StageInv, SyncOK, Accepted
    <2>2. QED
      BY <1>0, <1>2, <2>1, DoneStep, AheadStep DEF SyncConnect
  <1>3. CASE SyncVerify
    <2>1. Usable /\ Accepted /\ host = "verify"
      BY <1>3 DEF SyncVerify, StageInv, SyncOK, Accepted
    <2>2. CASE AppMatches /\ Done(TRUE)
      BY <1>0, <2>1, <2>2, DoneStep DEF AppMatches
    <2>3. CASE /\ host' = "start" /\ verr' \in {FALSE, TRUE}
               /\ verr' \/ ~AppMatches
               /\ UNCHANGED <<stageVars, radio, n, fresh>>
      <3>1. fresh => AppMatches
        <4>1. SUFFICES ASSUME fresh
                       PROVE  AppMatches
          OBVIOUS
        <4>2. PICK img \in Known : Holds(img) /\ \A p \in AppFrom..img.len : radio[p] = img
          BY <4>1 DEF StageInv, FreshOK
        <4>3. QED
          BY <4>2, AppHeld, ImgSizeHeld DEF AppMatches
      <3>2. verr' \in BOOLEAN
        BY <2>3
      <3>3. ~verr' => ~fresh
        BY <2>3, <3>1
      <3>4. QED
        BY <1>0, <2>1, <2>3, <3>2, <3>3, AheadStep
    <2>4. QED
      BY <1>3, <2>2, <2>3 DEF SyncVerify
  <1>4. CASE FlashStart
    <2>1. CASE /\ host' = "erase" /\ n' = 0 /\ fresh' = FALSE
               /\ UNCHANGED <<stageVars, radio, verr>>
      <3>1. PICK img \in Known : Holds(img) /\ ImgSize = img.len
        BY <1>4, <1>a DEF FlashStart, Accepted
      <3>2. 0 < ImgSize
        BY <3>1, HeldPieces DEF AppFrom
      <3>3. PageIsMarker' /\ ImgSize' = ImgSize /\ (Usable' <=> Usable)
        BY <2>1, PartKept DEF StageInv
      <3>4. Usable
        BY <1>4 DEF FlashStart, StageInv, SyncOK, Accepted
      <3>5. SyncOK' /\ FreshOK' /\ NoNeedlessRewrite'
        BY <2>1, <3>2, <3>3, <3>4 DEF SyncOK, FreshOK, NoNeedlessRewrite
      <3>6. UploadOK'
        BY <1>0, <2>1, BootIdle DEF StageInv, UploadOK
      <3>7. TypeOK'
        <4>1. n' \in 0..PartSize /\ host' \in HostState
          BY <2>1, RadioStageAssumption DEF HostState
        <4>2. {restart', verr', fresh'} \subseteq BOOLEAN
          BY <2>1 DEF StageInv, TypeOK
        <4>3. QED
          BY <2>1, <4>1, <4>2 DEF StageInv, TypeOK
      <3>8. QED
        BY <3>3, <3>5, <3>6, <3>7 DEF StageInv
    <2>2. QED
      BY <1>0, <1>4, <2>1, DoneStep DEF FlashStart
  <1>5. CASE ErasePiece
    <2>1. PICK img \in Known : Holds(img) /\ ImgSize = img.len
      BY <1>5, <1>a DEF ErasePiece, Accepted
    <2>2. /\ ImgSize \in Nat /\ ImgSize <= PartSize /\ n \in Nat /\ n < ImgSize /\ ~fresh /\ Usable
          /\ PartSize \in Nat /\ host = "erase" /\ radio \in [Pieces -> Cell \cup {Cal}]
      BY <1>5, <2>1, HeldPieces, RadioStageAssumption
         DEF ErasePiece, StageInv, TypeOK, SyncOK, Accepted
    <2>3. PageIsMarker' /\ ImgSize' = ImgSize /\ (Usable' <=> Usable)
      BY <1>5, PartKept DEF ErasePiece, StageInv
    <2>4. /\ n' = (IF n + 1 = ImgSize THEN 0 ELSE n + 1)
          /\ host' = (IF n + 1 = ImgSize THEN "write" ELSE "erase")
          /\ UNCHANGED <<stageVars, verr, fresh>>
      BY <1>5 DEF ErasePiece
    <2>5. SyncOK' /\ FreshOK' /\ NoNeedlessRewrite'
      BY <2>2, <2>3, <2>4 DEF SyncOK, FreshOK, NoNeedlessRewrite
    <2>6. UploadOK'
      BY <1>0, <2>4, BootIdle DEF StageInv, UploadOK
    <2>7. TypeOK'
      <3>1. radio' \in [Pieces -> Cell \cup {Cal}]
        BY <1>5, <2>2 DEF ErasePiece, Cell
      <3>2. n' \in 0..PartSize /\ host' \in HostState
        BY <2>2, <2>4 DEF HostState
      <3>3. QED
        BY <2>4, <3>1, <3>2 DEF StageInv, TypeOK
    <2>8. QED
      BY <2>3, <2>5, <2>6, <2>7 DEF StageInv
  <1>6. CASE FlashWrite
    <2>1. CASE /\ n' = n + 1 /\ radio' = [radio EXCEPT ![n + 1] = part[n + 1]]
               /\ UNCHANGED <<stageVars, host, verr, fresh>>
      <3>1. PICK img \in Known : Holds(img) /\ ImgSize = img.len
        BY <1>6, <1>a DEF FlashWrite, Accepted
      <3>2. /\ ImgSize \in Nat /\ ImgSize <= PartSize /\ n \in Nat /\ n < ImgSize /\ ~fresh /\ Usable
            /\ PartSize \in Nat /\ host = "write" /\ radio \in [Pieces -> Cell \cup {Cal}]
            /\ part \in [Pieces -> Cell] /\ \A p \in 1..n : radio[p] = part[p]
        BY <1>6, <3>1, HeldPieces, RadioStageAssumption
           DEF FlashWrite, StageInv, TypeOK, SyncOK, Accepted
      <3>3. PageIsMarker' /\ ImgSize' = ImgSize /\ (Usable' <=> Usable)
        BY <2>1, PartKept DEF StageInv
      <3>4. \A p \in 1..n' : radio'[p] = part[p]
        BY <2>1, <3>2 DEF Pieces
      <3>5. SyncOK' /\ FreshOK' /\ NoNeedlessRewrite'
        BY <2>1, <3>2, <3>3, <3>4 DEF SyncOK, FreshOK, NoNeedlessRewrite
      <3>6. UploadOK'
        BY <1>0, <2>1, BootIdle DEF StageInv, UploadOK
      <3>7. TypeOK'
        <4>1. radio' \in [Pieces -> Cell \cup {Cal}] /\ n' \in 0..PartSize
          BY <2>1, <3>2 DEF Pieces
        <4>2. QED
          BY <2>1, <4>1 DEF StageInv, TypeOK
      <3>8. QED
        BY <3>3, <3>5, <3>6, <3>7 DEF StageInv
    <2>2. QED
      BY <1>0, <1>6, <2>1, DoneStep DEF FlashWrite
  <1>7. CASE FlashFinish
    <2>1. Accepted /\ \A p \in AppFrom..ImgSize : radio[p] = part[p]
      <3>1. PICK img \in Known : Holds(img) /\ ImgSize = img.len
        BY <1>7, <1>a DEF FlashFinish, Accepted
      <3>2. \A p \in 1..ImgSize : radio[p] = part[p]
        BY <1>7 DEF FlashFinish, StageInv, SyncOK
      <3>3. QED
        BY <1>7, <3>1, <3>2, HeldPieces DEF FlashFinish, Accepted, AppFrom
    <2>2. QED
      BY <1>0, <1>7, <2>1, DoneStep DEF FlashFinish
  <1>8. CASE EraseTimeout
    <2>1. Accepted
      BY <1>8 DEF EraseTimeout, Accepted
    <2>2. QED
      BY <1>0, <1>8, <2>1, DoneStep DEF EraseTimeout
  <1>9. QED
    BY <1>1, <1>2, <1>3, <1>4, <1>5, <1>6, <1>7, <1>8 DEF Sync, FlashErase

LEMMA CalibrateStep ==
    ASSUME StageInv, Calibrate
    PROVE  StageInv'
  <1>1. /\ host = "run" /\ host' = host /\ radio' = [radio EXCEPT ![NV] = Cal]
        /\ UNCHANGED <<part, up, restart, cuts, n, verr, fresh>>
    BY DEF Calibrate, stageVars
  <1>2. PageIsMarker' /\ \A img : Holds(img)' <=> Holds(img)
    BY <1>1, PartKept DEF StageInv
  <1>3. FreshOK'
    <2>1. SUFFICES ASSUME fresh
                   PROVE  FreshOK'
      BY <1>1 DEF FreshOK
    <2>2. PICK img \in Known : Holds(img) /\ \A p \in AppFrom..img.len : radio[p] = img
      BY <2>1 DEF StageInv, FreshOK
    <2>3. \A p \in AppFrom..img.len : radio'[p] = radio[p]
      BY <1>1, <2>2, HeldPieces DEF StageInv, TypeOK, AppFrom, NV, Pieces
    <2>4. QED
      BY <1>2, <2>2, <2>3 DEF FreshOK
  <1>4. UploadOK'
    BY <1>1 DEF StageInv, UploadOK, Holds
  <1>5. TypeOK'
    BY <1>1 DEF StageInv, TypeOK
  <1>6. QED
    BY <1>1, <1>2, <1>3, <1>4, <1>5, UploadRuns DEF StageInv

LEMMA RebootStep ==
    ASSUME StageInv, Restart \/ PowerCut
    PROVE  StageInv'
  <1>1. /\ host' = "sync" /\ up' = NoUpload /\ n' = 0 /\ restart' = FALSE /\ verr' = FALSE
        /\ UNCHANGED <<part, radio, fresh>> /\ cuts' \in 0..MaxCuts
    BY RadioStageAssumption DEF Restart, PowerCut, Reboot, StageInv, TypeOK
  <1>2. PageIsMarker' /\ FreshOK'
    BY <1>1, PartKept DEF StageInv
  <1>3. UploadOK' /\ SyncOK' /\ NoNeedlessRewrite'
    BY <1>1, NoUploadType DEF UploadOK, SyncOK, Accepted, NoNeedlessRewrite
  <1>4. TypeOK'
    <2>1. {restart', verr', fresh'} \subseteq BOOLEAN
      BY <1>1 DEF StageInv, TypeOK
    <2>2. n' \in 0..PartSize /\ host' \in HostState
      BY <1>1, RadioStageAssumption DEF HostState
    <2>3. QED
      BY <1>1, <2>1, <2>2, NoUploadType DEF StageInv, TypeOK
  <1>5. QED
    BY <1>2, <1>3, <1>4 DEF StageInv

LEMMA StutterStep ==
    ASSUME StageInv, UNCHANGED vars
    PROVE  StageInv'
  <1>1. PageIsMarker' /\ FreshOK' /\ ImgSize' = ImgSize /\ (Usable' <=> Usable)
        /\ \A img : Holds(img)' <=> Holds(img)
    BY PartKept DEF StageInv, vars
  <1>2. TypeOK' /\ NoNeedlessRewrite'
    BY DEF StageInv, TypeOK, NoNeedlessRewrite, vars
  <1>3. UploadOK' /\ SyncOK'
    BY <1>1 DEF StageInv, UploadOK, SyncOK, Accepted, vars
  <1>4. QED
    BY <1>1, <1>2, <1>3 DEF StageInv

LEMMA StageInvariance == Spec => []StageInv
  <1>1. StageInv /\ [Next]_vars => StageInv'
    BY BeginStep, EraseStep, RecvStep, VerifyStep, CommitStep, FailStep, SyncStep, CalibrateStep,
       RebootStep, StutterStep DEF Next, Upload, UploadError
  <1>2. QED
    BY <1>1, InitStageInv, PTL DEF Spec

-----------------------------------------------------------------------------
(***************************************************************************)
(* The theorems.                                                           *)
(***************************************************************************)

\* "A truncated-but-descriptor-valid image must never reach the radio": however
\* often uploads are cut off, and wherever power fails, the application that the
\* sync accepts is the whole one of the image the marker names.
THEOREM AcceptedAppIsWhole == Spec => []AcceptedAppWhole
  <1>1. StageInv => AcceptedAppWhole
    <2> SUFFICES ASSUME StageInv, Accepted
                 PROVE  \E img \in Known : \A p \in {1} \cup NV..PartSize : part[p] = Laid(img)[p]
      BY DEF AcceptedAppWhole
    <2>1. PICK img \in Known : Holds(img)
      BY UsableHolds DEF StageInv, SyncOK
    <2>2. \A p \in {1} \cup NV..PartSize : p \in Pieces \ {2}
      BY RadioStageAssumption DEF Pieces, NV, AppFrom
    <2>3. QED
      BY <2>1, <2>2 DEF Holds, Laid
  <1>2. QED
    BY <1>1, StageInvariance, PTL

\* A radio that was reported in sync, or rewritten, has the whole application of
\* the staged image, whatever was cut off before.
THEOREM SyncedWhole == Spec => []InSyncAppWhole
  <1>1. StageInv => InSyncAppWhole
    <2> SUFFICES ASSUME StageInv, fresh
                 PROVE  \E img \in Known : /\ part[AppFrom] = img
                                           /\ \A p \in AppFrom..img.len : radio[p] = img
      BY DEF InSyncAppWhole
    <2>1. PICK img \in Known : Holds(img) /\ \A p \in AppFrom..img.len : radio[p] = img
      BY DEF StageInv, FreshOK
    <2>2. QED
      BY <2>1, HeldPieces
  <1>2. QED
    BY <1>1, StageInvariance, PTL

\* The board does not flash its radio again on every boot: after a sync only an
\* unreadable radio is written again, although the radio rewrites a part of its
\* flash itself.
THEOREM NoRewriteLoop == Spec => []NoNeedlessRewrite
  <1>1. StageInv => NoNeedlessRewrite
    BY DEF StageInv
  <1>2. QED
    BY <1>1, StageInvariance, PTL

-----------------------------------------------------------------------------
(***************************************************************************)
(* The refinement of StagedImage.  It needs one more fact: the erase runs  *)
(* ahead of the writes, so that between the two the radio has nothing of   *)
(* what it had before.                                                     *)
(***************************************************************************)
AheadErased ==
    /\ host = "erase" => \A p \in 1..n : radio[p] = Erased
    /\ host = "write" => \A p \in n + 1..ImgSize : radio[p] = Erased

\* Where the boot stands in a step of the upload, the radio or the power supply.
LEMMA NoFlashing ==
    ASSUME host' \notin {"erase", "write"}
    PROVE  AheadErased'
  BY DEF AheadErased

\* While the sync goes on the partition holds an image.
LEMMA AcceptedHolds ==
    ASSUME StageInv, Accepted
    PROVE  \E img \in Known : /\ Holds(img) /\ ImgSize = img.len
                              /\ img.len \in Nat /\ AppFrom <= img.len /\ img.len <= PartSize
  BY UsableHolds, HeldPieces DEF StageInv, SyncOK

LEMMA AheadStays ==
    ASSUME StageInv, AheadErased, [Next]_vars
    PROVE  AheadErased'
  <1>0. /\ n \in 0..PartSize /\ PartSize \in Nat /\ PartSize > 4
        /\ radio \in [Pieces -> Cell \cup {Cal}]
    BY RadioStageAssumption DEF StageInv, TypeOK, AppFrom
  <1>1. CASE Upload \/ UploadError \/ \E img \in Images : UploadBegin(img)
    <2>1. host = "run" /\ host' = host
      BY <1>1 DEF StageInv, UploadOK, Upload, UploadErase, UploadRecv, UploadVerify, CommitFirstPage,
                  Commit, UploadError, UploadBegin, bootVars
    <2>2. QED
      BY <2>1, NoFlashing
  <1>2. CASE SyncCheck \/ SyncConnect \/ SyncVerify \/ FlashFinish \/ EraseTimeout
    <2>1. host' \in {"connect", "verify", "start", "run"}
      BY <1>2 DEF SyncCheck, SyncConnect, SyncVerify, FlashFinish, EraseTimeout, Done
    <2>2. QED
      BY <2>1, NoFlashing
  <1>3. CASE FlashStart
    <2>1. host' = "run" \/ (host' = "erase" /\ n' = 0)
      BY <1>3 DEF FlashStart, Done
    <2>2. QED
      BY <2>1 DEF AheadErased
  <1>4. CASE ErasePiece
    <2>1. PICK img \in Known : /\ Holds(img) /\ ImgSize = img.len
                               /\ img.len \in Nat /\ img.len <= PartSize
      BY <1>4, AcceptedHolds DEF ErasePiece, Accepted
    <2>2. /\ n < ImgSize /\ \A p \in 1..n : radio[p] = Erased
          /\ radio' = [radio EXCEPT ![n + 1] = Erased]
          /\ n' = (IF n + 1 = ImgSize THEN 0 ELSE n + 1)
          /\ host' = (IF n + 1 = ImgSize THEN "write" ELSE "erase")
          /\ ImgSize' = ImgSize
      BY <1>4, PartKept DEF ErasePiece, stageVars, StageInv, SyncOK, AheadErased
    <2>3. \A p \in 1..n + 1 : radio'[p] = Erased
      BY <1>0, <2>1, <2>2 DEF Pieces
    <2>4. QED
      BY <1>0, <2>1, <2>2, <2>3 DEF AheadErased
  <1>5. CASE FlashWrite
    <2>1. CASE host' = "run"
      BY <2>1, NoFlashing
    <2>2. CASE /\ n' = n + 1 /\ radio' = [radio EXCEPT ![n + 1] = part[n + 1]]
               /\ UNCHANGED <<stageVars, host, verr, fresh>>
      <3>1. ImgSize' = ImgSize /\ host' = "write" /\ \A p \in n + 1..ImgSize : radio[p] = Erased
        BY <1>5, <2>2, PartKept DEF FlashWrite, stageVars, StageInv, AheadErased
      <3>2. PICK img \in Known : /\ Holds(img) /\ ImgSize = img.len
                                 /\ img.len \in Nat /\ img.len <= PartSize
        BY <1>5, AcceptedHolds DEF FlashWrite, Accepted
      <3>3. \A p \in n' + 1..ImgSize : radio'[p] = Erased
        BY <1>0, <2>2, <3>1, <3>2 DEF Pieces
      <3>4. QED
        BY <3>1, <3>3 DEF AheadErased
    <2>3. QED
      BY <1>5, <2>1, <2>2 DEF FlashWrite, Done
  <1>6. CASE Calibrate \/ Restart \/ PowerCut
    <2>1. host' \in {"run", "sync"}
      BY <1>6 DEF Calibrate, Restart, PowerCut, Reboot
    <2>2. QED
      BY <2>1, NoFlashing
  <1>7. CASE UNCHANGED vars
    <2>1. ImgSize' = ImgSize /\ UNCHANGED <<host, n, radio>>
      BY <1>7, PartKept DEF vars, StageInv
    <2>2. QED
      BY <2>1 DEF AheadErased
  <1>8. QED
    BY <1>1, <1>2, <1>3, <1>4, <1>5, <1>6, <1>7 DEF Next, Sync, FlashErase

-----------------------------------------------------------------------------
(***************************************************************************)
(* Lemmas about the mapping.                                               *)
(***************************************************************************)

\* What may be staged is an image, and whole.
LEMMA SoundImages ==
    /\ Erased \notin Sound
    /\ \A img \in Sound : /\ img \in Known /\ img.len \in Nat
                          /\ AppFrom <= img.len /\ img.len <= PartSize
  BY RadioStageAssumption DEF Sound, AppFrom

LEMMA HeldSound ==
    ASSUME NEW img, Holds(img)
    PROVE  img \in Sound /\ Staged = img /\ Staged # Erased
  BY HeldPieces DEF Holds, Sound, Staged

\* The radio's application, when it is whole and when it is not.
LEMMA AppWhole ==
    ASSUME NEW img \in Sound, \A p \in AppFrom..img.len : radio[p] = img
    PROVE  App = img
  <1>1. radio[AppFrom] = img
    BY SoundImages DEF AppFrom
  <1>2. QED
    BY <1>1 DEF App

LEMMA AppTorn ==
    ASSUME \/ radio[AppFrom] = Erased
           \/ \E p \in AppFrom..radio[AppFrom].len : radio[p] # radio[AppFrom]
    PROVE  App = Erased
  BY SoundImages DEF App

\* Only the pieces behind the calibration count.
LEMMA AppKept ==
    ASSUME \A p \in AppFrom..PartSize : radio'[p] = radio[p]
    PROVE  App' = App
  <1>1. radio'[AppFrom] = radio[AppFrom]
    BY RadioStageAssumption DEF AppFrom
  <1>2. ASSUME NEW img \in Sound
        PROVE  (\A p \in AppFrom..img.len : radio'[p] = img)
                   <=> (\A p \in AppFrom..img.len : radio[p] = img)
    BY SoundImages, RadioStageAssumption DEF AppFrom
  <1>3. QED
    BY <1>1, <1>2 DEF App, Sound

-----------------------------------------------------------------------------
(***************************************************************************)
(* Every step is a step of StagedImage, or leaves its variables alone.     *)
(***************************************************************************)

LEMMA StageInitImplements == Init => ST!Init
  <1> SUFFICES ASSUME Init
               PROVE  ST!Init
    OBVIOUS
  <1>1. Factory \in Sound /\ 1 \in Pieces /\ AppFrom \in Pieces
    BY RadioStageAssumption DEF Sound, Known, Pieces, AppFrom
  <1>2. Staged = Factory /\ fresh = FALSE
    BY <1>1, SoundImages DEF Init, Laid, Staged, AppFrom
  <1>3. CASE radio = Laid(Factory)
    <2>1. \A p \in AppFrom..Factory.len : radio[p] = Factory
      BY <1>1, <1>3, SoundImages, RadioStageAssumption DEF Laid, Pieces, AppFrom
    <2>2. App = Factory
      BY <1>1, <2>1, AppWhole
    <2>3. QED
      BY <1>1, <1>2, <2>2 DEF ST!Init
  <1>4. CASE radio = [p \in Pieces |-> Erased]
    <2>1. radio[AppFrom] = Erased
      BY <1>1, <1>4
    <2>2. App = Erased
      BY <2>1, AppTorn
    <2>3. QED
      BY <1>1, <1>2, <2>2 DEF ST!Init
  <1>5. QED
    BY <1>3, <1>4 DEF Init

\* What a step that leaves the radio alone does to the mapping.
LEMMA RadioKept ==
    ASSUME radio' = radio
    PROVE  App' = App
  BY AppKept

\* Nothing of the upload but its erase and the first page of the commit is seen.
LEMMA UploadImplements ==
    ASSUME StageInv, Upload \/ UploadError \/ \E img \in Images : UploadBegin(img)
    PROVE  [ST!Next]_(ST!stVars)
  <1>0. /\ PartSize \in Nat /\ PartSize > 4 /\ n \in 0..PartSize /\ up \in UploadState
        /\ part \in [Pieces -> Cell] /\ fresh \in BOOLEAN
    BY RadioStageAssumption DEF StageInv, TypeOK, AppFrom
  <1>1. App' = App
    BY RadioKept DEF Upload, UploadErase, UploadRecv, UploadVerify, CommitFirstPage, Commit,
                     UploadError, UploadBegin, bootVars
  <1>2. CASE part'[1] = part[1] /\ fresh' = fresh
    BY <1>1, <1>2 DEF ST!stVars, Staged
  <1>3. CASE UploadErase
    <2>1. part'[1] = Erased /\ fresh' = FALSE
      BY <1>0, <1>3 DEF UploadErase, Pieces
    <2>2. ST!Withdraw
      BY <1>1, <2>1 DEF ST!Withdraw, Staged
    <2>3. QED
      BY <2>2 DEF ST!Next
  <1>4. CASE CommitFirstPage
    <2>1. /\ up.pc = "commit" /\ n = up.img.len /\ up.img.len \in AppFrom..PartSize
          /\ up.img.desc
          /\ n >= 2 => up.img.magic
          /\ part = [p \in Pieces |-> IF 3 <= p /\ p <= n THEN up.img ELSE Erased]
      BY <1>4 DEF CommitFirstPage, StageInv, UploadOK
    <2>2. up.img \in Sound
      <3>1. n >= 2 /\ up.img \in Known
        BY <1>0, <2>1 DEF AppFrom, UploadState
      <3>2. QED
        BY <2>1, <3>1 DEF Sound
    <2>3. part[1] = Erased /\ part'[1] = up.img /\ fresh' = fresh
      BY <1>0, <1>4, <2>1 DEF CommitFirstPage, Pieces
    <2>4. ST!Stage(up.img)
      BY <1>1, <2>3 DEF ST!Stage, Staged
    <2>5. QED
      BY <2>2, <2>4 DEF ST!Next
  <1>5. CASE Commit
    <2>1. part'[1] = part[1] /\ fresh' = fresh
      BY <1>0, <1>5 DEF Commit, Pieces
    <2>2. QED
      BY <1>2, <2>1
  <1>6. CASE UploadRecv
    <2>1. part'[1] = part[1] /\ fresh' = fresh
      BY <1>0, <1>6 DEF UploadRecv, Fail, Pieces
    <2>2. QED
      BY <1>2, <2>1
  <1>7. CASE UploadVerify \/ UploadError \/ \E img \in Images : UploadBegin(img)
    <2>1. part'[1] = part[1] /\ fresh' = fresh
      BY <1>7 DEF UploadVerify, UploadError, UploadBegin, Fail
    <2>2. QED
      BY <1>2, <2>1
  <1>8. QED
    BY <1>3, <1>4, <1>5, <1>6, <1>7 DEF Upload

\* The sync ends without a result ...
LEMMA DoneUnsynced ==
    ASSUME StageInv, Done(FALSE)
    PROVE  UNCHANGED ST!stVars
  <1>1. part' = part /\ radio' = radio /\ fresh' = fresh
    BY DEF Done, stageVars, StageInv, TypeOK
  <1>2. QED
    BY <1>1, RadioKept DEF ST!stVars, Staged

\* ... or with the application of the staged image in the radio.
LEMMA DoneSynced ==
    ASSUME StageInv, Accepted, \A p \in AppFrom..ImgSize : radio[p] = part[p], Done(TRUE)
    PROVE  ST!Confirm
  <1>1. PICK img \in Known : Holds(img) /\ ImgSize = img.len
    BY AcceptedHolds
  <1>2. img \in Sound /\ Staged = img /\ Staged # Erased
    BY <1>1, HeldSound
  <1>3. \A p \in AppFrom..img.len : radio[p] = img
    BY <1>1, AppHeld
  <1>4. App = img
    BY <1>2, <1>3, AppWhole
  <1>5. part' = part /\ radio' = radio /\ fresh' = TRUE
    BY DEF Done, stageVars
  <1>6. QED
    BY <1>2, <1>4, <1>5, RadioKept DEF ST!Confirm, Staged

LEMMA EraseImplements ==
    ASSUME StageInv, AheadErased, ErasePiece
    PROVE  [ST!Next]_(ST!stVars)
  <1>0. /\ PartSize \in Nat /\ PartSize > 4 /\ n \in Nat /\ radio \in [Pieces -> Cell \cup {Cal}]
        /\ \A p \in 1..n : radio[p] = Erased
        /\ n < ImgSize /\ ~fresh
        /\ radio' = [radio EXCEPT ![n + 1] = Erased] /\ part' = part /\ fresh' = fresh
    BY RadioStageAssumption
       DEF ErasePiece, stageVars, StageInv, TypeOK, SyncOK, AheadErased, AppFrom
  <1>1. PICK img \in Known : /\ Holds(img) /\ ImgSize = img.len
                             /\ img.len \in Nat /\ img.len <= PartSize
    BY AcceptedHolds DEF ErasePiece, Accepted
  <1>2. Staged # Erased
    BY <1>1, HeldSound
  <1>3. CASE n + 1 < AppFrom
    <2>1. \A p \in AppFrom..PartSize : radio'[p] = radio[p]
      BY <1>0, <1>3 DEF Pieces, AppFrom
    <2>2. App' = App
      BY <2>1, AppKept
    <2>3. QED
      BY <1>0, <2>2 DEF ST!stVars, Staged
  <1>4. CASE n + 1 >= AppFrom
    <2>1. radio'[AppFrom] = Erased
      BY <1>0, <1>1, <1>4 DEF Pieces, AppFrom
    <2>2. App' = Erased
      BY <2>1, SoundImages DEF App
    <2>3. ST!Wipe
      BY <1>0, <1>2, <2>2 DEF ST!Wipe, Staged
    <2>4. QED
      BY <2>3 DEF ST!Next
  <1>5. QED
    BY <1>0, <1>3, <1>4 DEF AppFrom

\* The application becomes whole with the last piece, and not before.
LEMMA WriteImplements ==
    ASSUME StageInv, AheadErased, FlashWrite
    PROVE  [ST!Next]_(ST!stVars)
  <1>1. CASE Done(FALSE)
    BY <1>1, DoneUnsynced
  <1>2. CASE /\ n' = n + 1 /\ radio' = [radio EXCEPT ![n + 1] = part[n + 1]]
             /\ UNCHANGED <<stageVars, host, verr, fresh>>
    <2>0. /\ PartSize \in Nat /\ PartSize > 4 /\ n \in Nat /\ radio \in [Pieces -> Cell \cup {Cal}]
          /\ \A p \in 1..n : radio[p] = part[p]
          /\ \A p \in n + 1..ImgSize : radio[p] = Erased
          /\ n < ImgSize /\ ~fresh /\ part' = part /\ fresh' = fresh
      BY <1>2, RadioStageAssumption
         DEF FlashWrite, stageVars, StageInv, TypeOK, SyncOK, AheadErased, AppFrom
    <2>1. PICK img \in Known : /\ Holds(img) /\ ImgSize = img.len
                               /\ img.len \in Nat /\ AppFrom <= img.len /\ img.len <= PartSize
      BY AcceptedHolds DEF FlashWrite, Accepted
    <2>2. img \in Sound /\ Staged = img /\ Staged # Erased
      BY <2>1, HeldSound
    <2>3. \A p \in AppFrom..img.len : p \in Pieces /\ part[p] = img
      BY <2>1, AppHeld
    <2>4. \A p \in Pieces : radio'[p] = IF p = n + 1 THEN part[n + 1] ELSE radio[p]
      BY <1>2, <2>0
    <2>5. CASE n + 1 < AppFrom
      <3>1. \A p \in AppFrom..PartSize : radio'[p] = radio[p]
        BY <2>0, <2>4, <2>5 DEF Pieces, AppFrom
      <3>2. App' = App
        BY <3>1, AppKept
      <3>3. QED
        BY <2>0, <3>2 DEF ST!stVars, Staged
    <2>6. CASE n + 1 >= AppFrom
      <3>1. App = Erased
        <4>1. CASE n < AppFrom
          <5>1. radio[AppFrom] = Erased
            BY <2>0, <2>1, <4>1 DEF AppFrom
          <5>2. QED
            BY <5>1, AppTorn
        <4>2. CASE n >= AppFrom
          <5>1. radio[AppFrom] = img /\ radio[img.len] = Erased
            BY <2>0, <2>1, <2>3, <4>2 DEF AppFrom
          <5>2. img.len \in AppFrom..radio[AppFrom].len /\ radio[img.len] # radio[AppFrom]
            BY <2>1, <2>2, <5>1, SoundImages DEF AppFrom
          <5>3. QED
            BY <5>2, AppTorn
        <4>3. QED
          BY <2>0, <4>1, <4>2 DEF AppFrom
      <3>2. radio'[AppFrom] = img
        BY <2>0, <2>1, <2>3, <2>4, <2>6 DEF AppFrom
      <3>3. CASE n + 1 = ImgSize
        <4>1. \A p \in AppFrom..img.len : radio'[p] = img
          BY <2>0, <2>1, <2>3, <2>4, <3>3 DEF AppFrom
        <4>2. App' = img
          BY <2>2, <3>2, <4>1 DEF App
        <4>3. ST!Install
          BY <2>0, <2>2, <3>1, <4>2 DEF ST!Install, Staged
        <4>4. QED
          BY <4>3 DEF ST!Next
      <3>4. CASE n + 1 < ImgSize
        <4>1. img.len \in AppFrom..img.len /\ radio'[img.len] = Erased
          BY <2>0, <2>1, <2>3, <2>4, <3>4 DEF AppFrom
        <4>2. ~(\A p \in AppFrom..img.len : radio'[p] = img)
          BY <2>2, <4>1, SoundImages
        <4>3. App' = Erased
          BY <3>2, <4>2 DEF App
        <4>4. QED
          BY <2>0, <3>1, <4>3 DEF ST!stVars, Staged
      <3>5. QED
        BY <2>0, <2>1, <3>3, <3>4
    <2>7. QED
      BY <2>0, <2>5, <2>6 DEF AppFrom
  <1>3. QED
    BY <1>1, <1>2 DEF FlashWrite

LEMMA SyncImplements ==
    ASSUME StageInv, AheadErased, Sync
    PROVE  [ST!Next]_(ST!stVars)
  <1>0. CASE UNCHANGED <<part, radio, fresh>>
    BY <1>0, RadioKept DEF ST!stVars, Staged
  <1>1. CASE SyncCheck \/ SyncConnect
    BY <1>0, <1>1, DoneUnsynced DEF SyncCheck, SyncConnect, stageVars
  <1>2. CASE SyncVerify
    <2>1. CASE AppMatches /\ Done(TRUE)
      <3>1. ST!Confirm
        BY <1>2, <2>1, DoneSynced DEF SyncVerify, Accepted, AppMatches
      <3>2. QED
        BY <3>1 DEF ST!Next
    <2>2. QED
      BY <1>0, <1>2, <2>1 DEF SyncVerify, stageVars
  <1>3. CASE FlashStart
    <2>1. CASE fresh' = FALSE /\ UNCHANGED <<stageVars, radio, verr>>
      <3>1. Staged # Erased
        BY <1>3, AcceptedHolds, HeldSound DEF FlashStart, Accepted
      <3>2. ST!Doubt
        BY <2>1, <3>1, RadioKept DEF ST!Doubt, Staged, stageVars
      <3>3. QED
        BY <3>2 DEF ST!Next
    <2>2. QED
      BY <1>3, <2>1, DoneUnsynced DEF FlashStart
  <1>4. CASE FlashFinish
    <2>1. CASE Done(TRUE)
      <3>1. PICK img \in Known : /\ Holds(img) /\ ImgSize = img.len
                                 /\ img.len \in Nat
        BY <1>4, AcceptedHolds DEF FlashFinish, Accepted
      <3>2. \A p \in AppFrom..ImgSize : radio[p] = part[p]
        BY <1>4, <3>1 DEF FlashFinish, StageInv, SyncOK, AppFrom
      <3>3. ST!Confirm
        BY <1>4, <2>1, <3>2, DoneSynced DEF FlashFinish, Accepted
      <3>4. QED
        BY <3>3 DEF ST!Next
    <2>2. QED
      BY <1>4, <2>1, DoneUnsynced DEF FlashFinish
  <1>5. CASE EraseTimeout
    BY <1>5, DoneUnsynced DEF EraseTimeout
  <1>6. QED
    BY <1>1, <1>2, <1>3, <1>4, <1>5, EraseImplements, WriteImplements DEF Sync, FlashErase

LEMMA StageStepImplements ==
    ASSUME StageInv, AheadErased, [Next]_vars
    PROVE  [ST!Next]_(ST!stVars)
  <1>1. CASE UNCHANGED <<part, radio, fresh>>
    BY <1>1, RadioKept DEF ST!stVars, Staged
  <1>2. CASE Calibrate
    <2>1. \A p \in AppFrom..PartSize : radio'[p] = radio[p]
      BY <1>2, RadioStageAssumption DEF Calibrate, StageInv, TypeOK, Pieces, NV, AppFrom
    <2>2. App' = App
      BY <2>1, AppKept
    <2>3. QED
      BY <1>2, <2>2 DEF Calibrate, stageVars, ST!stVars, Staged
  <1>3. CASE Restart \/ PowerCut \/ UNCHANGED vars
    BY <1>1, <1>3 DEF Restart, PowerCut, Reboot, vars
  <1>4. QED
    BY <1>2, <1>3, UploadImplements, SyncImplements DEF Next

\* POST /api/radio and radio_flash_sync together implement the staging area of
\* module StagedImage, for any partition, any uploads and any power failures: an
\* image is staged in one step, when all of its application is there, and the
\* radio's application is that of the staged image or none at all.
THEOREM StageRefinement == Spec => ImplementsStagedImage
  <1>1. Init => AheadErased
    BY DEF Init, AheadErased
  <1>2. Spec => []AheadErased
    BY <1>1, AheadStays, StageInvariance, PTL DEF Spec
  <1>3. QED
    BY <1>2, StageInitImplements, StageStepImplements, StageInvariance, PTL
       DEF Spec, ImplementsStagedImage, ST!Spec
=============================================================================
