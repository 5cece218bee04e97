------------------------------- MODULE CulDfu -------------------------------
(***************************************************************************)
(* Reflashing the attached AVR stick through its DFU bootloader,           *)
(* firmware/main/cul_dfu.c.  dfu_task handles the events of the DFU client *)
(* and the completion of its one transfer; cul_dfu_flash runs in the web   *)
(* server's task and issues one control transfer after the other, each of  *)
(* which it gives up waiting for after a while.                            *)
(*                                                                         *)
(* A transfer is named for what it asks of the bootloader; for the         *)
(* download of a block of the image, k is the number of the block.         *)
(***************************************************************************)
EXTENDS UsbBus

CONSTANTS
    NBlocks,      \* blocks of the image; all in one block of the erase
    MaxFaults,    \* bound: transfers that are refused or not answered in time
    MaxFlash      \* bound: calls of cul_dfu_flash

ASSUME DfuAssumption == NBlocks \in Nat \ {0} /\ {MaxFaults, MaxFlash} \subseteq Nat

VARIABLES
    dev,          \* S.dev: number of the enumeration, 0 for NULL
    done,         \* S.done
    xfer,         \* S.xfer: [buf, op, k, ses, status, reply, flying]
    f,            \* cul_dfu_flash: [pc, step, op, k, ee, ses, s, ok]
    avr,          \* the sticks: [img, busy, err], img the state of each block
    mode,         \* what each stick runs once it is attached
    faults, flashes

dfuVars == <<dev, done, xfer, f, avr, mode, faults, flashes>>

Blocks == 1..NBlocks
Op0    == "none"  \* no transfer

DfuInit ==
    /\ dev = 0 /\ done = 0
    /\ xfer = [buf |-> Op0, op |-> Op0, k |-> 0, ses |-> 0, status |-> "ok", reply |-> "ok",
              flying |-> FALSE]
    /\ f = [pc |-> "idle", step |-> "none", op |-> Op0, k |-> 0, ee |-> FALSE, ses |-> 0,
            s |-> NULL, ok |-> FALSE]
    /\ avr = [s \in Sticks |-> [img |-> [k \in Blocks |-> "old"], busy |-> FALSE, err |-> FALSE]]
    /\ mode = [s \in Sticks |-> "app"]
    /\ faults = 0 /\ flashes = 0

\* All of an image is in the program memory, the old one or the new one.
Holds(s, v) == \A k \in Blocks : avr[s].img[k] = v
Whole(s)    == Holds(s, "old") \/ Holds(s, "new")
-----------------------------------------------------------------------------
(***************************************************************************)
(* The sticks and the bus.                                                 *)
(***************************************************************************)

\* A stick is plugged in, or comes back after it has left on its own.
Plug(s) ==
    /\ Attach(s, mode[s])
    /\ UNCHANGED dfuVars

\* A stick without power forgets what it was doing, and starts again with the
\* application if it has one.  A transfer that is under way ends.
Pull ==
    /\ Detach
    /\ avr' = [avr EXCEPT ![bus.s].busy = FALSE, ![bus.s].err = FALSE]
    /\ mode' = [mode EXCEPT ![bus.s] = IF Whole(bus.s) THEN "app" ELSE "boot"]
    /\ UNCHANGED <<dev, done, xfer, f, faults, flashes>>

\* The application is told to jump into the bootloader.
EnterBoot ==
    /\ bus.mode = "app"
    /\ Detach
    /\ mode' = [mode EXCEPT ![bus.s] = "boot"]
    /\ UNCHANGED <<dev, done, xfer, f, avr, faults, flashes>>

EraseDone(s) ==
    /\ avr[s].busy
    /\ avr' = [avr EXCEPT ![s].busy = FALSE]
    /\ UNCHANGED <<busVars, dev, done, xfer, f, mode, faults, flashes>>

\* What the bootloader in state a makes of a transfer.  A block can be written
\* once after an erase.
Executed(a, op, b) ==
    IF op \in {"erase", "full"} THEN [a EXCEPT !.img = [k \in Blocks |-> "blank"], !.busy = TRUE]
    ELSE IF op = "write" THEN [a EXCEPT !.img[b] = IF @ = "blank" THEN "new" ELSE "mixed"]
    ELSE IF op = "clear" THEN [a EXCEPT !.err = FALSE]
    ELSE a

\* The status bytes of a bootloader in state a.
Reported(a) == IF a.err THEN "error" ELSE IF a.busy THEN "busy" ELSE "ok"

\* xfer_done_cb: the transfer has ended with this status.
Ended(status, reply) ==
    /\ xfer' = [xfer EXCEPT !.flying = FALSE, !.status = status, !.reply = reply,
                            !.buf = IF xfer.op = "upload" /\ @ # "upload" THEN "garbage" ELSE @]
    /\ done' = 1
    /\ UNCHANGED <<dev, f, flashes>>

\* The bootloader carries a transfer out; the bytes of an upload land in the
\* buffer, also when something else has been put there since.
Complete ==
    /\ xfer.flying /\ Attached(xfer.ses) /\ xfer.op \notin {"zero", "garbage"}
    /\ ~(avr[bus.s].busy /\ xfer.op = "write")
    /\ avr' = [avr EXCEPT ![bus.s] = Executed(@, xfer.op, xfer.k)]
    /\ Ended("ok", IF xfer.op = "status" THEN Reported(avr[bus.s]) ELSE xfer.reply)
    /\ UNCHANGED <<busVars, mode, faults>>

\* It refuses one it cannot or will not carry out.
Refuse ==
    /\ xfer.flying /\ Attached(xfer.ses) /\ xfer.op \notin {"zero", "status", "clear"}
    /\ faults < MaxFaults /\ faults' = faults + 1
    /\ avr' = [avr EXCEPT ![bus.s].err = TRUE]
    /\ Ended("stall", xfer.reply)
    /\ UNCHANGED <<busVars, mode>>

\* The download of length zero that follows "start": the stick leaves the bus.
Leave ==
    /\ xfer.flying /\ Attached(xfer.ses) /\ xfer.op = "zero"
    /\ Detach
    /\ mode' = [mode EXCEPT ![bus.s] = IF Whole(bus.s) THEN "app" ELSE "boot"]
    /\ Ended("gone", xfer.reply)
    /\ UNCHANGED <<avr, faults>>

\* The device of a transfer is gone.
EndGone ==
    /\ xfer.flying /\ ~Attached(xfer.ses)
    /\ Ended("gone", xfer.reply)
    /\ UNCHANGED <<busVars, avr, mode, faults>>

\* client_event_cb: a bootloader is opened and claimed, any other device let go
\* again; a device that is gone is closed.
ClientEvent ==
    /\ dfuq # <<>>
    /\ dfuq' = Tail(dfuq)
    /\ LET e == Head(dfuq)
       IN  \/ /\ e.ev = "new" /\ dev = 0 /\ Attached(e.ses) /\ bus.mode = "boot"
              /\ dev' = e.ses /\ held' = held \cup {"dfu"}
           \/ /\ e.ev = "new" /\ ~(dev = 0 /\ Attached(e.ses) /\ bus.mode = "boot")
              /\ UNCHANGED <<dev, held>>
           \/ /\ e.ev = "gone"
              /\ dev' = 0 /\ held' = held \ {"dfu"}
    /\ UNCHANGED <<bus, ses, cdcq, done, xfer, f, avr, mode, faults, flashes>>
-----------------------------------------------------------------------------
(***************************************************************************)
(* cul_dfu_flash and, as its inner steps, ctrl.                            *)
(***************************************************************************)
flashRest == <<busVars, dev, avr, mode, flashes>>

\* The next transfer of the run is op, in step st.
Do(st, op) == f' = [f EXCEPT !.pc = "fill", !.step = st, !.op = op]
End(ok)    == f' = [f EXCEPT !.pc = "idle", !.step = "over", !.op = Op0, !.k = 0, !.ee = FALSE,
                          !.ok = ok]

\* A bootloader is there and the lock is free: the EEPROM is read first.
FlashStart ==
    /\ f.pc = "idle" /\ dev # 0 /\ flashes < MaxFlash
    /\ flashes' = flashes + 1
    /\ f' = [pc |-> "fill", step |-> "eeprom", op |-> "read", k |-> 0, ee |-> FALSE, ses |-> dev,
             s |-> IF Attached(dev) THEN bus.s ELSE NULL, ok |-> FALSE]
    /\ UNCHANGED <<busVars, dev, done, xfer, avr, mode, faults>>

\* The block after the last one written, the EEPROM again, or the start.
WriteNext(k) ==
    IF k <= NBlocks
    THEN f' = [f EXCEPT !.pc = "fill", !.step = "write", !.op = "write", !.k = k]
    ELSE IF f.ee THEN Do("compare", "read") ELSE Do("start", "start")

\* Mutant: an erase that was refused is not the end of the run.
StepFails_Proceeds ==
    IF f.step = "erase" THEN WriteNext(1) ELSE End(FALSE)

\* wait_ok or a command of the current step has failed: the erase by blocks
\* falls back to the whole chip.
StepFails ==
    IF f.step = "erase" THEN Do("full", "full") ELSE End(FALSE)

\* What the run does with the result of its transfer.
Result(ok) ==
    CASE f.step = "eeprom" ->
            IF ok /\ f.op = "read" THEN Do("eeprom", "upload")
            ELSE f' = [f EXCEPT !.pc = "fill", !.step = "erase", !.op = "erase", !.ee = ok]
      [] f.step = "compare" ->
            IF ok /\ f.op = "read" THEN Do("compare", "upload") ELSE Do("start", "start")
      [] f.step = "start" ->
            IF f.op = "zero" THEN End(TRUE)
            ELSE IF ok THEN Do("start", "zero") ELSE End(FALSE)
      [] OTHER ->      \* erase, full, write: the command, then wait_ok
            IF ~ok \/ f.op = "clear" THEN StepFails
            ELSE IF f.op # "status" THEN Do(f.step, "status")
            ELSE IF xfer.reply = "ok"
                 THEN IF f.step = "write" /\ dev = 0 THEN End(FALSE) ELSE WriteNext(f.k + 1)
                 ELSE IF xfer.reply = "error" THEN Do(f.step, "clear")
                 ELSE f' = [f EXCEPT !.pc = "pause"]

\* ctrl: without a device it fails; the buffer is filled, whatever is using it,
\* and an old signal dropped.
CtrlFill ==
    /\ f.pc = "fill"
    /\ IF dev = 0
       THEN Result(FALSE) /\ UNCHANGED <<done, xfer>>
       ELSE /\ xfer' = [xfer EXCEPT !.buf = f.op, !.reply = IF f.op = "status" THEN @ ELSE "busy"]
            /\ done' = 0
            /\ f' = [f EXCEPT !.pc = "submit"]
    /\ UNCHANGED <<flashRest, faults>>

\* A transfer that is still under way, or whose device is gone, is refused.
CtrlSubmit ==
    /\ f.pc = "submit"
    /\ IF xfer.flying \/ ~Attached(dev)
       THEN Result(FALSE) /\ UNCHANGED xfer
       ELSE /\ xfer' = [xfer EXCEPT !.op = xfer.buf, !.k = f.k, !.ses = dev, !.flying = TRUE]
            /\ f' = [f EXCEPT !.pc = "await"]
    /\ UNCHANGED <<flashRest, done, faults>>

CtrlAwait ==
    /\ f.pc = "await" /\ done = 1
    /\ done' = 0
    /\ Result(xfer.status = "ok")
    /\ UNCHANGED <<flashRest, xfer, faults>>

\* The wait ends before the transfer does.
CtrlTimeout ==
    /\ f.pc = "await" /\ done = 0 /\ faults < MaxFaults
    /\ faults' = faults + 1
    /\ Result(FALSE)
    /\ UNCHANGED <<flashRest, done, xfer>>

\* wait_ok asks again after a while, or gives up.
WaitAgain ==
    /\ f.pc = "pause"
    /\ Do(f.step, "status")
    /\ UNCHANGED <<flashRest, done, xfer, faults>>

WaitExpire ==
    /\ f.pc = "pause" /\ faults < MaxFaults
    /\ faults' = faults + 1
    /\ StepFails
    /\ UNCHANGED <<flashRest, done, xfer>>

FlashStep == CtrlFill \/ CtrlSubmit \/ CtrlAwait \/ CtrlTimeout \/ WaitAgain \/ WaitExpire
DfuTask   == Complete \/ Refuse \/ Leave \/ EndGone \/ ClientEvent

DfuNext ==
    \/ \E s \in Sticks : Plug(s) \/ EraseDone(s)
    \/ Pull \/ EnterBoot
    \/ DfuTask
    \/ FlashStart \/ FlashStep
-----------------------------------------------------------------------------
\* The run has ended and reported success.
FlashOk == f.step = "over" /\ f.ok

\* "Erase, write, start application": a run that reports success has erased and
\* written the whole image on the stick it began with, whichever transfers were
\* answered late, refused or taken for one another, unless that stick left the
\* bus under it.
FlashWhole == FlashOk /\ xfer.ses = f.ses => f.s # NULL /\ Holds(f.s, "new")
=============================================================================
