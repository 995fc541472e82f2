----------------------------- MODULE BootProofs -----------------------------
(***************************************************************************)
(* Theorems about Boot, for every number of releases, of failed calls and  *)
(* of power cuts: a working, confirmed image is always left in one of the  *)
(* slots, and a release that works is not rolled back.                     *)
(***************************************************************************)
EXTENDS Boot, TLAPS

-----------------------------------------------------------------------------
(* The inductive invariant.                                                *)

Slot  == 0 .. 1
Marks == {"valid", "new", "pending", "aborted", "partial"}
Steps == {"off", "core", "confirm", "wifi", "slave", "push", "activate", "clock", "state", "up",
          "stopped"}

BootTypeOK ==
    /\ slots \in [Slot -> [image : Images, mark : Marks]]
    /\ boot \in Slot /\ running \in Slot
    /\ step \in Steps
    /\ release \in Images
    /\ answer \in Images \cup {None}
    /\ info \in [available : BOOLEAN, latest : Images \cup {None}]
    /\ install \in Images \cup {None, "writing"}
    /\ excused \in BOOLEAN

\* A slot the bootloader may fall back to.
Working(s) == slots[s].mark = "valid" /\ slots[s].image \notin Broken

NoneBroken == \A s \in Slot : slots[s].mark = "valid" => slots[s].image \notin Broken

\* The slot that otadata names can be started, and while it is on trial the
\* other one works.
BootSlot ==
    /\ slots[boot].mark \in {"valid", "new", "pending"}
    /\ slots[boot].mark # "valid" => Working(Other(boot))

\* What executes is the slot that otadata names; past the display it works, and
\* past its confirmation it is confirmed, unless app_main() has given up.
Executing ==
    step # "off" =>
        /\ running = boot
        /\ slots[boot].mark \in {"valid", "pending"}
        /\ step \notin {"core", "stopped"} => slots[boot].image \notin Broken
        /\ step \notin {"core", "confirm", "stopped"} /\ ~excused => slots[boot].mark = "valid"

\* An image on trial that has stopped was broken.
TrialFailed ==
    step = "off" /\ ~excused /\ slots[boot].mark = "pending" => slots[boot].image \in Broken

\* A release is installed beside a confirmed image only.
Installing ==
    /\ install # None => step = "up"
    /\ install = "writing" => slots[boot].mark = "valid"

IInv ==
    /\ BootTypeOK
    /\ NoneBroken
    /\ GoodImageIsKept
    /\ BootSlot
    /\ Executing
    /\ TrialFailed
    /\ Installing

-----------------------------------------------------------------------------
(* Lemmas.                                                                 *)

\* The order of app_main().
LEMMA AfterFacts ==
    /\ After("core") = "confirm" /\ After("confirm") = "wifi" /\ After("wifi") = "slave"
    /\ After("slave") = "clock" /\ After("clock") = "state" /\ After("state") = "up"
<1>1. /\ Len(Order) = 7
      /\ Order[1] = "core" /\ Order[2] = "confirm" /\ Order[3] = "wifi" /\ Order[4] = "slave"
      /\ Order[5] = "clock" /\ Order[6] = "state" /\ Order[7] = "up"
  BY DEF Order
<1>2. ASSUME NEW j \in 1 .. 6
      PROVE  After(Order[j]) = Order[1 + j]
  <2>1. \A i \in 1 .. 6 : Order[i] = Order[j] => i = j
    BY <1>1
  <2>2. (CHOOSE i \in 1 .. 6 : Order[i] = Order[j]) = j
    BY <2>1
  <2> QED
    BY <1>1, <2>2 DEF After
<1> QED
  BY <1>1, <1>2

\* There are two slots.
LEMMA OtherFacts == \A s \in Slot : Other(s) \in Slot /\ Other(s) # s /\ Other(Other(s)) = s
BY DEF Other, Slot

LEMMA InitIInv == Init => IInv
<1> SUFFICES ASSUME Init PROVE IInv
  OBVIOUS
<1>1. BootTypeOK
  <2>1. slots \in [Slot -> [image : Images, mark : Marks]]
    <3>1. /\ [image |-> First, mark |-> "valid"] \in [image : Images, mark : Marks]
          /\ [image |-> First, mark |-> "partial"] \in [image : Images, mark : Marks]
      BY BootAssumption DEF Marks
    <3>2. slots = [s \in Slot |-> IF s = 0 THEN [image |-> First, mark |-> "valid"]
                                 ELSE [image |-> First, mark |-> "partial"]]
      BY DEF Init, Slot
    <3> QED
      BY <3>1, <3>2
  <2>2. info \in [available : BOOLEAN, latest : Images \cup {None}]
    <3>1. info = [available |-> FALSE, latest |-> None]
      BY DEF Init
    <3>2. FALSE \in BOOLEAN /\ None \in Images \cup {None}
      OBVIOUS
    <3> QED
      BY <3>1, <3>2
  <2>3. /\ boot \in Slot /\ running \in Slot /\ step \in Steps /\ release \in Images
        /\ answer = None /\ install = None
    BY BootAssumption DEF Init, Slot, Steps
  <2>4. excused \in BOOLEAN
    BY Zenon DEF Init
  <2> QED
    BY <2>1, <2>2, <2>3, <2>4 DEF BootTypeOK
<1>2. \A s \in Slot : slots[s].image = First /\ slots[s].mark \in {"valid", "partial"}
  BY DEF Init, Slot
<1>3. slots[boot].mark = "valid" /\ step = "off" /\ install = None
  BY DEF Init
<1> QED
  BY <1>1, <1>2, <1>3, BootAssumption
  DEF IInv, NoneBroken, GoodImageIsKept, BootSlot, Executing, TrialFailed, Installing, Slot, None

\* A restart with the slots as they are, after a step that excuses it, from an
\* image that is confirmed, or by an image that is broken.
LEMMA ResetKeeps ==
  ASSUME IInv, Reset, UNCHANGED <<slots, boot, running, release>>,
         excused' = TRUE \/ excused' = excused,
         excused' \/ slots[boot].mark = "valid" \/ slots[boot].image \in Broken
  PROVE  IInv'
<1>1. step' = "off" /\ install' = None /\ answer' = None
      /\ info' = [available |-> FALSE, latest |-> None]
  BY DEF Reset
<1>2. BootTypeOK'
  BY <1>1 DEF IInv, BootTypeOK, Steps
<1>3. NoneBroken' /\ BootSlot'
  BY DEF IInv, NoneBroken, BootSlot, Working
<1>4. GoodImageIsKept'
  BY DEF IInv, GoodImageIsKept, BootTypeOK
<1>5. Executing' /\ Installing'
  BY <1>1 DEF Executing, Installing, None
<1>6. TrialFailed'
  BY DEF TrialFailed
<1> QED
  BY <1>2, <1>3, <1>4, <1>5, <1>6 DEF IInv

\* A step of app_main() past the confirmation, its end at a call that fails, or
\* a step that concerns neither the slots nor the installation.
LEMMA OnwardKeeps ==
  ASSUME IInv, UNCHANGED <<slots, boot, running, excused, release, answer, info, install>>,
         \/ step' = step
         \/ step \notin {"off", "core", "confirm", "up", "stopped"} /\ step' \in Steps \ {"off", "core", "confirm"}
         \/ step = "core" /\ step' = "stopped"
  PROVE  IInv'
<1>1. BootTypeOK'
  BY DEF IInv, BootTypeOK, Steps
<1>2. NoneBroken' /\ BootSlot' /\ GoodImageIsKept'
  BY DEF IInv, NoneBroken, BootSlot, Working, GoodImageIsKept
<1>3. Executing' /\ TrialFailed' /\ Installing'
  BY DEF IInv, Executing, TrialFailed, Installing
<1> QED
  BY <1>1, <1>2, <1>3 DEF IInv

-----------------------------------------------------------------------------
(* One lemma for each group of actions.                                    *)

LEMMA BootloaderKeeps ==
  ASSUME IInv, Bootloader
  PROVE  IInv'
<1>1. /\ boot \in Slot /\ slots \in [Slot -> [image : Images, mark : Marks]]
      /\ Other(boot) \in Slot /\ Other(boot) # boot /\ Other(Other(boot)) = boot
  BY OtherFacts DEF IInv, BootTypeOK
<1>2. step = "off" /\ step' = "core" /\ install = None
      /\ UNCHANGED <<release, answer, info, install, excused>>
  BY DEF Bootloader, Order, updates, bounds, IInv, Installing
<1>3. CASE slots[boot].mark = "pending"
  <2>1. /\ running' = Other(boot) /\ boot' = Other(boot)
        /\ slots' = [slots EXCEPT ![boot].mark = "aborted"]
    BY <1>3 DEF Bootloader
  <2>2. /\ slots'[boot].mark = "aborted" /\ slots'[boot].image = slots[boot].image
        /\ slots'[Other(boot)] = slots[Other(boot)] /\ Working(Other(boot))
        /\ \A s \in Slot : s = boot \/ s = Other(boot)
    BY <1>1, <1>3, <2>1 DEF IInv, BootSlot, Slot, Other
  <2>3. BootTypeOK'
    BY <1>1, <1>2, <2>1 DEF IInv, BootTypeOK, Steps, Marks
  <2>4. NoneBroken' /\ BootSlot'
    BY <2>1, <2>2 DEF NoneBroken, BootSlot, Working
  <2>5. GoodImageIsKept'
    BY <1>2, <1>3, <2>2 DEF IInv, GoodImageIsKept, TrialFailed, Slot, Working
  <2>6. Executing' /\ TrialFailed' /\ Installing'
    BY <1>2, <2>1, <2>2 DEF Executing, TrialFailed, Installing, Working
  <2> QED
    BY <2>3, <2>4, <2>5, <2>6 DEF IInv
<1>4. CASE slots[boot].mark = "new"
  <2>1. running' = boot /\ boot' = boot /\ slots' = [slots EXCEPT ![boot].mark = "pending"]
    BY <1>4 DEF Bootloader
  <2>2. /\ slots'[boot].mark = "pending" /\ slots'[boot].image = slots[boot].image
        /\ slots'[Other(boot)] = slots[Other(boot)] /\ Working(Other(boot))
        /\ \A s \in Slot : s = boot \/ s = Other(boot)
    BY <1>1, <1>4, <2>1 DEF IInv, BootSlot, Slot, Other
  <2>3. BootTypeOK'
    BY <1>1, <1>2, <2>1 DEF IInv, BootTypeOK, Steps, Marks
  <2>4. NoneBroken' /\ BootSlot'
    BY <2>1, <2>2 DEF NoneBroken, BootSlot, Working
  <2>5. GoodImageIsKept'
    BY <1>2, <2>2 DEF IInv, GoodImageIsKept, Slot, Working
  <2>6. Executing' /\ TrialFailed' /\ Installing'
    BY <1>2, <2>1, <2>2 DEF Executing, TrialFailed, Installing, None
  <2> QED
    BY <2>3, <2>4, <2>5, <2>6 DEF IInv
<1>5. CASE slots[boot].mark = "valid"
  <2>1. running' = boot /\ UNCHANGED <<boot, slots>>
    BY <1>5 DEF Bootloader
  <2>2. BootTypeOK'
    BY <1>1, <1>2, <2>1 DEF IInv, BootTypeOK, Steps
  <2>3. NoneBroken' /\ BootSlot' /\ GoodImageIsKept'
    BY <1>2, <2>1 DEF IInv, NoneBroken, BootSlot, Working, GoodImageIsKept
  <2>4. Executing' /\ TrialFailed' /\ Installing'
    BY <1>1, <1>2, <1>5, <2>1 DEF IInv, NoneBroken, Executing, TrialFailed, Installing
  <2> QED
    BY <2>2, <2>3, <2>4 DEF IInv
<1> QED
  BY <1>3, <1>4, <1>5 DEF IInv, BootSlot

\* Power may be cut anywhere; a broken image resets the chip.
LEMMA PowerAndCoreKeep ==
  ASSUME IInv, PowerCut \/ Core
  PROVE  IInv'
<1>1. CASE PowerCut
  BY <1>1, ResetKeeps DEF PowerCut, Blow, chips
<1>2. CASE Core /\ slots[running].image \in Broken /\ Reset /\ NoFault /\ UNCHANGED release
  <2>1. slots[boot].image \in Broken
    BY <1>2 DEF IInv, Executing, Core
  <2> QED
    BY <1>2, <2>1, ResetKeeps DEF Core, chips, NoFault
<1>3. CASE Core /\ Fault /\ step' = "stopped" /\ UNCHANGED <<clock, updates>>
  <2>1. step = "core" /\ UNCHANGED <<slots, boot, running, excused, release, answer, info, install>>
    BY <1>3 DEF Core, chips, Fault, updates
  <2> QED
    BY <1>3, <2>1, OnwardKeeps
<1>4. CASE Core /\ slots[running].image \notin Broken /\ step' = After(step) /\ NoFault
           /\ UNCHANGED <<clock, updates>>
  <2>1. step = "core" /\ step' = "confirm"
        /\ UNCHANGED <<slots, boot, running, excused, release, answer, info, install>>
    BY <1>4, AfterFacts DEF Core, chips, NoFault, updates
  <2>2. running = boot /\ slots[boot].image \notin Broken
    BY <1>4, <2>1 DEF IInv, Executing
  <2>3. BootTypeOK'
    BY <2>1 DEF IInv, BootTypeOK, Steps
  <2>4. NoneBroken' /\ BootSlot' /\ GoodImageIsKept'
    BY <2>1 DEF IInv, NoneBroken, BootSlot, Working, GoodImageIsKept
  <2>5. Executing' /\ TrialFailed' /\ Installing'
    BY <2>1, <2>2 DEF IInv, Executing, TrialFailed, Installing
  <2> QED
    BY <2>3, <2>4, <2>5 DEF IInv
<1> QED
  BY <1>1, <1>2, <1>3, <1>4 DEF Core

\* The image is confirmed, or the failure to do so is noted.
LEMMA ConfirmKeeps ==
  ASSUME IInv, Confirm
  PROVE  IInv'
<1>1. /\ step = "confirm" /\ step' = "wifi" /\ install = None
      /\ UNCHANGED <<boot, running, release, answer, info, install>>
  BY AfterFacts DEF Confirm, updates, IInv, Installing
<1>2. /\ running = boot /\ boot \in Slot /\ slots[boot].image \notin Broken
      /\ slots \in [Slot -> [image : Images, mark : Marks]]
  BY <1>1 DEF IInv, Executing, BootTypeOK
<1>3. CASE slots' = [slots EXCEPT ![running].mark = "valid"] /\ NoFault
  <2>1. /\ slots'[boot].mark = "valid" /\ slots'[boot].image = slots[boot].image
        /\ \A s \in Slot : s # boot => slots'[s] = slots[s]
        /\ excused' = excused
    BY <1>2, <1>3 DEF NoFault
  <2>2. BootTypeOK'
    BY <1>1, <1>2, <1>3, <2>1 DEF IInv, BootTypeOK, Steps, Marks
  <2>3. NoneBroken' /\ BootSlot'
    BY <1>1, <1>2, <2>1 DEF IInv, NoneBroken, BootSlot
  <2>4. GoodImageIsKept'
    BY <1>2, <2>1 DEF IInv, GoodImageIsKept, Slot
  <2>5. Executing' /\ TrialFailed' /\ Installing'
    BY <1>1, <1>2, <2>1 DEF Executing, TrialFailed, Installing
  <2> QED
    BY <2>2, <2>3, <2>4, <2>5 DEF IInv
<1>4. CASE Blow /\ UNCHANGED slots
  <2>1. excused' = TRUE
    BY <1>4 DEF Blow
  <2>2. BootTypeOK'
    BY <1>1, <1>4, <2>1 DEF IInv, BootTypeOK, Steps
  <2>3. NoneBroken' /\ BootSlot' /\ GoodImageIsKept'
    BY <1>1, <1>4, <2>1 DEF IInv, NoneBroken, BootSlot, Working, GoodImageIsKept
  <2>4. Executing' /\ TrialFailed' /\ Installing'
    BY <1>1, <1>4, <2>1 DEF IInv, Executing, TrialFailed, Installing
  <2> QED
    BY <2>2, <2>3, <2>4 DEF IInv
<1> QED
  BY <1>3, <1>4 DEF Confirm

\* The rest of app_main(), with the co-processor's update.
LEMMA StartKeeps ==
  ASSUME IInv, StartWifi \/ StartClock \/ StartState \/ CheckSlave \/ PushSlave \/ ActivateSlave
  PROVE  IInv'
<1>1. CASE ActivateSlave /\ Reset
  <2>1. step = "activate" /\ UNCHANGED <<slots, boot, running, excused>>
    BY <1>1 DEF ActivateSlave, NoFault, Fault
  <2>2. excused \/ slots[boot].mark = "valid"
    BY <2>1 DEF IInv, Executing
  <2>3. excused' \/ slots[boot].mark = "valid" \/ slots[boot].image \in Broken
    BY <2>1, <2>2
  <2>4. UNCHANGED release
    BY <1>1 DEF ActivateSlave, updates
  <2> QED
    BY <1>1, <2>1, <2>3, <2>4, ResetKeeps
<1>2. CASE ~(ActivateSlave /\ Reset)
  <2>1. UNCHANGED <<slots, boot, running, excused, release, answer, info, install>>
    BY <1>2 DEF StartWifi, StartClock, StartState, CheckSlave, PushSlave, ActivateSlave, NoFault, Fault,
                chips, updates, bounds
  <2>2. /\ step \in {"wifi", "slave", "push", "activate", "clock", "state"}
        /\ step' \in {"slave", "clock", "push", "activate", "state", "up", "stopped"}
    BY <1>2, AfterFacts DEF StartWifi, StartClock, StartState, CheckSlave, PushSlave, ActivateSlave
  <2> QED
    BY <2>1, <2>2, OnwardKeeps DEF Steps
<1> QED
  BY <1>1, <1>2

\* SNTP and the publication of releases leave the slots alone.
LEMMA ClockAndNewsKeep ==
  ASSUME IInv,
         \/ GotIp \/ SntpInTime \/ SntpTimesOut \/ SntpLate
         \/ \E r \in Images : Publish(r)
  PROVE  IInv'
<1>1. CASE GotIp \/ SntpInTime \/ SntpTimesOut \/ SntpLate
  <2>1. UNCHANGED <<slots, boot, running, excused, release, answer, info, install>> /\ step' = step
    BY <1>1 DEF GotIp, SntpInTime, SntpTimesOut, SntpLate, NoFault, Fault, chips, updates, bounds
  <2> QED
    BY <2>1, OnwardKeeps
<1>2. CASE \E r \in Images : Publish(r)
  <2>1. UNCHANGED <<slots, boot, running, excused, answer, info, install, step>>
        /\ release' \in Images
    BY <1>2 DEF Publish, chips
  <2>2. BootTypeOK'
    BY <2>1 DEF IInv, BootTypeOK
  <2>3. NoneBroken' /\ BootSlot' /\ GoodImageIsKept'
    BY <2>1 DEF IInv, NoneBroken, BootSlot, Working, GoodImageIsKept
  <2>4. Executing' /\ TrialFailed' /\ Installing'
    BY <2>1 DEF IInv, Executing, TrialFailed, Installing
  <2> QED
    BY <2>2, <2>3, <2>4 DEF IInv
<1> QED
  BY <1>1, <1>2

\* The release check and the tap that starts an installation.
LEMMA ChecksKeep ==
  ASSUME IInv, BackgroundAsks \/ BackgroundRecords \/ TapUpdates
  PROVE  IInv'
<1>1. UNCHANGED <<slots, boot, running, excused, release, step>>
  BY DEF BackgroundAsks, BackgroundRecords, TapUpdates, chips, bounds
<1>2. /\ answer' \in Images \cup {None}
      /\ info' \in [available : BOOLEAN, latest : Images \cup {None}]
  <2>1. \A tag \in Images \cup {None} :
           InfoOf(tag) \in [available : BOOLEAN, latest : Images \cup {None}]
    BY DEF InfoOf
  <2>2. /\ answer \in Images \cup {None} /\ release \in Images
        /\ info \in [available : BOOLEAN, latest : Images \cup {None}]
    BY DEF IInv, BootTypeOK
  <2> QED
    BY <2>1, <2>2 DEF BackgroundAsks, BackgroundRecords, TapUpdates
<1>3. /\ install' \in Images \cup {None, "writing"}
      /\ install' = install \/ (step = "up" /\ install' # "writing")
  BY BootAssumption DEF BackgroundAsks, BackgroundRecords, TapUpdates, IInv, BootTypeOK, None
<1>4. BootTypeOK'
  BY <1>1, <1>2, <1>3 DEF IInv, BootTypeOK
<1>5. NoneBroken' /\ BootSlot' /\ GoodImageIsKept'
  BY <1>1 DEF IInv, NoneBroken, BootSlot, Working, GoodImageIsKept
<1>6. Executing' /\ TrialFailed' /\ Installing'
  BY <1>1, <1>3 DEF IInv, Executing, TrialFailed, Installing
<1> QED
  BY <1>4, <1>5, <1>6 DEF IInv

\* The other slot is opened for a release.
LEMMA BeginInstallKeeps ==
  ASSUME IInv, BeginInstall
  PROVE  IInv'
<1>1. /\ install \in Images /\ install # None /\ step = "up" /\ running = boot /\ boot \in Slot
      /\ slots \in [Slot -> [image : Images, mark : Marks]]
      /\ Other(boot) \in Slot /\ Other(boot) # boot
      /\ \A s \in Slot : s = boot \/ s = Other(boot)
  <2>1. install \in Images /\ install # None
    BY BootAssumption DEF BeginInstall, None
  <2>2. step = "up"
    BY <2>1 DEF IInv, Installing
  <2> QED
    BY <2>1, <2>2, OtherFacts DEF IInv, Executing, BootTypeOK, Slot, Other
<1>2. UNCHANGED <<boot, running, excused, release, answer, info, step>>
  BY DEF BeginInstall, bounds
<1>3. CASE slots[boot].mark = "valid"
  <2>1. /\ slots' = [slots EXCEPT ![Other(boot)] = [image |-> install, mark |-> "partial"]]
        /\ install' = "writing"
    BY <1>1, <1>3 DEF BeginInstall
  <2>2. slots'[boot] = slots[boot] /\ slots'[Other(boot)].mark = "partial"
    BY <1>1, <2>1
  <2>3. BootTypeOK'
    BY <1>1, <1>2, <2>1 DEF IInv, BootTypeOK, Marks
  <2>4. NoneBroken' /\ BootSlot'
    BY <1>1, <1>2, <1>3, <2>2 DEF IInv, NoneBroken, BootSlot
  <2>5. GoodImageIsKept'
    BY <1>1, <1>2, <2>2 DEF IInv, GoodImageIsKept, Slot
  <2>6. Executing' /\ TrialFailed' /\ Installing'
    BY <1>1, <1>2, <1>3, <2>1, <2>2 DEF IInv, Executing, TrialFailed, Installing
  <2> QED
    BY <2>3, <2>4, <2>5, <2>6 DEF IInv
<1>4. CASE slots[boot].mark # "valid"
  <2>1. slots' = slots /\ install' = None
    BY <1>1, <1>4 DEF BeginInstall
  <2>2. BootTypeOK'
    BY <1>2, <2>1 DEF IInv, BootTypeOK
  <2>3. NoneBroken' /\ BootSlot' /\ GoodImageIsKept'
    BY <1>2, <2>1 DEF IInv, NoneBroken, BootSlot, Working, GoodImageIsKept
  <2>4. Executing' /\ TrialFailed' /\ Installing'
    BY <1>2, <2>1 DEF IInv, Executing, TrialFailed, Installing, None
  <2> QED
    BY <2>2, <2>3, <2>4 DEF IInv
<1> QED
  BY <1>3, <1>4

\* The release is complete and will be tried, or its slot stays unusable.
LEMMA FinishInstallKeeps ==
  ASSUME IInv, FinishInstall
  PROVE  IInv'
<1>1. /\ step = "up" /\ running = boot /\ boot \in Slot /\ slots[boot].mark = "valid"
      /\ slots \in [Slot -> [image : Images, mark : Marks]]
      /\ Other(boot) \in Slot /\ Other(boot) # boot /\ Other(Other(boot)) = boot
      /\ \A s \in Slot : s = boot \/ s = Other(boot)
  <2>1. install = "writing" /\ install # None
    BY DEF FinishInstall, None
  <2>2. step = "up" /\ slots[boot].mark = "valid"
    BY <2>1 DEF IInv, Installing
  <2> QED
    BY <2>1, <2>2, OtherFacts DEF IInv, Executing, BootTypeOK, Slot, Other
<1>2. CASE slots' = [slots EXCEPT ![Other(running)].mark = "new"]
           /\ boot' = Other(running) /\ Reset /\ NoFault /\ UNCHANGED release
  <2>1. /\ slots'[boot] = slots[boot] /\ slots'[Other(boot)].mark = "new"
        /\ boot' = Other(boot) /\ running' = running /\ excused' = excused
    BY <1>1, <1>2 DEF FinishInstall, NoFault
  <2>2. step' = "off" /\ install' = None /\ answer' = None
        /\ info' = [available |-> FALSE, latest |-> None]
    BY <1>2 DEF Reset
  <2>3. BootTypeOK'
    BY <1>1, <1>2, <2>1, <2>2 DEF IInv, BootTypeOK, Steps, Marks
  <2>4. NoneBroken' /\ BootSlot'
    BY <1>1, <2>1 DEF IInv, NoneBroken, BootSlot, Working
  <2>5. GoodImageIsKept'
    BY <1>1, <2>1 DEF IInv, GoodImageIsKept, Slot
  <2>6. Executing' /\ TrialFailed' /\ Installing'
    BY <2>1, <2>2 DEF Executing, TrialFailed, Installing, None
  <2> QED
    BY <2>3, <2>4, <2>5, <2>6 DEF IInv
<1>3. CASE Fault /\ install' = None /\ UNCHANGED <<slots, boot, step, clock, answer, info, release>>
  <2>1. UNCHANGED <<running, excused>>
    BY <1>3 DEF FinishInstall, Fault
  <2>2. BootTypeOK'
    BY <1>3, <2>1 DEF IInv, BootTypeOK
  <2>3. NoneBroken' /\ BootSlot' /\ GoodImageIsKept'
    BY <1>3, <2>1 DEF IInv, NoneBroken, BootSlot, Working, GoodImageIsKept
  <2>4. Executing' /\ TrialFailed' /\ Installing'
    BY <1>3, <2>1 DEF IInv, Executing, TrialFailed, Installing, None
  <2> QED
    BY <2>2, <2>3, <2>4 DEF IInv
<1> QED
  BY <1>2, <1>3 DEF FinishInstall

\* Every step keeps the invariant.
LEMMA NextIInv == IInv /\ [Next]_vars => IInv'
<1> SUFFICES ASSUME IInv, [Next]_vars PROVE IInv'
  OBVIOUS
<1>1. CASE UNCHANGED vars
  <2>1. UNCHANGED <<slots, boot, running, excused, release, answer, info, install>> /\ step' = step
    BY <1>1 DEF vars, chips, updates, bounds
  <2> QED
    BY <2>1, OnwardKeeps
<1>2. CASE PowerCut \/ Core
  BY <1>2, PowerAndCoreKeep
<1>3. CASE Bootloader
  BY <1>3, BootloaderKeeps
<1>4. CASE Confirm
  BY <1>4, ConfirmKeeps
<1>5. CASE StartWifi \/ StartClock \/ StartState \/ CheckSlave \/ PushSlave \/ ActivateSlave
  BY <1>5, StartKeeps
<1>6. CASE \/ GotIp \/ SntpInTime \/ SntpTimesOut \/ SntpLate
           \/ \E r \in Images : Publish(r)
  BY <1>6, ClockAndNewsKeep
<1>7. CASE BackgroundAsks \/ BackgroundRecords \/ TapUpdates
  BY <1>7, ChecksKeep
<1>8. CASE BeginInstall
  BY <1>8, BeginInstallKeeps
<1>9. CASE FinishInstall
  BY <1>9, FinishInstallKeeps
<1> QED
  BY <1>1, <1>2, <1>3, <1>4, <1>5, <1>6, <1>7, <1>8, <1>9 DEF Next, Main

-----------------------------------------------------------------------------
(* The theorems.                                                           *)

LEMMA SpecIInv == Spec => []IInv
<1> QED
  BY InitIInv, NextIInv, PTL DEF Spec

\* However often power is cut and calls fail, and whatever is released: one of
\* the slots holds a working image that is confirmed, and no broken one ever is.
THEOREM RecoverableForEver == Spec => []AlwaysRecoverable
<1>1. IInv => AlwaysRecoverable
  <2> SUFFICES ASSUME IInv PROVE AlwaysRecoverable
    OBVIOUS
  <2>1. NoneBroken /\ boot \in Slot /\ Other(boot) \in Slot
    BY OtherFacts DEF IInv, BootTypeOK
  <2>2. Working(boot) \/ Working(Other(boot))
    BY <2>1 DEF IInv, BootSlot, NoneBroken, Working
  <2> QED
    BY <2>1, <2>2 DEF AlwaysRecoverable, NoneBroken, Working, Slot
<1> QED
  BY <1>1, SpecIInv, PTL

\* Without a power cut and with confirmations that succeed, the bootloader gives
\* up broken releases only.
THEOREM GoodImageAlwaysKept == Spec => []GoodImageIsKept
<1>1. IInv => GoodImageIsKept
  BY DEF IInv
<1> QED
  BY <1>1, SpecIInv, PTL

=============================================================================
