---------------------------- MODULE DriverProofs ----------------------------
(***************************************************************************)
(* What is proved of the two drivers that work on registers: of the AHCI   *)
(* port here, and of the serial port's interrupts at the end.              *)
(*                                                                         *)
(* What sendPortCommand returns is how its own command ended, for any      *)
(* number of slots, whatever the firmware left running, and whether or not *)
(* the controller releases the slot of a command that failed.              *)
(*                                                                         *)
(* AnswerTrue is not inductive: that the flag read tells of this command   *)
(* needs that nothing else is issued, that the flag was clear when the     *)
(* command was, and that the engine was stopped when the list was put in.  *)
(* The invariant follows the driver through three stretches: the engine    *)
(* being stopped, the port set up and idle, and one command under way.     *)
(***************************************************************************)
EXTENDS AhciPort, Interrupts, TLAPS

Stopping == {"stopReceiver", "awaitReceiver", "awaitEngine"}
Stopped  == {"setList", "awaitStopped", "startReceiver", "startEngine"}
\* A slot of the kernel's has been chosen and not issued.
Prepared == {"awaitDevice", "awaitSlot", "clearStatus", "issue"}
Answered == {"readStatus", "acknowledge"}
Control  == {"stopEngine", "ready", "awaitDone"} \cup Stopping \cup Stopped
            \cup Prepared \cup Answered

\* Nothing is issued and nothing is being worked on.
Quiet == ci = {} /\ active = NoSlot

\* From the first step to the engine's stop.
BringupInv ==
    /\ pc \in Stopping \cup Stopped => ~started
    /\ pc \in {"awaitReceiver", "awaitEngine", "setList", "awaitStopped", "startReceiver"}
         => ~receiving
    /\ pc \in {"awaitEngine", "setList", "awaitStopped", "startReceiver"} => ~receiver
    /\ pc \in Stopped => ~engine
    /\ pc \in {"stopEngine", "setList"} \cup Stopping => list = "firmware"
    /\ pc \in {"awaitStopped", "startReceiver", "startEngine"} => list = "kernel"
    /\ pc \in {"stopEngine"} \cup Stopping \cup Stopped =>
         slot = NoSlot /\ (~engine => Quiet)

\* From then on the list is the kernel's, and between commands nothing is issued.
IdleInv ==
    /\ pc \in {"ready", "awaitDone"} \cup Prepared \cup Answered =>
         started /\ list = "kernel"
    /\ pc \in {"ready"} \cup Prepared \cup Answered => Quiet
    /\ (pc \in {"awaitDone"} \cup Prepared \cup Answered) => slot \in Slots
    /\ (pc = "ready" => slot = NoSlot)

\* The command under way is the only one, and the error flag is its own.
CommandInv ==
    /\ pc \in {"awaitDone"} \cup Prepared \cup Answered => table[slot] = request
    /\ pc = "issue" => ~error
    /\ pc = "awaitDone" =>
         \/ /\ ci = {slot} /\ active \in {NoSlot, slot}
            /\ error => active = slot /\ ~busy
         \/ Quiet /\ outcome = [asked |-> request, ok |-> ~error]
    /\ pc = "readStatus" => outcome = [asked |-> request, ok |-> ~error]

IInv == TypeOK /\ pc \in Control /\ BringupInv /\ IdleInv /\ CommandInv /\ AnswerTrue

-----------------------------------------------------------------------------
\* No slot is the number that stands for none.
LEMMA SlotsApart == NoSlot \notin Slots
BY SlotAssumption DEF NoSlot

\* Whatever the firmware left running satisfies the invariant.
LEMMA InitIInv == Init => IInv
<1> SUFFICES ASSUME Init PROVE IInv
    OBVIOUS
<1>1. outcome \in Outcome
    BY DEF Init, Outcome, NoOutcome
<1>2. ci \subseteq Slots
    BY DEF Init
<1>3. TypeOK
    BY <1>1, <1>2 DEF Init, TypeOK
<1>4. BringupInv
    BY DEF Init, BringupInv, Stopping, Stopped, Quiet
<1>5. IdleInv /\ CommandInv /\ AnswerTrue /\ pc \in Control
    BY DEF Init, IdleInv, CommandInv, AnswerTrue, Control, Prepared, Answered
<1> QED BY <1>3, <1>4, <1>5 DEF IInv

\* The steps of the bring-up: each await proves what the next step relies on.
LEMMA BringupIInv == IInv /\ Bringup => IInv'
<1> SUFFICES ASSUME IInv, Bringup PROVE IInv'
    OBVIOUS
<1> USE SlotsApart
    DEF IInv, TypeOK, Control, BringupInv, IdleInv, CommandInv, AnswerTrue, Quiet,
        Stopping, Stopped, Prepared, Answered, Goto, call, setup, hba
<1>1. CASE StopEngine
    BY <1>1 DEF StopEngine
<1>2. CASE StopReceiver
    BY <1>2 DEF StopReceiver
<1>3. CASE AwaitReceiver
    BY <1>3 DEF AwaitReceiver
<1>4. CASE AwaitEngine
    BY <1>4 DEF AwaitEngine
<1>5. CASE SetList
    BY <1>5 DEF SetList
<1>6. CASE AwaitStopped
    BY <1>6 DEF AwaitStopped
<1>7. CASE StartReceiver
    BY <1>7 DEF StartReceiver
<1>8. CASE StartEngine
    <2>1. /\ pc = "startEngine" /\ pc' = "ready" /\ started' = TRUE
          /\ UNCHANGED <<slot, request, seen, receiving, list, table>>
          /\ UNCHANGED <<engine, receiver, active, busy, outcome, ci, error>>
        BY <1>8 DEF StartEngine
    <2>2. slot = NoSlot /\ Quiet /\ list = "kernel"
        BY <2>1
    <2>3. TypeOK' /\ BringupInv'
        BY <2>1
    <2>4. IdleInv' /\ CommandInv' /\ AnswerTrue' /\ pc' \in Control
        BY <2>1, <2>2
    <2> QED BY <2>3, <2>4
<1> QED BY <1>1, <1>2, <1>3, <1>4, <1>5, <1>6, <1>7, <1>8 DEF Bringup

\* The steps of a command.
LEMMA CommandIInv ==
    ASSUME IInv, Progress \/ \E r \in Requests : Prepare(r)
    PROVE  IInv'
<1> USE SlotsApart
    DEF IInv, TypeOK, Control, BringupInv, IdleInv, CommandInv, AnswerTrue, Quiet,
        Stopping, Stopped, Prepared, Answered, Goto, call, setup, hba
<1>1. ASSUME NEW r \in Requests, Prepare(r) PROVE IInv'
    <2>1. PICK s \in Slots : FirstFree(s) /\ slot' = s /\ table' = [table EXCEPT ![s] = r]
        BY <1>1 DEF Prepare
    <2>2. /\ pc = "ready" /\ pc' = "awaitDevice" /\ request' = r
          /\ UNCHANGED <<seen, setup, hba, outcome, ci, error>>
        BY <1>1 DEF Prepare
    <2>3. table' \in [Slots -> Requests \cup {None}] /\ table'[slot'] = r
        BY <2>1
    <2> QED BY <2>1, <2>2, <2>3, RequestAssumption
<1>2. CASE AwaitDevice
    BY <1>2 DEF AwaitDevice
<1>3. CASE AwaitSlot
    BY <1>3 DEF AwaitSlot
<1>4. CASE ClearStatus
    BY <1>4 DEF ClearStatus
<1>5. CASE Issue
    BY <1>5 DEF Issue, NoOutcome, Outcome
<1>6. CASE AwaitDone
    BY <1>6 DEF AwaitDone
<1>7. CASE ReadStatus
    BY <1>7 DEF ReadStatus
<1>8. CASE Acknowledge
    BY <1>8 DEF Acknowledge
<1> QED BY <1>1, <1>2, <1>3, <1>4, <1>5, <1>6, <1>7, <1>8 DEF Progress

\* The controller and the device: whatever they do between two accesses.
LEMMA ControllerIInv ==
    ASSUME IInv,
           EngineRuns \/ EngineStops \/ DeviceSettles \/ ReceiverFollows
           \/ Fetch \/ Complete \/ Fail
    PROVE  IInv'
<1> USE SlotsApart
    DEF IInv, TypeOK, Control, BringupInv, IdleInv, CommandInv, AnswerTrue, Quiet,
        Stopping, Stopped, Prepared, Answered, call, setup
<1>1. CASE EngineRuns
    BY <1>1 DEF EngineRuns
<1>2. CASE EngineStops
    BY <1>2 DEF EngineStops
<1>3. CASE DeviceSettles
    BY <1>3 DEF DeviceSettles
<1>4. CASE ReceiverFollows
    BY <1>4 DEF ReceiverFollows
<1>5. CASE Fetch
    BY <1>5 DEF Fetch
<1>6. CASE Complete
    BY <1>6 DEF Complete, Ended, Outcome
<1>7. CASE Fail
    BY <1>7, ErrorAssumption DEF Fail, Ended, Outcome
<1> QED BY <1>1, <1>2, <1>3, <1>4, <1>5, <1>6, <1>7

LEMMA StepIInv == IInv /\ [Next]_vars => IInv'
<1> SUFFICES ASSUME IInv, [Next]_vars PROVE IInv'
    OBVIOUS
<1>1. CASE UNCHANGED vars
    BY <1>1
    DEF vars, call, setup, hba, IInv, TypeOK, Control, BringupInv, IdleInv, CommandInv,
        AnswerTrue, Quiet
<1> QED BY <1>1, BringupIInv, CommandIInv, ControllerIInv DEF Next

\* The invariant holds in every state.
LEMMA Invariance == Spec => []IInv
BY InitIInv, StepIInv, PTL DEF Spec

-----------------------------------------------------------------------------
\* The registers hold what they can; a slot is held for the length of a call,
\* and its table asks for what the call wants (sendPortCommand).
THEOREM TypeCorrect == Spec => []TypeOK
<1>1. IInv => TypeOK
    BY DEF IInv
<1> QED BY <1>1, Invariance, PTL

\* What sendPortCommand returns is how its own command ended.
THEOREM AnswersTrue == Spec => []AnswerTrue
<1>1. IInv => AnswerTrue
    BY DEF IInv
<1> QED BY <1>1, Invariance, PTL

\* Between calls no slot is issued, and nothing of the firmware's is left to
\* run on the kernel's tables (stopCommandEngine, sendPortCommand).
THEOREM SlotsReleased == Spec => []AllReleased
<1>1. IInv => AllReleased
    BY DEF IInv, IdleInv, AllReleased, Quiet
<1> QED BY <1>1, Invariance, PTL

\* The command list is changed only while the controller neither fetches nor
\* receives (InitializeAHCIController).
THEOREM ListSafe == Spec => ListSettled
<1>1. IInv /\ [Next]_vars => [list' # list => ~engine /\ ~receiver]_vars
    <2> SUFFICES ASSUME IInv, Next, list' # list PROVE ~engine /\ ~receiver
        OBVIOUS
    <2>1. SetList
        BY DEF Next, Bringup, Progress, StopEngine, StopReceiver, AwaitReceiver, AwaitEngine,
               AwaitStopped, StartReceiver, StartEngine, Prepare, AwaitDevice, AwaitSlot,
               ClearStatus, Issue, AwaitDone, ReadStatus, Acknowledge, EngineRuns,
               EngineStops, DeviceSettles, ReceiverFollows, Fetch, Complete, Fail, setup
    <2> QED BY <2>1 DEF SetList, Goto, IInv, BringupInv, Stopped
<1> QED BY <1>1, Invariance, PTL DEF Spec, ListSettled

-----------------------------------------------------------------------------
(* How an interrupt reaches a driver.                                        *)
(*                                                                           *)
(* AnsweredByOwner, for every set of lines and of bytes, is not inductive:   *)
(* that a delivered request has its handler comes from the request, the      *)
(* request from the line not being masked, and that from the order in which  *)
(* installIRQ works, which the invariant follows.                            *)

Installed == {"unmask", "activate", "int", "run"}
Silent    == {"IRQs", "sti", "enable"}

\* A line is unmasked, and a request noticed, only where there is a handler.
UnmaskedOwned  == boot # "IRQs" => \A l \in Lines : ~masked[l] => handlers[l]
RequestsOwned  == \A l \in irr : handlers[l]
\* What each step of the initialization has behind it.
SerialOwned    == boot \in Installed => handlers[serialIRQ]
SilentAtFirst  == boot \in Silent => ~ier

IrqIInv ==
    /\ IrqTypeOK
    /\ UnmaskedOwned /\ RequestsOwned
    /\ SerialOwned /\ SilentAtFirst
    /\ AnsweredByOwner

\* The state that Init allows satisfies the invariant.
LEMMA IrqInitIInv == IrqInit => IrqIInv
<1> SUFFICES ASSUME IrqInit PROVE IrqIInv
    OBVIOUS
<1>1. handlers \in [Lines -> BOOLEAN] /\ arrived \in 0..MaxBytes
    BY BytesAssumption DEF IrqInit
<1>2. IrqTypeOK
    BY <1>1 DEF IrqInit, IrqTypeOK
<1>3. UnmaskedOwned /\ RequestsOwned /\ SerialOwned /\ SilentAtFirst /\ AnsweredByOwner
    BY DEF IrqInit, UnmaskedOwned, RequestsOwned, SerialOwned, SilentAtFirst,
           AnsweredByOwner, Installed, Silent
<1> QED BY <1>2, <1>3 DEF IrqIInv

\* An edge of the serial line is passed on only to a handler that is there: it
\* is not masked, and the port cannot interrupt before the lines are set up.
LEMMA NoticedOwned ==
    ASSUME IrqIInv, Noticed, boot # "IRQs" \/ ~ier'
    PROVE  irr' \in SUBSET Lines /\ \A l \in irr' : handlers[l]
<1>1. CASE Up' /\ ~Up /\ ~masked[serialIRQ]
    <2>1. irr' = irr \cup {serialIRQ}
        BY <1>1 DEF Noticed
    <2>2. boot # "IRQs"
        BY <1>1 DEF Up
    <2>3. handlers[serialIRQ]
        BY <1>1, <2>2, LinesAssumption DEF IrqIInv, UnmaskedOwned
    <2> QED BY <2>1, <2>3, LinesAssumption DEF IrqIInv, IrqTypeOK, RequestsOwned
<1>2. CASE ~(Up' /\ ~Up /\ ~masked[serialIRQ])
    BY <1>2 DEF Noticed, IrqIInv, IrqTypeOK, RequestsOwned
<1> QED BY <1>1, <1>2

\* Every step keeps the invariant.
LEMMA IrqStepIInv == IrqIInv /\ [IrqNext]_irqVars => IrqIInv'
<1> SUFFICES ASSUME IrqIInv, [IrqNext]_irqVars PROVE IrqIInv'
    OBVIOUS
<1> USE DEF IrqIInv, IrqTypeOK, UnmaskedOwned, RequestsOwned, SerialOwned, SilentAtFirst,
            AnsweredByOwner, Installed, Silent, apic, uart
<1>1. CASE InitializeInterrupts
    BY <1>1 DEF InitializeInterrupts, Kernel, AllMasked
<1>2. CASE Sti
    BY <1>2 DEF Sti, Kernel
<1>3. CASE EnableReceive
    <2>1. irr' \in SUBSET Lines /\ \A l \in irr' : handlers[l]
        BY <1>3, NoticedOwned DEF EnableReceive, Kernel
    <2> QED BY <1>3, <2>1 DEF EnableReceive, Kernel
<1>4. CASE InstallHandler
    BY <1>4, LinesAssumption DEF InstallHandler, Kernel
<1>5. CASE ClearMask
    BY <1>5, LinesAssumption DEF ClearMask, Kernel
<1>6. CASE Activate
    BY <1>6 DEF Activate, Kernel
<1>7. CASE SoftInterrupt
    BY <1>7, LinesAssumption DEF SoftInterrupt, Kernel
<1>8. CASE Deliver
    <2>1. PICK l \in irr : /\ irr' = irr \ {l} /\ isr' = {l}
                           /\ cpu' = [at |-> "stub", line |-> l, hardware |-> TRUE]
        BY <1>8 DEF Deliver
    <2>2. IF_' = FALSE /\ UNCHANGED <<boot, masked, handlers, activePort, uart, taken>>
        BY <1>8 DEF Deliver
    <2>3. l \in Lines /\ handlers[l]
        BY <2>1
    <2>4. IrqTypeOK'
        BY <2>1, <2>2, <2>3
    <2>5. UnmaskedOwned' /\ SerialOwned' /\ SilentAtFirst'
        BY <2>2
    <2>6. RequestsOwned'
        BY <2>1, <2>2
    <2>7. AnsweredByOwner'
        BY <2>1, <2>2, <2>3
    <2> QED BY <2>4, <2>5, <2>6, <2>7
<1>9. CASE Handle
    BY <1>9, BytesAssumption DEF Handle
<1>10. CASE EndOfInterrupt
    BY <1>10 DEF EndOfInterrupt, Ends
<1>11. CASE Iret
    BY <1>11 DEF Iret
<1>12. CASE Receive
    <2>1. boot # "IRQs" \/ ~ier'
        BY <1>12 DEF Receive
    <2>2. irr' \in SUBSET Lines /\ \A l \in irr' : handlers[l]
        BY <1>12, <2>1, NoticedOwned DEF Receive
    <2>3. rbr' \in Bytes /\ arrived' \in 0..MaxBytes /\ overwritten' \subseteq Bytes
        <3>1. arrived \in 0..MaxBytes /\ arrived < MaxBytes
            BY <1>12 DEF Receive
        <3>2. arrived + 1 \in Bytes /\ arrived + 1 \in 0..MaxBytes
            BY <3>1, BytesAssumption DEF Bytes
        <3>3. arrived' = arrived + 1 /\ rbr' = arrived + 1
            BY <1>12 DEF Receive
        <3>4. overwritten' = overwritten \cup ({rbr} \ {NULL})
            BY <1>12 DEF Receive
        <3>5. overwritten' \subseteq Bytes
            BY <3>4
        <3> QED BY <3>2, <3>3, <3>5
    <2>4. early' \in BOOLEAN
        BY <1>12 DEF Receive
    <2>5. UNCHANGED <<boot, IF_, masked, isr, handlers, cpu, activePort, taken, ier>>
        BY <1>12 DEF Receive
    <2> QED BY <2>2, <2>3, <2>4, <2>5
<1>13. CASE UNCHANGED irqVars
    BY <1>13 DEF irqVars
<1> QED BY <1>1, <1>2, <1>3, <1>4, <1>5, <1>6, <1>7, <1>8, <1>9, <1>10, <1>11, <1>12, <1>13
        DEF IrqNext, Boot, Handler

\* The invariant holds in every state.
LEMMA IrqInvariance == IrqSpec => []IrqIInv
BY IrqInitIInv, IrqStepIInv, PTL DEF IrqSpec

\* Every part of the state keeps its type (irq.c, serial.c).
THEOREM InterruptsTyped == IrqSpec => []IrqTypeOK
<1>1. IrqIInv => IrqTypeOK
    BY DEF IrqIInv
<1> QED BY <1>1, IrqInvariance, PTL

\* No request of a device finds the stub without its handler, for every set of
\* lines, whatever the firmware left masked, and wherever the initialization is
\* when a byte arrives (installIRQ, stub).
THEOREM InterruptsAnswered == IrqSpec => []AnsweredByOwner
<1>1. IrqIInv => AnsweredByOwner
    BY DEF IrqIInv
<1> QED BY <1>1, IrqInvariance, PTL
=============================================================================
