------------------------------- MODULE AhciPort -------------------------------
(***************************************************************************)
(* One port of the AHCI controller: the driver (storage/ahci.c), one step  *)
(* per access to a register, and the controller, which works on its own    *)
(* between any two of them.  The firmware hands the port over in whatever  *)
(* state it left it, possibly running and with commands issued.            *)
(*                                                                         *)
(* The controller is what the driver takes it for.  A command that fails   *)
(* sets the error flag; whether its slot is released then is the constant  *)
(* ErrorReleases (a controller that follows the AHCI standard keeps it     *)
(* until the engine is stopped).  No queued commands: PxSACT stays clear.  *)
(***************************************************************************)
EXTENDS Integers, FiniteSets

CONSTANTS
    Slots,          \* the command slots
    Requests,       \* what the block layer asks for
    ErrorReleases

ASSUME SlotAssumption == Slots \subseteq Nat /\ IsFiniteSet(Slots) /\ Slots # {}
ASSUME ErrorAssumption == ErrorReleases \in BOOLEAN

VARIABLES
    pc,                   \* the driver's next access
    slot, request,        \* the call in progress
    seen,                 \* the error flag as the driver read it
    started, receiving,   \* PxCMD.ST and .FRE, which the driver sets
    list,                 \* whose command list PxCLB points to
    table,                \* what each slot of the kernel's list asks for
    engine, receiver,     \* PxCMD.CR and .FR, which the controller sets
    active,               \* the slot whose command the device works on
    busy,                 \* PxTFD: BSY or DRQ
    outcome,              \* how the last command of the kernel's list ended
    ci,                   \* PxCI: the slots issued
    error                 \* PxIS.TFES

call  == <<slot, request, seen>>
setup == <<started, receiving, list>>
hba   == <<engine, receiver, active, busy>>
vars  == <<pc, call, setup, table, hba, outcome, ci, error>>

None   == "none"
NoSlot == -1

ASSUME RequestAssumption == None \notin Requests

Outcome   == [asked : Requests \cup {None}, ok : BOOLEAN]
NoOutcome == [asked |-> None, ok |-> FALSE]

Init ==
    /\ pc = "stopEngine" /\ slot = NoSlot /\ request = None /\ seen = FALSE
    /\ started \in BOOLEAN /\ engine = started
    /\ receiving = started /\ receiver = started
    /\ list = "firmware"
    /\ table = [s \in Slots |-> None]
    /\ active = NoSlot /\ busy = FALSE /\ outcome = NoOutcome
    /\ ci \in IF started THEN SUBSET Slots ELSE {{}}
    /\ error \in BOOLEAN

-----------------------------------------------------------------------------
(* The driver *)

Goto(from, to) == pc = from /\ pc' = to

\* stopCommandEngine
StopEngine ==
    /\ Goto("stopEngine", "stopReceiver")
    /\ started' = FALSE
    /\ UNCHANGED <<call, receiving, list, table, hba, outcome, ci, error>>

\* (A slip: the bit is not cleared.)
StopReceiverNot ==
    /\ Goto("stopReceiver", "awaitReceiver")
    /\ UNCHANGED <<call, setup, table, hba, outcome, ci, error>>

StopReceiver ==
    /\ Goto("stopReceiver", "awaitReceiver")
    /\ receiving' = FALSE
    /\ UNCHANGED <<call, started, list, table, hba, outcome, ci, error>>

AwaitReceiver ==
    /\ Goto("awaitReceiver", "awaitEngine")
    /\ ~receiver
    /\ UNCHANGED <<call, setup, table, hba, outcome, ci, error>>

\* (A slip the checks must catch: PxCMD.CR is not waited for.)
AwaitEngineNot ==
    /\ Goto("awaitEngine", "setList")
    /\ UNCHANGED <<call, setup, table, hba, outcome, ci, error>>

AwaitEngine ==
    /\ Goto("awaitEngine", "setList")
    /\ ~engine
    /\ UNCHANGED <<call, setup, table, hba, outcome, ci, error>>

\* InitializeAHCIController: the kernel's command list, tables and FIS area.
SetList ==
    /\ Goto("setList", "awaitStopped")
    /\ list' = "kernel"
    /\ UNCHANGED <<call, started, receiving, table, hba, outcome, ci, error>>

\* startCommandEngine
AwaitStopped ==
    /\ Goto("awaitStopped", "startReceiver")
    /\ ~engine
    /\ UNCHANGED <<call, setup, table, hba, outcome, ci, error>>

StartReceiver ==
    /\ Goto("startReceiver", "startEngine")
    /\ receiving' = TRUE
    /\ UNCHANGED <<call, started, list, table, hba, outcome, ci, error>>

\* (A slip: the bit is not set.)
StartEngineNot ==
    /\ Goto("startEngine", "ready")
    /\ UNCHANGED <<call, setup, table, hba, outcome, ci, error>>

StartEngine ==
    /\ Goto("startEngine", "ready")
    /\ started' = TRUE
    /\ UNCHANGED <<call, receiving, list, table, hba, outcome, ci, error>>

\* findCommandSlot
FirstFree(s) == s \in Slots \ ci /\ \A t \in Slots \ ci : s <= t

\* (A slip: a table that was filled in for an earlier command is left as it is.)
PrepareOnce(r) ==
    /\ Goto("ready", "awaitDevice")
    /\ request' = r
    /\ \E s \in Slots :
         /\ FirstFree(s)
         /\ slot' = s
         /\ table' = IF table[s] = None THEN [table EXCEPT ![s] = r] ELSE table
    /\ UNCHANGED <<seen, setup, hba, outcome, ci, error>>

\* sendPortCommand: the table of the slot is filled in.
Prepare(r) ==
    /\ Goto("ready", "awaitDevice")
    /\ request' = r
    /\ \E s \in Slots :
         /\ FirstFree(s)
         /\ slot' = s
         /\ table' = [table EXCEPT ![s] = r]
    /\ UNCHANGED <<seen, setup, hba, outcome, ci, error>>

AwaitDevice ==
    /\ Goto("awaitDevice", "awaitSlot")
    /\ ~busy
    /\ UNCHANGED <<call, setup, table, hba, outcome, ci, error>>

AwaitSlot ==
    /\ Goto("awaitSlot", "clearStatus")
    /\ slot \notin ci
    /\ UNCHANGED <<call, setup, table, hba, outcome, ci, error>>

\* (A slip: what came before stays in PxIS.)
ClearStatusNot ==
    /\ Goto("clearStatus", "issue")
    /\ UNCHANGED <<call, setup, table, hba, outcome, ci, error>>

ClearStatus ==
    /\ Goto("clearStatus", "issue")
    /\ error' = FALSE
    /\ UNCHANGED <<call, setup, table, hba, outcome, ci>>

\* (A slip: the call does not wait for its slot to be released.)
IssueOnly ==
    /\ Goto("issue", "readStatus")
    /\ ci' = ci \cup {slot}
    /\ outcome' = NoOutcome
    /\ UNCHANGED <<call, setup, table, hba, error>>

Issue ==
    /\ Goto("issue", "awaitDone")
    /\ ci' = ci \cup {slot}
    /\ outcome' = NoOutcome
    /\ UNCHANGED <<call, setup, table, hba, error>>

AwaitDone ==
    /\ Goto("awaitDone", "readStatus")
    /\ slot \notin ci
    /\ UNCHANGED <<call, setup, table, hba, outcome, ci, error>>

ReadStatus ==
    /\ Goto("readStatus", "acknowledge")
    /\ seen' = error
    /\ UNCHANGED <<slot, request, setup, table, hba, outcome, ci, error>>

\* The flag, if it was read, is cleared, and the call returns whether it was.
Acknowledge ==
    /\ Goto("acknowledge", "ready")
    /\ error' = (error /\ ~seen)
    /\ slot' = NoSlot /\ request' = None /\ seen' = FALSE
    /\ UNCHANGED <<setup, table, hba, outcome, ci>>

-----------------------------------------------------------------------------
(* The controller *)

EngineRuns ==
    /\ started /\ ~engine
    /\ engine' = TRUE
    /\ UNCHANGED <<pc, call, setup, table, receiver, active, busy, outcome, ci, error>>

\* A stop drops what is issued; the device may be at work for a while yet.
EngineStops ==
    /\ ~started /\ engine
    /\ engine' = FALSE
    /\ active' = NoSlot
    /\ ci' = {}
    /\ UNCHANGED <<pc, call, setup, table, receiver, busy, outcome, error>>

DeviceSettles ==
    /\ busy /\ active = NoSlot
    /\ busy' = FALSE
    /\ UNCHANGED <<pc, call, setup, table, engine, receiver, active, outcome, ci, error>>

ReceiverFollows ==
    /\ receiver # receiving
    /\ receiver' = receiving
    /\ UNCHANGED <<pc, call, setup, table, engine, active, busy, outcome, ci, error>>

Fetch ==
    /\ engine /\ ~busy /\ active = NoSlot
    /\ \E s \in ci : active' = s
    /\ busy' = TRUE
    /\ UNCHANGED <<pc, call, setup, table, engine, receiver, outcome, ci, error>>

Ended(ok) ==
    outcome' = IF list = "kernel" THEN [asked |-> table[active], ok |-> ok]
               ELSE outcome

Complete ==
    /\ busy /\ active # NoSlot
    /\ Ended(TRUE)
    /\ ci' = ci \ {active}
    /\ active' = NoSlot /\ busy' = FALSE
    /\ UNCHANGED <<pc, call, setup, table, engine, receiver, error>>

\* When the slot is not released the engine does nothing more.
Fail ==
    /\ busy /\ active # NoSlot
    /\ Ended(FALSE)
    /\ error' = TRUE
    /\ ci' = IF ErrorReleases THEN ci \ {active} ELSE ci
    /\ active' = IF ErrorReleases THEN NoSlot ELSE active
    /\ busy' = FALSE
    /\ UNCHANGED <<pc, call, setup, table, engine, receiver>>

-----------------------------------------------------------------------------
Bringup == \/ StopEngine \/ StopReceiver \/ AwaitReceiver \/ AwaitEngine
           \/ SetList \/ AwaitStopped \/ StartReceiver \/ StartEngine

Progress == \/ AwaitDevice \/ AwaitSlot \/ ClearStatus \/ Issue
            \/ AwaitDone \/ ReadStatus \/ Acknowledge

Next ==
    \/ Bringup
    \/ \E r \in Requests : Prepare(r)
    \/ Progress
    \/ EngineRuns \/ EngineStops \/ DeviceSettles \/ ReceiverFollows
    \/ Fetch \/ Complete \/ Fail

\* The driver busy-waits, so it takes every step it can; the controller and
\* the device finish what they have begun.  Nobody has to make a call.
Fairness ==
    /\ WF_vars(Bringup) /\ WF_vars(Progress)
    /\ WF_vars(EngineRuns) /\ WF_vars(EngineStops)
    /\ WF_vars(DeviceSettles) /\ WF_vars(ReceiverFollows)
    /\ WF_vars(Fetch) /\ WF_vars(Complete \/ Fail)

Spec == Init /\ [][Next]_vars /\ Fairness

-----------------------------------------------------------------------------
(* Properties *)

\* The registers hold what they can; a slot is held for the length of a call,
\* and its table asks for what the call wants, however often the slot was used.
TypeOK ==
    /\ (slot = NoSlot) <=> (request = None)
    /\ request # None => table[slot] = request
    /\ slot \in Slots \cup {NoSlot} /\ active \in Slots \cup {NoSlot}
    /\ request \in Requests \cup {None}
    /\ table \in [Slots -> Requests \cup {None}]
    /\ ci \subseteq Slots
    /\ outcome \in Outcome
    /\ {seen, started, receiving, engine, receiver, busy, error} \subseteq BOOLEAN

\* What a call returns is how its own command ended: not how one of the
\* firmware's did, nor an earlier one, whose error flag is still set.
AnswerTrue ==
    pc = "acknowledge" => outcome = [asked |-> request, ok |-> ~seen]

\* Between calls no slot is issued, so findCommandSlot always finds one, and
\* no command of the firmware's is left to run on the kernel's tables.
AllReleased == pc = "ready" => ci = {} /\ active = NoSlot

\* The list the controller fetches from, and the area it receives into, are
\* not changed under it.
ListSettled == [][list' # list => ~engine /\ ~receiver]_vars

\* Whatever the firmware left running, the port comes up.
PortComesUp == <>(pc = "ready")

\* Every command, whether the device completes or fails it, makes its call
\* return: sendPortCommand waits without a bound.
CallsReturn == request # None ~> request = None

\* "Failed to identify drive": a command that fails is answered.
FailureAnswered == error /\ pc = "awaitDone" ~> pc = "ready"
=============================================================================
