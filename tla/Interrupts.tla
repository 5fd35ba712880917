------------------------------ MODULE Interrupts ------------------------------
(***************************************************************************)
(* How an interrupt reaches a driver (interrupt/interrupt.c, irq.c, isr.c, *)
(* apic.c) and the one driver the kernel uses it for, the serial port      *)
(* (io/serial.c).  The kernel sets things up step by step; the port, the   *)
(* I/O APIC and the local APIC go on by themselves.                        *)
(*                                                                         *)
(* The lines are edge triggered (SetIOAPICRedirection): only a line that   *)
(* goes up is noticed, and while it is masked not even that.  All vectors  *)
(* are of one priority class and all gates clear IF, so that handlers do   *)
(* not nest.                                                               *)
(*                                                                         *)
(* The usual names of a specification have an Irq before them, so that     *)
(* DriverProofs can extend this module and AhciPort.                       *)
(***************************************************************************)
EXTENDS Naturals

CONSTANTS
    Lines,        \* those with a vector and the stub (irq.c:77)
    serialIRQ,    \* 4, of COM1 (serial.c:36)
    softIRQ,      \* 12, of the int $0x2c at the end of kernelMain
    MaxBytes,     \* bound: how many bytes the port receives
    NULL

ASSUME LinesAssumption == {serialIRQ, softIRQ} \subseteq Lines
ASSUME BytesAssumption == MaxBytes \in Nat /\ NULL \notin Nat

\* A byte is its number in the order of arrival.
Bytes == 1..MaxBytes

VARIABLES
    boot,         \* the next step of the kernel
    IF_,          \* the interrupt flag
    masked,       \* I/O APIC: line -> its redirection entry is masked
    irr, isr,     \* local APIC: the lines requested, and those in service
    handlers,     \* irq.c: line -> there is a handler
    cpu,          \* the interrupt being handled: [at, line, hardware], or NULL
    activePort,   \* serial.c: it is the port, and activeRecv its client
    ier, rbr,     \* the port: it may interrupt; the byte it holds, or NULL
    arrived,      \* how many bytes have come
    taken,        \* the bytes that serialRecv has read
    overwritten,  \* those that the next one replaced before they were read
    early         \* a byte came before activePort was set

irqVars == <<boot, IF_, masked, irr, isr, handlers, cpu, activePort, ier, rbr,
             arrived, taken, overwritten, early>>

apic == <<IF_, masked, irr, isr>>
uart == <<ier, rbr, arrived, overwritten, early>>

\* The port holds its line up while it has a byte and may interrupt; the I/O
\* APIC passes on that the line goes up.
Up == ier /\ rbr # NULL
Noticed == irr' = IF Up' /\ ~Up /\ ~masked[serialIRQ] THEN irr \cup {serialIRQ} ELSE irr

-----------------------------------------------------------------------------
IrqInit ==
    /\ boot = "IRQs"
    /\ IF_ = FALSE
    /\ masked \in [Lines -> BOOLEAN]       \* as the firmware left them
    /\ irr = {} /\ isr = {}
    /\ handlers = [l \in Lines |-> FALSE]
    /\ cpu = NULL
    /\ activePort = FALSE
    /\ ier = FALSE /\ rbr = NULL
    /\ arrived = 0 /\ taken = {} /\ overwritten = {} /\ early = FALSE

\* The kernel goes on when no handler has the processor.
Kernel(from, to) == cpu = NULL /\ boot = from /\ boot' = to

(* (A slip: the lines are set up as not masked.) *)
Unmasked == [l \in Lines |-> FALSE]

\* The redirection entries that initalizeIRQs writes.
AllMasked == [l \in Lines |-> TRUE]

InitializeInterrupts ==
    /\ Kernel("IRQs", "sti")
    /\ masked' = AllMasked
    /\ UNCHANGED <<IF_, irr, isr, handlers, cpu, activePort, uart, taken>>

Sti ==
    /\ Kernel("sti", "enable")
    /\ IF_' = TRUE
    /\ UNCHANGED <<masked, irr, isr, handlers, cpu, activePort, uart, taken>>

\* InitializeSerial in four steps: the port may interrupt; installIRQ puts in
\* the handler; it clears the mask; activeRecv and activePort are set.
EnableReceive ==
    /\ Kernel("enable", "install")
    /\ ier' = TRUE /\ UNCHANGED <<rbr, arrived, overwritten, early>>
    /\ Noticed
    /\ UNCHANGED <<IF_, masked, isr, handlers, cpu, activePort, taken>>

InstallHandler ==
    /\ Kernel("install", "unmask")
    /\ handlers' = [handlers EXCEPT ![serialIRQ] = TRUE]
    /\ UNCHANGED <<apic, cpu, activePort, uart, taken>>

ClearMask ==
    /\ Kernel("unmask", "activate")
    /\ masked' = [masked EXCEPT ![serialIRQ] = FALSE]
    /\ UNCHANGED <<IF_, irr, isr, handlers, cpu, activePort, uart, taken>>

Activate ==
    /\ Kernel("activate", "int")
    /\ activePort' = TRUE
    /\ UNCHANGED <<apic, handlers, cpu, uart, taken>>

\* int $0x2c: the stub runs for a line that did not ask for it.
SoftInterrupt ==
    /\ Kernel("int", "run")
    /\ cpu' = [at |-> "stub", line |-> softIRQ, hardware |-> FALSE]
    /\ IF_' = FALSE
    /\ UNCHANGED <<masked, irr, isr, handlers, activePort, uart, taken>>

\* The processor takes a request between two instructions of the kernel, when
\* no line of the class is in service.
Deliver ==
    /\ cpu = NULL /\ IF_ /\ isr = {}
    /\ \E l \in irr :
        /\ irr' = irr \ {l}
        /\ isr' = {l}
        /\ cpu' = [at |-> "stub", line |-> l, hardware |-> TRUE]
    /\ IF_' = FALSE
    /\ UNCHANGED <<boot, masked, handlers, activePort, uart, taken>>

\* stub and serialRecv.  The default activePort, 0xFFFF, also passes for active
\* (serial.c:24): what is read from it is not the byte of the port.
Handle ==
    /\ cpu # NULL /\ cpu.at = "stub"
    /\ cpu' = [cpu EXCEPT !.at = "eoi"]
    /\ IF handlers[cpu.line] /\ activePort
       THEN rbr' = NULL /\ taken' = taken \cup ({rbr} \ {NULL})
       ELSE UNCHANGED <<rbr, taken>>
    /\ UNCHANGED <<boot, apic, handlers, activePort, ier, arrived, overwritten, early>>

(* (A slip: the stub returns without an EOI.) *)
EndsNone(l) == isr

\* The EOI ends the line in service, if there is one.
Ends(l) == {}

EndOfInterrupt ==
    /\ cpu # NULL /\ cpu.at = "eoi"
    /\ cpu' = [cpu EXCEPT !.at = "iret"]
    /\ isr' = Ends(cpu.line)
    /\ UNCHANGED <<boot, IF_, masked, irr, handlers, activePort, uart, taken>>

Iret ==
    /\ cpu # NULL /\ cpu.at = "iret"
    /\ cpu' = NULL
    /\ IF_' = TRUE
    /\ UNCHANGED <<boot, masked, irr, isr, handlers, activePort, uart, taken>>

\* The port receives a byte; one not yet read is overwritten.
Receive ==
    /\ arrived < MaxBytes
    /\ arrived' = arrived + 1 /\ rbr' = arrived + 1
    /\ overwritten' = overwritten \cup ({rbr} \ {NULL})
    /\ early' = (early \/ ~activePort)
    /\ UNCHANGED ier
    /\ Noticed
    /\ UNCHANGED <<boot, IF_, masked, isr, handlers, cpu, activePort, taken>>

Boot == \/ InitializeInterrupts \/ Sti \/ EnableReceive \/ InstallHandler
        \/ ClearMask \/ Activate \/ SoftInterrupt
Handler == Handle \/ EndOfInterrupt \/ Iret

IrqNext == Boot \/ Deliver \/ Handler \/ Receive

\* The processor runs; nothing has to arrive.
IrqSpec ==
    /\ IrqInit /\ [][IrqNext]_irqVars
    /\ WF_irqVars(Boot) /\ WF_irqVars(Deliver) /\ WF_irqVars(Handler)

-----------------------------------------------------------------------------
(* Properties *)

\* Every part of the state keeps its type.
IrqTypeOK ==
    /\ boot \in {"IRQs", "sti", "enable", "install", "unmask", "activate", "int", "run"}
    /\ masked \in [Lines -> BOOLEAN] /\ handlers \in [Lines -> BOOLEAN]
    /\ irr \in SUBSET Lines /\ isr \in SUBSET Lines
    /\ cpu \in {NULL} \cup [at : {"stub", "eoi", "iret"}, line : Lines, hardware : BOOLEAN]
    /\ {IF_, activePort, ier} \subseteq BOOLEAN
    /\ rbr \in Bytes \cup {NULL} /\ arrived \in 0..MaxBytes
    /\ taken \subseteq Bytes /\ overwritten \subseteq Bytes /\ early \in BOOLEAN

\* No request of a device finds the stub without its handler, wherever the
\* initialization is when the first byte comes (installIRQ).
AnsweredByOwner == cpu # NULL /\ cpu.hardware => handlers[cpu.line]

\* Every byte is read by serialRecv, unless the next one comes before it is or
\* a byte came before activePort was set.  That one may hold the line up for ever;
\* nothing else makes the driver miss bytes (stub, serialRecv).
BytesRead ==
    \A b \in 1..MaxBytes :
        (rbr = b /\ ~early) ~> (b \in taken \/ b \in overwritten)
=============================================================================
