-------------------------------- MODULE Boot --------------------------------
(***************************************************************************)
(* The start of the processors and their interrupts: init, ap_init and     *)
(* panic of kernel/src/main.rs, int/idt.rs, int/mod.rs, int/apic/mod.rs,   *)
(* int/apic/lapic.rs, int/apic/ioapic.rs and the one-shot timer of         *)
(* time/pit.rs.                                                            *)
(*                                                                         *)
(* The processor Bsp starts the others.  Without a local APIC (hasApic is  *)
(* FALSE) it stays alone with the PIC and the PIT.  What the handlers of   *)
(* the timer do to threads is in Scheduler, what they do to the time in    *)
(* Clock.                                                                  *)
(***************************************************************************)
EXTENDS Integers, FiniteSets, FiniteSetsExt

CONSTANTS Aps, Bsp, None,
          MaxListed,   \* bound of the processors in the MADT
          MapAddr      \* addresses of the vectors of LAPIC_ID_MAP

ASSUME BootConstants == IsFiniteSet(Aps) /\ Bsp \notin Aps /\ None \notin Aps \cup {Bsp}
ASSUME NoneAssumption ==   \* None is no id, vector or handler
  /\ None \notin Nat
  /\ None \notin {"ipi_panic", "time_handler", "ipi_process_exit_handler",
                  "timer_irq_handler", "tick", "one_shot_handler"}
(* A processor that answers the start-up interrupt is in the MADT.         *)
ASSUME ListedAssumption == MaxListed \in Nat /\ Cardinality(Aps) <= MaxListed

Proc == Aps \cup {Bsp}

IRQ_BASE == 32
IRQ_TIMER == 32
IRQ_KEYBOARD == 33
IPI_PROCESS_EXIT == 129
IPI_PANIC == 130
Vec == {IRQ_TIMER, IRQ_KEYBOARD, IPI_PROCESS_EXIT, IPI_PANIC}
MAX_HANDLERS == 4
MAX_IRQ_INDEX == 23   \* of an io apic with 24 entries

VARIABLES hasApic, overrides,  \* the machine: cpuid and the MADT
          listed,              \* the other processors in the MADT, disabled ones included
          lapic0,              \* the processor whose local APIC has the id 0
          pc,                  \* where a processor is in its start-up
          useApic, fired, calibrated, apsToBoot, apsGo, allocLock, idc,
          id,                  \* prid of a processor
          mapPtr, mapHeap, mapPc, mapOp, mapOld, mapNew,   \* LAPIC_ID_MAP
          lapic,               \* set_lapic was called
          hnd, over,           \* handlers and handler_override of the idt
          pit,                 \* the PIT gives ticks
          routed,              \* the irqs with an entry in the io apic
          armed,               \* the timer of the local APIC runs
          intr, inh,           \* interrupts are on; the vector in its handler
          irr, isr             \* the controller: pending, in service

machine == <<hasApic, overrides, listed, lapic0>>
mapVars == <<mapPtr, mapHeap, mapPc, mapOp, mapOld, mapNew>>

bootVars == <<machine, pc, useApic, fired, calibrated, apsToBoot, apsGo, allocLock, idc,
              id, mapVars, lapic, hnd, over, pit, routed, armed, intr, inh, irr, isr>>

globals == <<machine, useApic, fired, calibrated, apsToBoot, apsGo, allocLock, idc, mapVars, pit, routed>>

(* LAPIC_ID_MAP, in which a processor puts its prid and the id of its      *)
(* local APIC, is a vector without a lock.                                 *)
IdMap == INSTANCE NLVec WITH Key <- 0 .. MaxListed, Val <- {"apic id"}, Addr <- MapAddr,
                             ptr <- mapPtr, heap <- mapHeap, pc <- mapPc, op <- mapOp, old <- mapOld, new <- mapNew
idMap == DOMAIN mapHeap[mapPtr]

Goto(p, from, to) == pc[p] = from /\ pc' = [pc EXCEPT ![p] = to]

(***************************************************************************)
(* Handlers of interrupts.                                                 *)
(***************************************************************************)

(* Handler::register: First, Last, or the first free place after First;    *)
(* an error, which each caller unwraps, if that is taken.                  *)
Slot(t, v, where) ==
  CASE where = "First" -> 0
    [] where = "Last" -> MAX_HANDLERS - 1
    [] where = "Normal" -> Min({i \in 1 .. MAX_HANDLERS - 1 : t[v][i] = None})
CanRegister(t, v, where) ==
  IF where = "Normal" THEN \E i \in 1 .. MAX_HANDLERS - 1 : t[v][i] = None ELSE t[v][Slot(t, v, where)] = None
Register(t, v, where, f) == [t EXCEPT ![v][Slot(t, v, where)] = f]

(* rust_int_handler: the override alone, or every handler in its place.    *)
Runs(p, v) ==
  IF v = IRQ_TIMER /\ over[p] # None THEN {over[p]}
  ELSE {hnd[p][v][i] : i \in 0 .. MAX_HANDLERS - 1} \ {None}

(* The handlers that every processor registers before its scheduler runs.  *)
NoHandlers == [v \in Vec |-> [i \in 0 .. MAX_HANDLERS - 1 |-> None]]
PanicHandlers == Register(NoHandlers, IPI_PANIC, "First", "ipi_panic")
CanSched(t) == CanRegister(t, IRQ_TIMER, "Last") /\ CanRegister(t, IPI_PROCESS_EXIT, "First")
SchedHandlers(t) ==
  Register(Register(t, IRQ_TIMER, "Last", "time_handler"), IPI_PROCESS_EXIT, "First", "ipi_process_exit_handler")

(***************************************************************************)
(* init of main.rs, on the first processor.                                *)
(***************************************************************************)

(* config::init, kdata::init, idt::init and the first handlers.            *)
BspStart ==
  /\ Goto(Bsp, "reset", "idt")
  /\ useApic' = hasApic
  /\ hnd' = [hnd EXCEPT ![Bsp] = PanicHandlers]
  /\ UNCHANGED <<machine, fired, calibrated, apsToBoot, apsGo, allocLock, idc, id, mapVars,
                 lapic, over, pit, routed, armed, intr, inh, irr, isr>>

(* sched::init                                                             *)
BspSched ==
  /\ Goto(Bsp, "idt", "sched")
  /\ CanSched(hnd[Bsp]) /\ hnd' = [hnd EXCEPT ![Bsp] = SchedHandlers(@)]
  /\ UNCHANGED <<globals, id, lapic, over, armed, intr, inh, irr, isr>>

(* pic::remap and pit::init, then sti in _start.                           *)
BspPit ==
  /\ ~useApic /\ Goto(Bsp, "sched", "run")
  /\ CanRegister(hnd[Bsp], IRQ_TIMER, "First")
  /\ hnd' = [hnd EXCEPT ![Bsp] = Register(@, IRQ_TIMER, "First", "timer_irq_handler")]
  /\ pit' = TRUE /\ intr' = [intr EXCEPT ![Bsp] = TRUE]
  /\ UNCHANGED <<machine, useApic, fired, calibrated, apsToBoot, apsGo, allocLock, idc, id, mapVars,
                 lapic, over, routed, armed, inh, irr, isr>>

(* IrqOverrides::get_irq: the number of an irq at the io apic.  One that   *)
(* the MADT does not override keeps its vector as number.                  *)
GetIrq(irq) == IF irq \in overrides THEN irq - IRQ_BASE ELSE irq

(* IoApic::set_irq_entry does nothing beyond the last entry.               *)
IrqIndex(sysint) == sysint <= MAX_IRQ_INDEX

(* pic::disable, pit.disable and the first part of apic::init.             *)
BspIoApic ==
  /\ useApic /\ Goto(Bsp, "sched", "lapic")
  /\ routed' = {irq \in {IRQ_TIMER, IRQ_KEYBOARD} : IrqIndex(GetIrq(irq))}
  /\ pit' = FALSE
  /\ UNCHANGED <<machine, useApic, fired, calibrated, apsToBoot, apsGo, allocLock, idc, id, mapVars,
                 lapic, hnd, over, armed, intr, inh, irr, isr>>

(***************************************************************************)
(* The local APIC of each processor.                                       *)
(***************************************************************************)

(* LocalApic::from, up to the insert in LAPIC_ID_MAP.                      *)
LapicFrom(p) ==
  /\ Goto(p, "lapic", "insert")
  /\ IdMap!Call(p, [fn |-> "insert", key |-> id[p], val |-> "apic id"])
  /\ UNCHANGED <<machine, useApic, fired, calibrated, apsToBoot, apsGo, allocLock, idc, id,
                 lapic, hnd, over, pit, routed, armed, intr, inh, irr, isr>>

(* The load, the copy and the compare-exchange of NLVec::write; then the   *)
(* local APIC is enabled.                                                  *)
Insert(p) ==
  /\ pc[p] = "insert"
  /\ IdMap!Load(p) \/ IdMap!Clone(p) \/ IdMap!Cas(p)
  /\ pc' = [pc EXCEPT ![p] = IF mapPc'[p] = "idle" THEN "timer" ELSE "insert"]
  /\ UNCHANGED <<machine, useApic, fired, calibrated, apsToBoot, apsGo, allocLock, idc, id,
                 lapic, hnd, over, pit, routed, armed, intr, inh, irr, isr>>

(* Mutant: the handler would send its eoi to a local APIC that is not set. *)
CalibrateWithApic(p) ==
  /\ ~calibrated /\ Goto(p, "timer", "calibrate")
  /\ intr' = [intr EXCEPT ![p] = TRUE]
  /\ over' = [over EXCEPT ![p] = "one_shot_handler"]
  /\ pit' = TRUE
  /\ UNCHANGED <<machine, useApic, fired, calibrated, apsToBoot, apsGo, allocLock, idc, id, mapVars,
                 lapic, hnd, routed, armed, inh, irr, isr>>

(* nanosec_per_timer_tick, up to the loop; Pit::one_shot.                  *)
Calibrate(p) ==
  /\ ~calibrated /\ Goto(p, "timer", "calibrate")
  /\ useApic' = FALSE
  /\ intr' = [intr EXCEPT ![p] = TRUE]
  /\ over' = [over EXCEPT ![p] = "one_shot_handler"]
  /\ pit' = TRUE
  /\ UNCHANGED <<machine, fired, calibrated, apsToBoot, apsGo, allocLock, idc, id, mapVars,
                 lapic, hnd, routed, armed, inh, irr, isr>>

(* Mutant: the interrupt of the PIT is never acknowledged.                 *)
CalibratedNoEoi(p) ==
  /\ fired /\ inh[p] = None /\ Goto(p, "calibrate", "timer")
  /\ intr' = [intr EXCEPT ![p] = FALSE]
  /\ useApic' = TRUE /\ fired' = FALSE /\ calibrated' = TRUE
  /\ UNCHANGED <<machine, apsToBoot, apsGo, allocLock, idc, id, mapVars,
                 lapic, hnd, over, pit, routed, armed, inh, irr, isr>>

Calibrated(p) ==
  /\ fired /\ inh[p] = None /\ Goto(p, "calibrate", "timer")
  /\ intr' = [intr EXCEPT ![p] = FALSE]
  /\ useApic' = TRUE /\ fired' = FALSE /\ calibrated' = TRUE
  /\ isr' = [isr EXCEPT ![p] = IF @ = {} THEN {} ELSE @ \ {Max(@)}]
  /\ UNCHANGED <<machine, apsToBoot, apsGo, allocLock, idc, id, mapVars,
                 lapic, hnd, over, pit, routed, armed, inh, irr>>

(* The rest of init_timer, and set_lapic.                                  *)
InitTimer(p) ==
  /\ calibrated /\ Goto(p, "timer", IF p = Bsp THEN "smp" ELSE "count")
  /\ CanRegister(hnd[p], IRQ_TIMER, "First")
  /\ hnd' = [hnd EXCEPT ![p] = Register(@, IRQ_TIMER, "First", "tick")]
  /\ armed' = [armed EXCEPT ![p] = TRUE]
  /\ lapic' = [lapic EXCEPT ![p] = TRUE]
  /\ UNCHANGED <<globals, id, over, intr, inh, irr, isr>>

(***************************************************************************)
(* smp_init and the start of the other processors.                         *)
(***************************************************************************)

(* Everything up to the init ipi to all others.                            *)
SmpInit ==
  /\ pc[Bsp] = "smp"
  /\ pc' = [p \in Proc |-> IF p = Bsp THEN "sipi" ELSE IF pc[p] = "off" THEN "wait" ELSE pc[p]]
  /\ apsToBoot' = listed /\ idc' = 1
  /\ UNCHANGED <<machine, useApic, fired, calibrated, apsGo, allocLock, id, mapVars,
                 lapic, hnd, over, pit, routed, armed, intr, inh, irr, isr>>

(* The loop sends startup ipis again and again; one may be lost, and one   *)
(* that reaches a processor that has started is ignored.                   *)
Sipi(p) ==
  /\ pc[Bsp] = "sipi" /\ apsToBoot > 0
  /\ Goto(p, "wait", "start")
  /\ UNCHANGED <<globals, id, lapic, hnd, over, armed, intr, inh, irr, isr>>

(* Mutant: one processor too few is waited for.                            *)
SmpDoneEarly ==
  /\ apsToBoot <= 1 /\ Goto(Bsp, "sipi", "run")
  /\ apsGo' = TRUE
  /\ intr' = [intr EXCEPT ![Bsp] = TRUE]
  /\ UNCHANGED <<machine, useApic, fired, calibrated, apsToBoot, allocLock, idc, id, mapVars,
                 lapic, hnd, over, pit, routed, armed, inh, irr, isr>>

SmpDone ==
  /\ apsToBoot = 0 /\ Goto(Bsp, "sipi", "run")
  /\ apsGo' = TRUE
  /\ intr' = [intr EXCEPT ![Bsp] = TRUE]
  /\ UNCHANGED <<machine, useApic, fired, calibrated, apsToBoot, allocLock, idc, id, mapVars,
                 lapic, hnd, over, pit, routed, armed, inh, irr, isr>>

(* Mutant: the id is taken from the count of processors to wait for.       *)
GetIdByCount(p) ==
  /\ Goto(p, "start", "kdata")
  /\ id' = [id EXCEPT ![p] = listed + 1 - apsToBoot]
  /\ UNCHANGED <<globals, lapic, hnd, over, armed, intr, inh, irr, isr>>

(* ap_boot.asm: lock xadd; the stack is the one of this id.                *)
GetId(p) ==
  /\ Goto(p, "start", "kdata")
  /\ id' = [id EXCEPT ![p] = idc] /\ idc' = idc + 1
  /\ UNCHANGED <<machine, useApic, fired, calibrated, apsToBoot, apsGo, allocLock, mapVars,
                 lapic, hnd, over, pit, routed, armed, intr, inh, irr, isr>>

(* AP_ALLOC_LOCK, in kdata::init and in sched::ap_init.                    *)
Lock(p) ==
  /\ allocLock = None /\ allocLock' = p
  /\ \/ Goto(p, "kdata", "kdata_locked")
     \/ Goto(p, "idt", "sched_locked")
  /\ UNCHANGED <<machine, useApic, fired, calibrated, apsToBoot, apsGo, idc, id, mapVars,
                 lapic, hnd, over, pit, routed, armed, intr, inh, irr, isr>>

(* kdata::init, idt::init and the first handlers; sched::ap_init.          *)
Unlock(p) ==
  /\ allocLock' = None
  /\ \/ Goto(p, "kdata_locked", "idt") /\ hnd' = [hnd EXCEPT ![p] = PanicHandlers]
     \/ Goto(p, "sched_locked", "lapic") /\ CanSched(hnd[p]) /\ hnd' = [hnd EXCEPT ![p] = SchedHandlers(@)]
  /\ UNCHANGED <<machine, useApic, fired, calibrated, apsToBoot, apsGo, idc, id, mapVars,
                 lapic, over, pit, routed, armed, intr, inh, irr, isr>>

(* Mutant: the count is read by two processors at once and one is lost.    *)
CountLost(p) ==
  /\ Goto(p, "count", "spin")
  /\ apsToBoot' = IF \E q \in Aps \ {p} : pc[q] = "count" THEN apsToBoot ELSE apsToBoot - 1
  /\ UNCHANGED <<machine, useApic, fired, calibrated, apsGo, allocLock, idc, id, mapVars,
                 lapic, hnd, over, pit, routed, armed, intr, inh, irr, isr>>

(* The end of apic::ap_init: fetch_sub, the loop on APS_GO, and sti.       *)
Count(p) ==
  /\ Goto(p, "count", "spin")
  /\ apsToBoot' = apsToBoot - 1
  /\ UNCHANGED <<machine, useApic, fired, calibrated, apsGo, allocLock, idc, id, mapVars,
                 lapic, hnd, over, pit, routed, armed, intr, inh, irr, isr>>

Go(p) ==
  /\ apsGo /\ Goto(p, "spin", "run")
  /\ intr' = [intr EXCEPT ![p] = TRUE]
  /\ UNCHANGED <<globals, id, lapic, hnd, over, armed, inh, irr, isr>>

(***************************************************************************)
(* Interrupts.                                                             *)
(***************************************************************************)

(* What is pending on a processor that has stopped for good is not kept.   *)
Stopped(p) == pc[p] \in {"halt", "panic_loop"}
Raise(ps, v) ==
  /\ irr' = [p \in Proc |-> IF p \in ps /\ ~Stopped(p) THEN irr[p] \cup {v} ELSE irr[p]]
  /\ UNCHANGED <<globals, id, lapic, hnd, over, armed, inh, isr>>

(* The destinations of CmdReg and of an entry of the io apic.  A fixed     *)
(* interrupt reaches a processor whose local APIC LocalApic::from has      *)
(* enabled, if it has not stopped.                                         *)
AllExcludeThis(p) == Proc \ {p}
OtherPhysical(i) == {q \in Proc : id[q] = i}
Targets(dest) == {q \in dest : pc[q] \in {"timer", "calibrate", "smp", "sipi", "count", "spin", "run"}}

(* The timer of a local APIC, the PIT, whose irq goes to the local APIC    *)
(* with the id 0, and a device.                                            *)
TimerFires(p) == armed[p] /\ Raise({p}, IRQ_TIMER) /\ UNCHANGED <<pc, intr>>
PitFires ==
  /\ pit /\ (hasApic => IRQ_TIMER \in routed)
  /\ Raise(IF hasApic THEN Targets({lapic0}) ELSE {Bsp}, IRQ_TIMER) /\ UNCHANGED <<pc, intr>>
KeyPress ==
  /\ pc[Bsp] \notin {"reset", "idt"} /\ (hasApic => IRQ_KEYBOARD \in routed)
  /\ Raise({Bsp}, IRQ_KEYBOARD) /\ UNCHANGED <<pc, intr>>

(* Ipi::process_exit.  A prid that is not in LAPIC_ID_MAP is an unwrap of  *)
(* None, and Panic the next step.                                          *)
SendExit(p, q) ==
  /\ pc[p] = "run" /\ pc[q] = "run" /\ lapic[p] /\ id[q] \in idMap
  /\ Raise(Targets(OtherPhysical(id[q])), IPI_PROCESS_EXIT) /\ UNCHANGED <<pc, intr>>

(* A processor takes the highest vector that is pending, if its class is   *)
(* above that of all vectors in service.                                   *)
Class(v) == v \div 16
Takes(p, v) ==
  /\ intr[p] /\ v \in irr[p]
  /\ \A w \in irr[p] : w <= v
  /\ \A w \in isr[p] : Class(v) > Class(w)

(* rust_int_handler.                                                       *)
Interrupt(p, v) ==
  LET f == Runs(p, v)
      oneShot == "one_shot_handler" \in f
  IN /\ Takes(p, v)
     /\ irr' = [irr EXCEPT ![p] = IF "ipi_panic" \in f THEN {} ELSE @ \ {v}]
     /\ isr' = [isr EXCEPT ![p] = @ \cup {v}]
     /\ inh' = [inh EXCEPT ![p] = v]
     /\ intr' = [intr EXCEPT ![p] = FALSE]
     /\ pc' = [pc EXCEPT ![p] = IF "ipi_panic" \in f THEN "halt" ELSE @]
     /\ pit' = (pit /\ ~oneShot)
     /\ fired' = (fired \/ oneShot)
     /\ over' = [over EXCEPT ![p] = IF oneShot THEN None ELSE @]
     /\ UNCHANGED <<machine, useApic, calibrated, apsToBoot, apsGo, allocLock, idc, id, mapVars,
                    lapic, hnd, routed, armed>>

(* int.asm: an irq ends with eoi(), which goes to the controller that      *)
(* use_apic names; the two ipis end without one.                           *)
Eoi(p, v) ==
  IF v >= IPI_PROCESS_EXIT \/ useApic # hasApic THEN isr[p] ELSE isr[p] \ {Max(isr[p])}

Return(p) ==
  /\ inh[p] # None /\ ~Stopped(p)
  /\ isr' = [isr EXCEPT ![p] = Eoi(p, inh[p])]
  /\ inh' = [inh EXCEPT ![p] = None]
  /\ intr' = [intr EXCEPT ![p] = TRUE]
  /\ UNCHANGED <<globals, pc, id, lapic, hnd, over, armed, irr>>

(* Mutant: the ipi goes to the processor that panics.                      *)
PanicToThis(p) ==
  /\ pc[p] \in {"idt", "sched", "sched_locked", "lapic", "insert", "timer", "smp", "count", "run"}
  /\ pc' = [pc EXCEPT ![p] = IF lapic[p] THEN "halt" ELSE "panic_loop"]
  /\ intr' = [intr EXCEPT ![p] = FALSE]
  /\ irr' = [irr EXCEPT ![p] = {}]
  /\ UNCHANGED <<globals, id, lapic, hnd, over, armed, inh, isr>>

(* The panic handler asks for the local APIC first: without one it panics  *)
(* again.  An ipi reaches the processors whose local APIC is enabled.      *)
Panic(p) ==
  /\ pc[p] \in {"idt", "sched", "sched_locked", "lapic", "insert", "timer", "smp", "count", "run"}
  /\ pc' = [pc EXCEPT ![p] = IF lapic[p] THEN "halt" ELSE "panic_loop"]
  /\ intr' = [intr EXCEPT ![p] = FALSE]
  /\ LET reached == {q \in Targets(AllExcludeThis(p)) : lapic[p] /\ ~Stopped(q)}
     IN irr' = [q \in Proc |-> IF q = p THEN {} ELSE irr[q] \cup (IF q \in reached THEN {IPI_PANIC} ELSE {})]
  /\ UNCHANGED <<globals, id, lapic, hnd, over, armed, inh, isr>>

Init ==
  /\ hasApic \in BOOLEAN /\ overrides \in SUBSET {IRQ_TIMER, IRQ_KEYBOARD}
  /\ listed \in Cardinality(Aps) .. MaxListed /\ lapic0 \in Proc
  /\ pc = [p \in Proc |-> IF p = Bsp THEN "reset" ELSE "off"]
  /\ useApic = TRUE /\ fired = FALSE /\ calibrated = FALSE
  /\ apsToBoot = 0 /\ apsGo = FALSE /\ allocLock = None /\ idc = 0
  /\ id = [p \in Proc |-> IF p = Bsp THEN 0 ELSE None]
  /\ IdMap!Init /\ mapPtr = CHOOSE a \in MapAddr : TRUE
  /\ lapic = [p \in Proc |-> FALSE]
  /\ hnd = [p \in Proc |-> NoHandlers] /\ over = [p \in Proc |-> None]
  /\ pit = FALSE /\ routed = {}
  /\ armed = [p \in Proc |-> FALSE] /\ intr = [p \in Proc |-> FALSE]
  /\ inh = [p \in Proc |-> None]
  /\ irr = [p \in Proc |-> {}] /\ isr = [p \in Proc |-> {}]

(* The steps that code takes by itself, and the ones of the hardware.      *)
Step(p) ==
  \/ LapicFrom(p) \/ Insert(p) \/ Calibrate(p) \/ Calibrated(p) \/ InitTimer(p)
  \/ p \in Aps /\ (GetId(p) \/ Lock(p) \/ Unlock(p) \/ Count(p) \/ Go(p))
  \/ Return(p) \/ \E v \in Vec : Interrupt(p, v)
BspStep == BspStart \/ BspSched \/ BspPit \/ BspIoApic \/ SmpInit \/ SmpDone

BootNext ==
  \/ BspStep \/ PitFires \/ KeyPress
  \/ \E p \in Proc : Step(p) \/ TimerFires(p) \/ Panic(p)
  \/ \E p \in Aps : Sipi(p)
  \/ \E p, q \in Proc : SendExit(p, q)

BootSpec == Init /\ [][BootNext]_bootVars

(* Every processor goes on, the PIT fires, and a startup ipi that is sent  *)
(* again and again arrives.  No panic, key or timer need ever come.        *)
BootFairness ==
  /\ WF_bootVars(BspStep) /\ WF_bootVars(PitFires)
  /\ \A p \in Proc : WF_bootVars(Step(p))
  /\ \A p \in Aps : WF_bootVars(Sipi(p))

(***************************************************************************)
(* Properties.                                                             *)
(***************************************************************************)

(* The types. *)
TypeOK ==
  /\ pc \in [Proc -> {"off", "wait", "start", "reset", "kdata", "kdata_locked", "idt", "sched", "sched_locked",
                      "lapic", "insert", "timer", "calibrate", "smp", "sipi", "count", "spin",
                      "run", "halt", "panic_loop"}]
  /\ apsToBoot \in 0 .. listed
  /\ id \in [Proc -> 0 .. listed \cup {None}]
  /\ mapPc \in [Proc -> {"idle", "load", "use", "cas"}]
  /\ allocLock \in Proc \cup {None}
  /\ irr \in [Proc -> SUBSET Vec] /\ isr \in [Proc -> SUBSET Vec]
  /\ inh \in [Proc -> Vec \cup {None}]

(* Two processors that have started never share an id, and with it a stack *)
(* and the lists of the scheduler, however often the start-up interrupts   *)
(* are repeated; and no id is beyond the vector of stacks.                 *)
OwnId ==
  \A p \in Proc : id[p] # None =>
    /\ id[p] <= listed
    /\ \A q \in Proc \ {p} : id[p] # id[q]

(* An interrupt is only ever taken by a processor that can handle it: the  *)
(* timer and both ipis have their handlers, the scheduler has a running    *)
(* thread to save registers to, and an eoi that goes to the local APIC     *)
(* finds it set.  The window in which nanosec_per_timer_tick lets          *)
(* interrupts in before set_lapic is the case that is easily got wrong.    *)
Handled ==
  \A p \in Proc : inh[p] # None =>
    /\ "time_handler" \in Runs(p, IRQ_TIMER) \/ pc[p] = "calibrate"
    /\ (inh[p] # IRQ_KEYBOARD /\ pc[p] # "calibrate") => Runs(p, inh[p]) # {}
    /\ (inh[p] \in {IRQ_TIMER, IRQ_KEYBOARD} /\ useApic) => lapic[p]

(* Outside of handlers and calibration no irq is left in service: the      *)
(* timer can interrupt again.  (Only the exit ipi, which is never          *)
(* acknowledged, may stay.)                                                *)
Acknowledged ==
  \A p \in Proc : inh[p] = None /\ pc[p] # "calibrate" => isr[p] \subseteq {IPI_PROCESS_EXIT}

(* No processor runs, and sends interrupts to the others, before each of   *)
(* them has set its local APIC: APS_TO_BOOT and APS_GO of smp_init and     *)
(* ap_init, whatever the order in which the others start and count.        *)
AllUp ==
  hasApic /\ (\E p \in Proc : pc[p] = "run") => \A q \in Proc : lapic[q]

(* Every processor that runs is in LAPIC_ID_MAP: IpiDest::to_prid, which   *)
(* Ipi::process_exit calls, unwraps what it finds there.                   *)
IdsKept == \A q \in Proc : hasApic /\ pc[q] = "run" => id[q] \in idMap

(* With the timer irq in the MADT, no device that interrupts during the    *)
(* calibration, the local APIC of the first processor with the id 0 and no *)
(* disabled processor in the MADT, the start ends on every processor,      *)
(* unless one panics.                                                      *)
BootEnds ==
  (hasApic => overrides = {IRQ_TIMER} /\ lapic0 = Bsp /\ listed = Cardinality(Aps)) =>
    <>(\/ \A p \in Proc : (hasApic \/ p = Bsp) => pc[p] = "run"
       \/ \E p \in Proc : Stopped(p))

(* When a processor that has its local APIC panics, the others stop: all   *)
(* that run, except those in which the exit ipi was never acknowledged,    *)
(* for which the class of the panic ipi is not high enough.                *)
PanicStops ==
  \A q \in Proc :
    ((\E p \in Proc : pc[p] = "halt") /\ pc[q] = "run") ~> (Stopped(q) \/ IPI_PROCESS_EXIT \in isr[q])
=============================================================================
