----------------------------- MODULE BootProofs -----------------------------
(***************************************************************************)
(* Proofs about module Boot, for any number of processors.                 *)
(***************************************************************************)
EXTENDS Boot, FiniteSetTheorems, TLAPS

-----------------------------------------------------------------------------
(* The inductive invariant.                                                *)

N == Cardinality(Aps)

ApLabels == {"off", "wait", "start", "kdata", "kdata_locked", "idt", "sched_locked",
             "lapic", "insert", "timer", "count", "spin", "run", "halt", "panic_loop"}
BspLabels == {"reset", "idt", "sched", "lapic", "insert", "timer", "calibrate", "smp", "sipi",
              "run", "halt", "panic_loop"}

Handlers == {"ipi_panic", "time_handler", "ipi_process_exit_handler",
             "timer_irq_handler", "tick", "one_shot_handler"}
HandlerNames == (Handlers \ {"one_shot_handler"}) \cup {None}
Table == [Vec -> [0 .. MAX_HANDLERS - 1 -> HandlerNames]]

(* The types, with the labels of each kind of processor. *)
BootTypes ==
  /\ hasApic \in BOOLEAN /\ useApic \in BOOLEAN /\ fired \in BOOLEAN
  /\ calibrated \in BOOLEAN /\ apsGo \in BOOLEAN
  /\ listed \in N .. MaxListed
  /\ mapPc \in [Proc -> {"idle", "load", "use", "cas"}]
  /\ pc \in [Proc -> ApLabels \cup BspLabels]
  /\ pc[Bsp] \in BspLabels /\ \A a \in Aps : pc[a] \in ApLabels
  /\ allocLock \in Proc \cup {None}
  /\ lapic \in [Proc -> BOOLEAN] /\ intr \in [Proc -> BOOLEAN]
  /\ hnd \in [Proc -> Table] /\ over \in [Proc -> {"one_shot_handler", None}]
  /\ irr \in [Proc -> SUBSET Vec] /\ isr \in [Proc -> SUBSET Vec]
  /\ inh \in [Proc -> Vec \cup {None}]

(* The processors that have taken an id. *)
Numbered == {a \in Aps : id[a] # None}

(* The ids given out are 1 .. idc - 1, each to one processor; before the   *)
(* first processor reaches smp_init, which sets idc, the others are off.   *)
IdInv ==
  /\ idc \in Nat /\ id \in [Proc -> Nat \cup {None}]
  /\ id[Bsp] = 0
  /\ \A a \in Aps : id[a] = None <=> pc[a] \in {"off", "wait", "start"}
  /\ \A a \in Aps : id[a] # None => 0 < id[a] /\ id[a] < idc
  /\ \A a, b \in Aps : id[a] = id[b] /\ id[a] # None => a = b
  /\ idc = 0 \/ idc = 1 + Cardinality(Numbered)
  /\ idc = 0 => \A a \in Aps : pc[a] = "off"
  /\ pc[Bsp] \in {"reset", "idt", "sched", "lapic", "insert", "timer", "calibrate", "smp"}
       => \A a \in Aps : pc[a] = "off"
  /\ pc[Bsp] = "sipi" => idc # 0

(* The time before the timer is calibrated: the first processor is alone,  *)
(* use_apic is off in the window with interrupts on, and the handler of    *)
(* the one shot is in place until it has fired.                            *)
CalInv ==
  /\ ~calibrated => /\ \A a \in Aps : pc[a] = "off"
                    /\ \A p \in Proc : ~lapic[p]
                    /\ irr[Bsp] \subseteq {IRQ_TIMER, IRQ_KEYBOARD}
  /\ pc[Bsp] \in {"smp", "sipi"} => calibrated
  /\ pc[Bsp] = "calibrate" => ~calibrated /\ ~useApic /\ hasApic
  /\ pc[Bsp] \in {"lapic", "insert", "timer", "smp", "sipi"} => useApic /\ hasApic
  /\ pc[Bsp] \in {"idt", "sched", "run"} => useApic = hasApic
  /\ \A a \in Aps : pc[a] # "off" => useApic /\ hasApic
  /\ fired => pc[Bsp] = "calibrate" /\ over[Bsp] = None
  /\ \A p \in Proc : over[p] # None => p = Bsp /\ pc[p] = "calibrate"

(* The processors that have not been counted yet. *)
Uncounted == {a \in Aps : ~lapic[a] \/ pc[a] = "count"}

(* apsToBoot is no less than the processors that are still to come: it is  *)
(* more when one of them panicked.                                         *)
TallyInv ==
  /\ apsToBoot \in 0 .. listed
  /\ idc # 0 => Cardinality(Uncounted) <= apsToBoot

(* Up to the timer a processor has no local APIC. *)
EarlyLabels == {"reset", "off", "wait", "start", "kdata", "kdata_locked", "idt", "sched",
                "sched_locked", "lapic", "insert", "timer", "calibrate"}

(* A processor is counted after it has set its local APIC, and nobody      *)
(* passes APS_GO before all are counted.                                   *)
UpInv ==
  /\ \A q \in Proc : pc[q] \in {"smp", "sipi", "count", "spin"} => lapic[q]
  /\ \A q \in Proc : pc[q] \in EarlyLabels => ~lapic[q]
  /\ apsGo => \A q \in Proc : lapic[q]
  /\ \A a \in Aps : pc[a] = "run" => apsGo
  /\ hasApic /\ pc[Bsp] = "run" => apsGo

(* The handlers that sched::init and what comes before it register. *)
Registered(p) ==
  /\ hnd[p][IRQ_TIMER][MAX_HANDLERS - 1] = "time_handler"
  /\ hnd[p][IPI_PROCESS_EXIT][0] = "ipi_process_exit_handler"
  /\ hnd[p][IPI_PANIC][0] = "ipi_panic"

HandlerInv ==
  \A p \in Proc :
    /\ pc[p] \in {"sched", "lapic", "insert", "timer", "calibrate", "smp", "sipi", "count", "spin", "run"}
         => Registered(p)
    /\ pc[p] \in {"idt", "sched_locked"} => hnd[p] = PanicHandlers
    /\ \A v \in Vec, i \in 0 .. MAX_HANDLERS - 1 : hnd[p][v][i] = "ipi_panic" => v = IPI_PANIC

(* Interrupts are let in only where they can be handled, one at a time;    *)
(* what is in service is the one in its handler, or an exit ipi.           *)
IntrAt(p) ==
  /\ intr[p] => pc[p] \in {"calibrate", "run"} /\ inh[p] = None
  /\ inh[p] # None => pc[p] \in {"calibrate", "run", "halt", "panic_loop"}
  /\ inh[p] # None /\ pc[p] # "calibrate" => Registered(p) /\ (useApic => lapic[p])
  /\ inh[p] # None /\ pc[p] \in {"calibrate", "run"} => isr[p] = {inh[p]}
  /\ inh[p] = None /\ pc[p] # "calibrate" => isr[p] \subseteq {IPI_PROCESS_EXIT}
  /\ pc[p] \notin {"calibrate", "run", "halt", "panic_loop"} => isr[p] = {}
  /\ pc[p] = "calibrate" => isr[p] \in {{}, {IRQ_TIMER}, {IRQ_KEYBOARD}}
  /\ inh[p] = IPI_PANIC => pc[p] \notin {"calibrate", "run"}
IntrInv == \A p \in Proc : IntrAt(p)

BootInv ==
  /\ BootTypes /\ IdInv /\ CalInv /\ TallyInv /\ UpInv /\ HandlerInv /\ IntrInv

-----------------------------------------------------------------------------
(* Facts about the constants and about the handler tables.                 *)

(* The processors, and None, which is no id, vector or handler. *)
LEMMA Names ==
  /\ Bsp \in Proc /\ Aps \subseteq Proc /\ Bsp \notin Aps
  /\ \A p \in Proc : p # Bsp => p \in Aps
  /\ None \notin Vec
  /\ None \notin Handlers
<1>1. /\ Bsp \in Proc /\ Aps \subseteq Proc /\ Bsp \notin Aps
      /\ \A p \in Proc : p # Bsp => p \in Aps
  BY BootConstants DEF Proc
<1>2. Vec \subseteq Nat
  BY DEF Vec, IRQ_TIMER, IRQ_KEYBOARD, IPI_PROCESS_EXIT, IPI_PANIC
<1>3. None \notin Vec
  BY <1>2, NoneAssumption
<1>. QED
  BY <1>1, <1>3, NoneAssumption DEF Handlers

(* The vectors are different. *)
LEMMA Vectors ==
  /\ IRQ_TIMER \in Vec /\ IRQ_KEYBOARD \in Vec /\ IPI_PROCESS_EXIT \in Vec /\ IPI_PANIC \in Vec
  /\ IRQ_TIMER # IRQ_KEYBOARD /\ IRQ_TIMER # IPI_PROCESS_EXIT /\ IRQ_TIMER # IPI_PANIC
  /\ IRQ_KEYBOARD # IPI_PROCESS_EXIT /\ IRQ_KEYBOARD # IPI_PANIC
  /\ IPI_PROCESS_EXIT # IPI_PANIC
BY DEF Vec, IRQ_TIMER, IRQ_KEYBOARD, IPI_PROCESS_EXIT, IPI_PANIC

(* Every register() but the ones of drivers is for the first or the last   *)
(* place of a vector, and changes that place only.                         *)
LEMMA RegisterFirst ==
  ASSUME NEW t \in Table, NEW v \in Vec, NEW f \in HandlerNames
  PROVE  /\ Register(t, v, "First", f) \in Table
         /\ Register(t, v, "First", f)[v][0] = f
         /\ \A w \in Vec, i \in 0 .. MAX_HANDLERS - 1 :
              w # v \/ i # 0 => Register(t, v, "First", f)[w][i] = t[w][i]
<1>1. Slot(t, v, "First") = 0
  BY DEF Slot
<1>2. 0 \in 0 .. MAX_HANDLERS - 1
  BY DEF MAX_HANDLERS
<1>. QED
  BY <1>1, <1>2 DEF Register, Table

(* The same for the last place. *)
LEMMA RegisterLast ==
  ASSUME NEW t \in Table, NEW v \in Vec, NEW f \in HandlerNames
  PROVE  /\ Register(t, v, "Last", f) \in Table
         /\ Register(t, v, "Last", f)[v][MAX_HANDLERS - 1] = f
         /\ \A w \in Vec, i \in 0 .. MAX_HANDLERS - 1 :
              w # v \/ i # MAX_HANDLERS - 1 => Register(t, v, "Last", f)[w][i] = t[w][i]
<1>1. Slot(t, v, "Last") = MAX_HANDLERS - 1
  BY DEF Slot
<1>2. MAX_HANDLERS - 1 \in 0 .. MAX_HANDLERS - 1
  BY DEF MAX_HANDLERS
<1>. QED
  BY <1>1, <1>2 DEF Register, Table

(* The tables of the start-up: what they have where. *)
LEMMA Tables ==
  /\ NoHandlers \in Table /\ PanicHandlers \in Table
  /\ SchedHandlers(PanicHandlers) \in Table
  /\ SchedHandlers(PanicHandlers)[IRQ_TIMER][MAX_HANDLERS - 1] = "time_handler"
  /\ SchedHandlers(PanicHandlers)[IPI_PROCESS_EXIT][0] = "ipi_process_exit_handler"
  /\ SchedHandlers(PanicHandlers)[IPI_PANIC][0] = "ipi_panic"
  /\ \A v \in Vec, i \in 0 .. MAX_HANDLERS - 1 :
       /\ NoHandlers[v][i] # "ipi_panic"
       /\ PanicHandlers[v][i] = "ipi_panic" => v = IPI_PANIC
       /\ SchedHandlers(PanicHandlers)[v][i] = "ipi_panic" => v = IPI_PANIC
<1>. DEFINE P == PanicHandlers
            T == Register(P, IRQ_TIMER, "Last", "time_handler")
            S == Register(T, IPI_PROCESS_EXIT, "First", "ipi_process_exit_handler")
<1>1. /\ {"ipi_panic", "time_handler", "ipi_process_exit_handler"} \subseteq HandlerNames
      /\ 0 \in 0 .. MAX_HANDLERS - 1 /\ MAX_HANDLERS - 1 \in 0 .. MAX_HANDLERS - 1
      /\ 0 # MAX_HANDLERS - 1
  BY DEF HandlerNames, Handlers, MAX_HANDLERS
<1>2. /\ NoHandlers \in Table
      /\ \A v \in Vec, i \in 0 .. MAX_HANDLERS - 1 : NoHandlers[v][i] # "ipi_panic"
  BY Names DEF NoHandlers, Table, HandlerNames, Handlers
<1>3. /\ P \in Table /\ P[IPI_PANIC][0] = "ipi_panic"
      /\ \A v \in Vec, i \in 0 .. MAX_HANDLERS - 1 : P[v][i] = "ipi_panic" => v = IPI_PANIC
  <2>1. P \in Table /\ P[IPI_PANIC][0] = "ipi_panic"
    BY <1>1, <1>2, Vectors, RegisterFirst DEF PanicHandlers
  <2>2. \A v \in Vec, i \in 0 .. MAX_HANDLERS - 1 :
          v # IPI_PANIC \/ i # 0 => P[v][i] = NoHandlers[v][i]
    BY <1>1, <1>2, Vectors, RegisterFirst DEF PanicHandlers
  <2>. HIDE DEF P
  <2>. QED
    BY <1>2, <2>1, <2>2
<1>. HIDE DEF P
<1>4. /\ T \in Table /\ T[IRQ_TIMER][MAX_HANDLERS - 1] = "time_handler"
      /\ T[IPI_PANIC][0] = "ipi_panic"
      /\ \A v \in Vec, i \in 0 .. MAX_HANDLERS - 1 : T[v][i] = "ipi_panic" => v = IPI_PANIC
  <2>1. T \in Table /\ T[IRQ_TIMER][MAX_HANDLERS - 1] = "time_handler"
    BY <1>1, <1>3, Vectors, RegisterLast
  <2>2. \A v \in Vec, i \in 0 .. MAX_HANDLERS - 1 :
          v # IRQ_TIMER \/ i # MAX_HANDLERS - 1 => T[v][i] = P[v][i]
    BY <1>1, <1>3, Vectors, RegisterLast
  <2>. HIDE DEF T
  <2>. QED
    BY <1>1, <1>3, <2>1, <2>2, Vectors
<1>. HIDE DEF T
<1>5. /\ S \in Table /\ S[IPI_PROCESS_EXIT][0] = "ipi_process_exit_handler"
      /\ S[IRQ_TIMER][MAX_HANDLERS - 1] = "time_handler"
      /\ S[IPI_PANIC][0] = "ipi_panic"
      /\ \A v \in Vec, i \in 0 .. MAX_HANDLERS - 1 : S[v][i] = "ipi_panic" => v = IPI_PANIC
  <2>1. S \in Table /\ S[IPI_PROCESS_EXIT][0] = "ipi_process_exit_handler"
    BY <1>1, <1>4, Vectors, RegisterFirst
  <2>2. \A v \in Vec, i \in 0 .. MAX_HANDLERS - 1 :
          v # IPI_PROCESS_EXIT \/ i # 0 => S[v][i] = T[v][i]
    BY <1>1, <1>4, Vectors, RegisterFirst
  <2>. HIDE DEF S
  <2>. QED
    BY <1>1, <1>4, <2>1, <2>2, Vectors
<1>6. SchedHandlers(PanicHandlers) = S /\ PanicHandlers = P
  BY DEF SchedHandlers, P, T
<1>. HIDE DEF S
<1>. QED
  BY <1>2, <1>3, <1>5, <1>6

(* The handler of the timer leaves the others alone. *)
LEMMA AddTick ==
  ASSUME NEW t \in Table, NEW f \in {"tick", "timer_irq_handler"}
  PROVE  LET s == Register(t, IRQ_TIMER, "First", f) IN
         /\ s \in Table
         /\ s[IRQ_TIMER][MAX_HANDLERS - 1] = t[IRQ_TIMER][MAX_HANDLERS - 1]
         /\ s[IPI_PROCESS_EXIT][0] = t[IPI_PROCESS_EXIT][0]
         /\ s[IPI_PANIC][0] = t[IPI_PANIC][0]
         /\ \A v \in Vec, i \in 0 .. MAX_HANDLERS - 1 :
              s[v][i] = "ipi_panic" => t[v][i] = "ipi_panic"
<1>. DEFINE s == Register(t, IRQ_TIMER, "First", f)
<1>1. /\ f \in HandlerNames /\ f # "ipi_panic"
      /\ 0 \in 0 .. MAX_HANDLERS - 1 /\ MAX_HANDLERS - 1 \in 0 .. MAX_HANDLERS - 1
      /\ 0 # MAX_HANDLERS - 1
  BY DEF HandlerNames, Handlers, MAX_HANDLERS
<1>2. /\ s \in Table /\ s[IRQ_TIMER][0] = f
      /\ \A w \in Vec, i \in 0 .. MAX_HANDLERS - 1 :
              w # IRQ_TIMER \/ i # 0 => s[w][i] = t[w][i]
  <2>1. IRQ_TIMER \in Vec
    BY Vectors
  <2>2. s \in Table /\ s[IRQ_TIMER][0] = f
    BY ONLY t \in Table, <1>1, <2>1, RegisterFirst
  <2>3. \A w \in Vec, i \in 0 .. MAX_HANDLERS - 1 :
              w # IRQ_TIMER \/ i # 0 => s[w][i] = t[w][i]
    BY ONLY t \in Table, <1>1, <2>1, RegisterFirst
  <2>. QED
    BY <2>2, <2>3
<1>. HIDE DEF s
<1>3. /\ s[IRQ_TIMER][MAX_HANDLERS - 1] = t[IRQ_TIMER][MAX_HANDLERS - 1]
      /\ s[IPI_PROCESS_EXIT][0] = t[IPI_PROCESS_EXIT][0]
      /\ s[IPI_PANIC][0] = t[IPI_PANIC][0]
  BY <1>1, <1>2, Vectors
<1>4. \A v \in Vec, i \in 0 .. MAX_HANDLERS - 1 :
         s[v][i] = "ipi_panic" => t[v][i] = "ipi_panic"
  BY <1>1, <1>2
<1>. QED
  BY <1>2, <1>3, <1>4 DEF s

(* What runs when a vector is taken, and where: a panic ipi is taken only  *)
(* by a processor that runs, and the one shot is the first timer irq of    *)
(* the calibration.                                                        *)
LEMMA InterruptTaken ==
  ASSUME BootInv, NEW p \in Proc, NEW v \in Vec, Interrupt(p, v)
  PROVE  /\ pc[p] \in {"calibrate", "run"} /\ inh[p] = None
         /\ pc[p] = "calibrate" => p = Bsp /\ v \in {IRQ_TIMER, IRQ_KEYBOARD}
         /\ pc' = IF v = IPI_PANIC THEN [pc EXCEPT ![p] = "halt"] ELSE pc
         /\ IF v = IRQ_TIMER /\ over[p] # None
            THEN over' = [over EXCEPT ![p] = None] /\ fired' = TRUE
            ELSE over' = over /\ fired' = fired
         /\ intr' = [intr EXCEPT ![p] = FALSE] /\ inh' = [inh EXCEPT ![p] = v]
         /\ isr' = [isr EXCEPT ![p] = @ \cup {v}]
         /\ irr'[Bsp] \subseteq irr[Bsp]
         /\ UNCHANGED <<hasApic, listed, useApic, calibrated, apsToBoot, apsGo, allocLock, idc, id,
                        lapic, hnd>>
<1>. USE Names DEF BootInv, BootTypes
<1>1. pc[p] \in {"calibrate", "run"} /\ inh[p] = None /\ v \in irr[p]
  BY DEF Interrupt, Takes, IntrInv, IntrAt
<1>2. pc[p] = "calibrate" => p = Bsp /\ v \in {IRQ_TIMER, IRQ_KEYBOARD}
  BY <1>1 DEF CalInv, ApLabels
<1>3. "ipi_panic" \in Runs(p, v) <=> v = IPI_PANIC
  <2>1. ASSUME v = IPI_PANIC PROVE "ipi_panic" \in Runs(p, v)
    <3>1. hnd[p][IPI_PANIC][0] = "ipi_panic" /\ 0 \in 0 .. MAX_HANDLERS - 1
      BY <1>1, <1>2, <2>1, Vectors DEF HandlerInv, Registered, MAX_HANDLERS
    <3>. QED
      BY <2>1, <3>1, Vectors DEF Runs, Handlers
  <2>2. ASSUME "ipi_panic" \in Runs(p, v) PROVE v = IPI_PANIC
    BY <2>2 DEF Runs, HandlerInv
  <2>. QED
    BY <2>1, <2>2
<1>4. "one_shot_handler" \in Runs(p, v) <=> v = IRQ_TIMER /\ over[p] # None
  <2>1. \A i \in 0 .. MAX_HANDLERS - 1 : hnd[p][v][i] # "one_shot_handler"
    <3>1. \A i \in 0 .. MAX_HANDLERS - 1 : hnd[p][v][i] \in HandlerNames
      <4>1. hnd[p] \in Table
        OBVIOUS
      <4>. HIDE DEF BootInv, BootTypes
      <4>. QED
        BY <4>1 DEF Table
    <3>2. "one_shot_handler" \notin HandlerNames
      BY DEF HandlerNames, Handlers
    <3>. QED
      BY <3>1, <3>2
  <2>. QED
    BY <2>1 DEF Runs, Handlers
<1>5. /\ pc' = [pc EXCEPT ![p] = IF "ipi_panic" \in Runs(p, v) THEN "halt" ELSE @]
      /\ fired' = (fired \/ "one_shot_handler" \in Runs(p, v))
      /\ over' = [over EXCEPT ![p] = IF "one_shot_handler" \in Runs(p, v) THEN None ELSE @]
      /\ irr' = [irr EXCEPT ![p] = IF "ipi_panic" \in Runs(p, v) THEN {} ELSE @ \ {v}]
      /\ intr' = [intr EXCEPT ![p] = FALSE] /\ inh' = [inh EXCEPT ![p] = v]
      /\ isr' = [isr EXCEPT ![p] = @ \cup {v}]
      /\ UNCHANGED <<hasApic, listed, useApic, calibrated, apsToBoot, apsGo, allocLock, idc, id,
                     lapic, hnd>>
  BY DEF Interrupt, machine
<1>6. pc' = IF v = IPI_PANIC THEN [pc EXCEPT ![p] = "halt"] ELSE pc
  BY <1>3, <1>5
<1>7. IF v = IRQ_TIMER /\ over[p] # None
      THEN over' = [over EXCEPT ![p] = None] /\ fired' = TRUE
      ELSE over' = over /\ fired' = fired
  BY <1>4, <1>5
<1>8. irr'[Bsp] \subseteq irr[Bsp]
  BY <1>5
<1>. QED
  BY <1>1, <1>2, <1>5, <1>6, <1>7, <1>8

-----------------------------------------------------------------------------
(* One lemma per part of the invariant: no step breaks it.                 *)

(* The steps of an insert are the ones of a write to an NLVec. *)
LEMMA InsertTypes ==
  ASSUME BootTypes, NEW p \in Proc, Insert(p)
  PROVE  mapPc' \in [Proc -> {"idle", "load", "use", "cas"}]
<1>1. \E l \in {"idle", "load", "use", "cas"} : mapPc' = [mapPc EXCEPT ![p] = l]
  <2>1. CASE IdMap!Load(p)
    BY <2>1 DEF IdMap!Load
  <2>2. CASE IdMap!Clone(p)
    BY <2>2 DEF IdMap!Clone
  <2>3. CASE IdMap!Cas(p)
    BY <2>3 DEF IdMap!Cas
  <2>. QED
    BY <2>1, <2>2, <2>3 DEF Insert
<1>. QED
  BY <1>1 DEF BootTypes

(* No step changes a type, or takes a processor to a label of the other    *)
(* kind.                                                                   *)
LEMMA TypesStep ==
  ASSUME BootInv, BootNext
  PROVE  BootTypes'
<1>. USE Names DEF BootInv, BootTypes, ApLabels, BspLabels, Goto, globals, machine, mapVars
<1>1. ASSUME BspStart PROVE BootTypes'
  <2>1. hnd' \in [Proc -> Table]
    BY <1>1, Tables DEF BspStart
  <2>. QED
    BY <1>1, <2>1 DEF BspStart
<1>2. ASSUME BspSched PROVE BootTypes'
  <2>1. hnd[Bsp] = PanicHandlers
    BY <1>2 DEF BspSched, HandlerInv
  <2>2. hnd' \in [Proc -> Table]
    BY <1>2, <2>1, Tables DEF BspSched
  <2>. QED
    BY <1>2, <2>2 DEF BspSched
<1>3. ASSUME BspPit PROVE BootTypes'
  <2>1. hnd' \in [Proc -> Table]
    BY <1>3, AddTick DEF BspPit
  <2>. QED
    BY <1>3, <2>1 DEF BspPit
<1>4. ASSUME BspIoApic PROVE BootTypes'
  BY <1>4, Vectors DEF BspIoApic
<1>5. ASSUME SmpInit PROVE BootTypes'
  BY <1>5, Vectors DEF SmpInit
<1>6. ASSUME SmpDone PROVE BootTypes'
  BY <1>6, Vectors DEF SmpDone
<1>7. ASSUME PitFires PROVE BootTypes'
  BY <1>7, Vectors DEF PitFires, Raise
<1>8. ASSUME KeyPress PROVE BootTypes'
  BY <1>8, Vectors DEF KeyPress, Raise
<1>9. ASSUME NEW p \in Proc, LapicFrom(p) PROVE BootTypes'
  BY <1>9, Vectors DEF LapicFrom, IdMap!Call
<1>24. ASSUME NEW p \in Proc, Insert(p) PROVE BootTypes'
  <2>1. mapPc' \in [Proc -> {"idle", "load", "use", "cas"}]
    BY <1>24, InsertTypes
  <2>. QED
    BY <1>24, <2>1, Vectors DEF Insert
<1>10. ASSUME NEW p \in Proc, Calibrate(p) PROVE BootTypes'
  <2>1. p = Bsp
    BY <1>10 DEF Calibrate, CalInv
  <2>. QED
    BY <1>10, <2>1 DEF Calibrate
<1>11. ASSUME NEW p \in Proc, Calibrated(p) PROVE BootTypes'
  BY <1>11, Vectors DEF Calibrated
<1>12. ASSUME NEW p \in Proc, InitTimer(p) PROVE BootTypes'
  <2>1. hnd' \in [Proc -> Table]
    BY <1>12, AddTick DEF InitTimer
  <2>. QED
    BY <1>12, <2>1 DEF InitTimer
<1>13. ASSUME NEW p \in Proc, Return(p) PROVE BootTypes'
  <2>1. Eoi(p, inh[p]) \subseteq isr[p]
    BY DEF Eoi
  <2>. QED
    BY <1>13, <2>1 DEF Return
<1>14. ASSUME NEW p \in Proc, NEW v \in Vec, Interrupt(p, v) PROVE BootTypes'
  BY <1>14, Vectors DEF Interrupt
<1>15. ASSUME NEW p \in Proc, TimerFires(p) PROVE BootTypes'
  BY <1>15, Vectors DEF TimerFires, Raise
<1>16. ASSUME NEW p \in Proc, Panic(p) PROVE BootTypes'
  BY <1>16, Vectors DEF Panic
<1>17. ASSUME NEW p \in Aps, GetId(p) PROVE BootTypes'
  BY <1>17, Vectors DEF GetId
<1>18. ASSUME NEW p \in Aps, Lock(p) PROVE BootTypes'
  BY <1>18, Vectors DEF Lock
<1>19. ASSUME NEW p \in Aps, Unlock(p) PROVE BootTypes'
  <2>1. pc[p] = "sched_locked" => hnd[p] = PanicHandlers
    BY <1>19 DEF HandlerInv
  <2>2. hnd' \in [Proc -> Table]
    BY <1>19, <2>1, Tables DEF Unlock
  <2>. QED
    BY <1>19, <2>2 DEF Unlock
<1>20. ASSUME NEW p \in Aps, Count(p) PROVE BootTypes'
  BY <1>20, Vectors DEF Count
<1>21. ASSUME NEW p \in Aps, Go(p) PROVE BootTypes'
  BY <1>21, Vectors DEF Go
<1>22. ASSUME NEW p \in Aps, Sipi(p) PROVE BootTypes'
  BY <1>22, Vectors DEF Sipi
<1>23. ASSUME NEW p \in Proc, NEW q \in Proc, SendExit(p, q) PROVE BootTypes'
  BY <1>23, Vectors DEF SendExit, Raise
<1>. QED
  BY <1>1, <1>2, <1>3, <1>4, <1>5, <1>6, <1>7, <1>8, <1>9, <1>10,
     <1>11, <1>12, <1>13, <1>14, <1>15, <1>16, <1>17, <1>18, <1>19, <1>20,
     <1>21, <1>22, <1>23, <1>24
     DEF BootNext, BspStep, Step

(* An id is taken once, from a counter that only grows once it is set. *)
LEMMA IdStep ==
  ASSUME BootInv, BootNext
  PROVE  IdInv'
<1>. USE Names DEF BootInv, BootTypes, ApLabels, BspLabels, Goto, globals, machine, mapVars, IdInv, Numbered
<1>1. ASSUME BspStart PROVE IdInv'
  BY <1>1 DEF BspStart
<1>2. ASSUME BspSched PROVE IdInv'
  BY <1>2 DEF BspSched
<1>3. ASSUME BspPit PROVE IdInv'
  BY <1>3 DEF BspPit
<1>4. ASSUME BspIoApic PROVE IdInv'
  BY <1>4 DEF BspIoApic
<1>5. ASSUME SmpInit PROVE IdInv'
  <2>1. /\ idc' = 1 /\ id' = id /\ pc'[Bsp] = "sipi"
        /\ \A a \in Aps : pc[a] = "off" /\ pc'[a] = "wait"
    BY <1>5 DEF SmpInit
  <2>2. Numbered' = {}
    BY <2>1
  <2>3. Cardinality(Numbered') = 0
    BY <2>2, FS_EmptySet
  <2>. HIDE DEF Numbered
  <2>. QED
    BY <2>1, <2>3
<1>6. ASSUME SmpDone PROVE IdInv'
  BY <1>6 DEF SmpDone
<1>7. ASSUME PitFires PROVE IdInv'
  BY <1>7 DEF PitFires, Raise
<1>8. ASSUME KeyPress PROVE IdInv'
  BY <1>8 DEF KeyPress, Raise
<1>9. ASSUME NEW p \in Proc, LapicFrom(p) PROVE IdInv'
  BY <1>9 DEF LapicFrom
<1>24. ASSUME NEW p \in Proc, Insert(p) PROVE IdInv'
  BY <1>24 DEF Insert
<1>10. ASSUME NEW p \in Proc, Calibrate(p) PROVE IdInv'
  BY <1>10 DEF Calibrate
<1>11. ASSUME NEW p \in Proc, Calibrated(p) PROVE IdInv'
  BY <1>11 DEF Calibrated
<1>12. ASSUME NEW p \in Proc, InitTimer(p) PROVE IdInv'
  BY <1>12 DEF InitTimer
<1>13. ASSUME NEW p \in Proc, Return(p) PROVE IdInv'
  BY <1>13 DEF Return
<1>14. ASSUME NEW p \in Proc, NEW v \in Vec, Interrupt(p, v) PROVE IdInv'
  <2>1. pc[p] \in {"calibrate", "run"}
    BY <1>14 DEF Interrupt, Takes, IntrInv, IntrAt
  <2>. QED
    BY <1>14, <2>1 DEF Interrupt
<1>15. ASSUME NEW p \in Proc, TimerFires(p) PROVE IdInv'
  BY <1>15 DEF TimerFires, Raise
<1>16. ASSUME NEW p \in Proc, Panic(p) PROVE IdInv'
  BY <1>16 DEF Panic
<1>17. ASSUME NEW p \in Aps, GetId(p) PROVE IdInv'
  <2>1. /\ pc[p] = "start" /\ id[p] = None /\ idc # 0 /\ idc' = idc + 1
        /\ id' = [id EXCEPT ![p] = idc] /\ pc' = [pc EXCEPT ![p] = "kdata"]
    BY <1>17 DEF GetId
  <2>2. Numbered' = Numbered \cup {p} /\ p \notin Numbered
    BY <2>1, NoneAssumption
  <2>3. IsFiniteSet(Numbered)
    BY BootConstants, FS_Subset
  <2>. HIDE DEF Numbered
  <2>4. Cardinality(Numbered') = Cardinality(Numbered) + 1 /\ Cardinality(Numbered) \in Nat
    BY <2>2, <2>3, FS_AddElement, FS_CardinalityType
  <2>5. idc' = 1 + Cardinality(Numbered')
    BY <2>1, <2>4
  <2>6. /\ id'[p] = idc /\ pc'[p] = "kdata" /\ idc # None
        /\ \A q \in Proc : q # p => id'[q] = id[q] /\ pc'[q] = pc[q]
    BY <2>1, NoneAssumption
  <2>. QED
    BY <2>1, <2>5, <2>6
<1>18. ASSUME NEW p \in Aps, Lock(p) PROVE IdInv'
  BY <1>18 DEF Lock
<1>19. ASSUME NEW p \in Aps, Unlock(p) PROVE IdInv'
  BY <1>19 DEF Unlock
<1>20. ASSUME NEW p \in Aps, Count(p) PROVE IdInv'
  BY <1>20 DEF Count
<1>21. ASSUME NEW p \in Aps, Go(p) PROVE IdInv'
  BY <1>21 DEF Go
<1>22. ASSUME NEW p \in Aps, Sipi(p) PROVE IdInv'
  BY <1>22 DEF Sipi
<1>23. ASSUME NEW p \in Proc, NEW q \in Proc, SendExit(p, q) PROVE IdInv'
  BY <1>23 DEF SendExit, Raise
<1>. QED
  BY <1>1, <1>2, <1>3, <1>4, <1>5, <1>6, <1>7, <1>8, <1>9, <1>10,
     <1>11, <1>12, <1>13, <1>14, <1>15, <1>16, <1>17, <1>18, <1>19, <1>20,
     <1>21, <1>22, <1>23, <1>24
     DEF BootNext, BspStep, Step

(* Until the timer is calibrated the first processor is alone. *)
LEMMA CalStep ==
  ASSUME BootInv, BootNext
  PROVE  CalInv'
<1>. USE Names DEF BootInv, BootTypes, ApLabels, BspLabels, Goto, globals, machine, mapVars, CalInv
<1>1. ASSUME BspStart PROVE CalInv'
  BY <1>1 DEF BspStart
<1>2. ASSUME BspSched PROVE CalInv'
  BY <1>2 DEF BspSched
<1>3. ASSUME BspPit PROVE CalInv'
  BY <1>3 DEF BspPit
<1>4. ASSUME BspIoApic PROVE CalInv'
  BY <1>4 DEF BspIoApic
<1>5. ASSUME SmpInit PROVE CalInv'
  BY <1>5 DEF SmpInit
<1>6. ASSUME SmpDone PROVE CalInv'
  BY <1>6 DEF SmpDone
<1>7. ASSUME PitFires PROVE CalInv'
  BY <1>7 DEF PitFires, Raise
<1>8. ASSUME KeyPress PROVE CalInv'
  BY <1>8 DEF KeyPress, Raise
<1>9. ASSUME NEW p \in Proc, LapicFrom(p) PROVE CalInv'
  BY <1>9 DEF LapicFrom
<1>24. ASSUME NEW p \in Proc, Insert(p) PROVE CalInv'
  BY <1>24 DEF Insert
<1>10. ASSUME NEW p \in Proc, Calibrate(p) PROVE CalInv'
  BY <1>10 DEF Calibrate
<1>11. ASSUME NEW p \in Proc, Calibrated(p) PROVE CalInv'
  BY <1>11 DEF Calibrated
<1>12. ASSUME NEW p \in Proc, InitTimer(p) PROVE CalInv'
  BY <1>12 DEF InitTimer
<1>13. ASSUME NEW p \in Proc, Return(p) PROVE CalInv'
  BY <1>13 DEF Return
<1>14. ASSUME NEW p \in Proc, NEW v \in Vec, Interrupt(p, v) PROVE CalInv'
  <2>1. /\ calibrated' = calibrated /\ lapic' = lapic /\ useApic' = useApic
        /\ hasApic' = hasApic /\ irr'[Bsp] \subseteq irr[Bsp]
        /\ pc[p] \in {"calibrate", "run"}
        /\ pc[p] = "calibrate" => p = Bsp /\ v # IPI_PANIC
        /\ pc' = IF v = IPI_PANIC THEN [pc EXCEPT ![p] = "halt"] ELSE pc
    BY <1>14, Vectors, InterruptTaken
  <2>2. \A q \in Proc : pc'[q] = pc[q] \/ (q = p /\ pc[q] = "run" /\ pc'[q] = "halt")
    BY <2>1
  <2>3. /\ fired' => fired \/ (over[p] # None /\ over'[p] = None)
        /\ \A q \in Proc : over'[q] = over[q] \/ over'[q] = None
    <3>1. CASE v = IRQ_TIMER /\ over[p] # None
      <4>1. over' = [over EXCEPT ![p] = None]
        BY <1>14, <3>1, InterruptTaken
      <4>. QED
        BY <3>1, <4>1
    <3>2. CASE ~ (v = IRQ_TIMER /\ over[p] # None)
      <4>1. over' = over /\ fired' = fired
        BY <1>14, <3>2, InterruptTaken
      <4>. QED
        BY <4>1
    <3>. QED
      BY <3>1, <3>2
  <2>. QED
    BY <2>1, <2>2, <2>3
<1>15. ASSUME NEW p \in Proc, TimerFires(p) PROVE CalInv'
  BY <1>15 DEF TimerFires, Raise
<1>16. ASSUME NEW p \in Proc, Panic(p) PROVE CalInv'
  BY <1>16 DEF Panic
<1>17. ASSUME NEW p \in Aps, GetId(p) PROVE CalInv'
  BY <1>17 DEF GetId
<1>18. ASSUME NEW p \in Aps, Lock(p) PROVE CalInv'
  BY <1>18 DEF Lock
<1>19. ASSUME NEW p \in Aps, Unlock(p) PROVE CalInv'
  BY <1>19 DEF Unlock
<1>20. ASSUME NEW p \in Aps, Count(p) PROVE CalInv'
  BY <1>20 DEF Count
<1>21. ASSUME NEW p \in Aps, Go(p) PROVE CalInv'
  BY <1>21 DEF Go
<1>22. ASSUME NEW p \in Aps, Sipi(p) PROVE CalInv'
  BY <1>22 DEF Sipi
<1>23. ASSUME NEW p \in Proc, NEW q \in Proc, SendExit(p, q) PROVE CalInv'
  BY <1>23 DEF SendExit, Raise
<1>. QED
  BY <1>1, <1>2, <1>3, <1>4, <1>5, <1>6, <1>7, <1>8, <1>9, <1>10,
     <1>11, <1>12, <1>13, <1>14, <1>15, <1>16, <1>17, <1>18, <1>19, <1>20,
     <1>21, <1>22, <1>23, <1>24
     DEF BootNext, BspStep, Step

(* What the id says of the stack: no id is beyond the vector of stacks. *)
LEMMA IdBound ==
  ASSUME IdInv
  PROVE  /\ N \in Nat
         /\ \A p \in Proc : id[p] # None => id[p] \in 0 .. N
<1>1. N \in Nat /\ IsFiniteSet(Aps)
  BY BootConstants, FS_CardinalityType DEF N
<1>2. Cardinality(Numbered) \in Nat /\ Cardinality(Numbered) <= N
  BY <1>1, FS_Subset, FS_CardinalityType DEF Numbered, N
<1>. SUFFICES ASSUME NEW p \in Proc, id[p] # None PROVE id[p] \in 0 .. N
  BY <1>1
<1>3. CASE p = Bsp
  BY <1>1, <1>3 DEF IdInv
<1>4. CASE p \in Aps
  <2>1. id[p] \in Nat /\ 0 < id[p] /\ id[p] < idc /\ idc \in Nat
    BY <1>4 DEF IdInv
  <2>2. idc = 0 \/ idc = 1 + Cardinality(Numbered)
    BY DEF IdInv
  <2>. HIDE DEF N
  <2>. QED
    BY <1>1, <1>2, <2>1, <2>2
<1>. QED
  BY <1>3, <1>4, Names

(* Nobody is counted twice, or by mistake. *)
LEMMA TallyStep ==
  ASSUME BootInv, BootNext
  PROVE  TallyInv'
<1>. USE Names DEF BootInv, BootTypes, Goto, globals, machine, mapVars
<1>0. /\ IsFiniteSet(Uncounted) /\ Cardinality(Uncounted) \in Nat /\ N \in Nat
      /\ apsToBoot \in 0 .. listed /\ listed \in Nat /\ N <= listed /\ (idc # 0 => Cardinality(Uncounted) <= apsToBoot)
  BY BootConstants, ListedAssumption, FS_Subset, FS_CardinalityType DEF Uncounted, N, TallyInv
<1>1. ASSUME Uncounted' \subseteq Uncounted, apsToBoot' = apsToBoot, listed' = listed, idc' # 0 => idc # 0
      PROVE  TallyInv'
  <2>1. Cardinality(Uncounted') <= Cardinality(Uncounted) /\ Cardinality(Uncounted') \in Nat
    BY <1>0, <1>1, FS_Subset, FS_CardinalityType
  <2>. QED
    BY <1>0, <1>1, <2>1 DEF TallyInv
<1>2. ASSUME SmpInit PROVE TallyInv'
  <2>1. apsToBoot' = listed /\ listed' = listed
    BY <1>2 DEF SmpInit
  <2>2. Cardinality(Uncounted') <= N /\ Cardinality(Uncounted') \in Nat
    BY BootConstants, FS_Subset, FS_CardinalityType DEF Uncounted, N
  <2>3. Cardinality(Uncounted') <= listed
    BY <1>0, <2>2
  <2>. QED
    BY <1>0, <2>1, <2>2, <2>3 DEF TallyInv
<1>3. ASSUME NEW p \in Aps, Count(p) PROVE TallyInv'
  <2>1. /\ pc[p] = "count" /\ apsToBoot' = apsToBoot - 1 /\ idc' = idc /\ lapic' = lapic
        /\ listed' = listed
        /\ pc' = [pc EXCEPT ![p] = "spin"] /\ lapic[p] /\ idc # 0
    BY <1>3 DEF Count, UpInv, IdInv
  <2>2. p \in Uncounted /\ Uncounted' = Uncounted \ {p}
    BY <2>1 DEF Uncounted
  <2>3. Cardinality(Uncounted') = Cardinality(Uncounted) - 1 /\ Cardinality(Uncounted) # 0
    BY <1>0, <2>2, FS_RemoveElement, FS_EmptySet
  <2>. QED
    BY <1>0, <2>1, <2>3 DEF TallyInv
<1>4. ASSUME NEW p \in Proc, InitTimer(p) PROVE TallyInv'
  <2>1. Uncounted' \subseteq Uncounted
    BY <1>4 DEF InitTimer, Uncounted, UpInv, EarlyLabels
  <2>. QED
    BY <1>1, <1>4, <2>1 DEF InitTimer
<1>5. ASSUME apsToBoot' = apsToBoot, listed' = listed, idc' # 0 => idc # 0, lapic' = lapic,
             \A a \in Aps : pc'[a] = "count" => pc[a] = "count"
      PROVE  TallyInv'
  BY <1>1, <1>5 DEF Uncounted
<1>6. ASSUME BspStart \/ BspSched \/ BspPit \/ BspIoApic \/ SmpDone PROVE TallyInv'
  BY <1>5, <1>6 DEF BspStart, BspSched, BspPit, BspIoApic, SmpDone
<1>7. ASSUME NEW p \in Proc, LapicFrom(p) \/ Insert(p) \/ Calibrate(p) \/ Calibrated(p) \/ Return(p)
      PROVE  TallyInv'
  BY <1>5, <1>7 DEF LapicFrom, Insert, Calibrate, Calibrated, Return
<1>8. ASSUME NEW p \in Aps, Lock(p) \/ Unlock(p) \/ Go(p) \/ Sipi(p) \/ GetId(p)
      PROVE  TallyInv'
  BY <1>5, <1>8 DEF Lock, Unlock, Go, Sipi, GetId, IdInv
<1>9. ASSUME NEW p \in Proc, Panic(p) \/ TimerFires(p) PROVE TallyInv'
  BY <1>5, <1>9 DEF Panic, TimerFires, Raise
<1>10. ASSUME PitFires \/ KeyPress \/ \E p, q \in Proc : SendExit(p, q) PROVE TallyInv'
  BY <1>5, <1>10 DEF PitFires, KeyPress, SendExit, Raise
<1>11. ASSUME NEW p \in Proc, NEW v \in Vec, Interrupt(p, v) PROVE TallyInv'
  <2>1. \A a \in Aps : pc'[a] = pc[a] \/ pc'[a] = "halt"
    BY <1>11, InterruptTaken
  <2>. QED
    BY <1>5, <1>11, <2>1, InterruptTaken
<1>. QED
  BY <1>2, <1>3, <1>4, <1>6, <1>7, <1>8, <1>9, <1>10, <1>11 DEF BootNext, BspStep, Step

(* A processor is counted after its local APIC is set, and APS_GO is set   *)
(* after all are counted.                                                  *)
LEMMA UpStep ==
  ASSUME BootInv, BootNext
  PROVE  UpInv'
<1>. USE Names DEF BootInv, BootTypes, ApLabels, BspLabels, Goto, globals, machine, mapVars, UpInv, EarlyLabels
<1>1. ASSUME BspStart PROVE UpInv'
  BY <1>1 DEF BspStart
<1>2. ASSUME BspSched PROVE UpInv'
  BY <1>2 DEF BspSched
<1>3. ASSUME BspPit PROVE UpInv'
  <2>1. ~useApic /\ useApic = hasApic /\ hasApic' = hasApic
    BY <1>3 DEF BspPit, CalInv
  <2>. QED
    BY <1>3, <2>1 DEF BspPit
<1>4. ASSUME BspIoApic PROVE UpInv'
  BY <1>4 DEF BspIoApic
<1>5. ASSUME SmpInit PROVE UpInv'
  BY <1>5 DEF SmpInit
<1>6. ASSUME SmpDone PROVE UpInv'
  <2>1. /\ apsToBoot = 0 /\ pc[Bsp] = "sipi" /\ pc' = [pc EXCEPT ![Bsp] = "run"] /\ apsGo' = TRUE
        /\ UNCHANGED <<hasApic, id, lapic>>
    BY <1>6 DEF SmpDone
  <2>2. IsFiniteSet(Uncounted) /\ Cardinality(Uncounted) \in Nat /\ Cardinality(Uncounted) <= 0
    BY <2>1, BootConstants, FS_Subset, FS_CardinalityType DEF Uncounted, IdInv, TallyInv
  <2>3. Uncounted = {}
    BY <2>2, FS_EmptySet
  <2>4. \A q \in Proc : lapic[q]
    BY <2>1, <2>3 DEF Uncounted
  <2>. QED
    BY <2>1, <2>4
<1>7. ASSUME PitFires PROVE UpInv'
  BY <1>7 DEF PitFires, Raise
<1>8. ASSUME KeyPress PROVE UpInv'
  BY <1>8 DEF KeyPress, Raise
<1>9. ASSUME NEW p \in Proc, LapicFrom(p) PROVE UpInv'
  BY <1>9 DEF LapicFrom
<1>24. ASSUME NEW p \in Proc, Insert(p) PROVE UpInv'
  BY <1>24 DEF Insert
<1>10. ASSUME NEW p \in Proc, Calibrate(p) PROVE UpInv'
  BY <1>10 DEF Calibrate
<1>11. ASSUME NEW p \in Proc, Calibrated(p) PROVE UpInv'
  BY <1>11 DEF Calibrated
<1>12. ASSUME NEW p \in Proc, InitTimer(p) PROVE UpInv'
  BY <1>12 DEF InitTimer
<1>13. ASSUME NEW p \in Proc, Return(p) PROVE UpInv'
  BY <1>13 DEF Return
<1>14. ASSUME NEW p \in Proc, NEW v \in Vec, Interrupt(p, v) PROVE UpInv'
  <2>1. /\ UNCHANGED <<hasApic, apsToBoot, apsGo, idc, id, lapic>>
        /\ pc[p] \in {"calibrate", "run"}
        /\ pc' = IF v = IPI_PANIC THEN [pc EXCEPT ![p] = "halt"] ELSE pc
    BY <1>14, InterruptTaken
  <2>2. \A q \in Proc : pc'[q] = pc[q] \/ (pc[q] \in {"calibrate", "run"} /\ pc'[q] = "halt")
    BY <2>1
  <2>. QED
    BY <2>1, <2>2
<1>15. ASSUME NEW p \in Proc, TimerFires(p) PROVE UpInv'
  BY <1>15 DEF TimerFires, Raise
<1>16. ASSUME NEW p \in Proc, Panic(p) PROVE UpInv'
  BY <1>16 DEF Panic
<1>17. ASSUME NEW p \in Aps, GetId(p) PROVE UpInv'
  <2>1. /\ pc[p] = "start" /\ ~lapic[p] /\ pc' = [pc EXCEPT ![p] = "kdata"]
        /\ \A q \in Proc : q # p => id'[q] = id[q]
        /\ UNCHANGED <<hasApic, apsGo, lapic>>
    BY <1>17 DEF GetId, IdInv
  <2>. QED
    BY <2>1
<1>18. ASSUME NEW p \in Aps, Lock(p) PROVE UpInv'
  BY <1>18 DEF Lock
<1>19. ASSUME NEW p \in Aps, Unlock(p) PROVE UpInv'
  BY <1>19 DEF Unlock
<1>20. ASSUME NEW p \in Aps, Count(p) PROVE UpInv'
  BY <1>20 DEF Count
<1>21. ASSUME NEW p \in Aps, Go(p) PROVE UpInv'
  BY <1>21 DEF Go
<1>22. ASSUME NEW p \in Aps, Sipi(p) PROVE UpInv'
  BY <1>22 DEF Sipi
<1>23. ASSUME NEW p \in Proc, NEW q \in Proc, SendExit(p, q) PROVE UpInv'
  BY <1>23 DEF SendExit, Raise
<1>. QED
  BY <1>1, <1>2, <1>3, <1>4, <1>5, <1>6, <1>7, <1>8, <1>9, <1>10,
     <1>11, <1>12, <1>13, <1>14, <1>15, <1>16, <1>17, <1>18, <1>19, <1>20,
     <1>21, <1>22, <1>23, <1>24
     DEF BootNext, BspStep, Step

(* The handlers are registered before the label that needs them. *)
LEMMA HandlerStep ==
  ASSUME BootInv, BootNext
  PROVE  HandlerInv'
<1>. USE Names DEF BootInv, BootTypes, ApLabels, BspLabels, Goto, globals, machine, mapVars, HandlerInv, Registered
<1>1. ASSUME BspStart PROVE HandlerInv'
  BY <1>1, Tables DEF BspStart
<1>2. ASSUME BspSched PROVE HandlerInv'
  BY <1>2, Tables DEF BspSched
<1>3. ASSUME BspPit PROVE HandlerInv'
  BY <1>3, AddTick DEF BspPit
<1>4. ASSUME BspIoApic PROVE HandlerInv'
  BY <1>4 DEF BspIoApic
<1>5. ASSUME SmpInit PROVE HandlerInv'
  BY <1>5 DEF SmpInit
<1>6. ASSUME SmpDone PROVE HandlerInv'
  BY <1>6 DEF SmpDone
<1>7. ASSUME PitFires PROVE HandlerInv'
  BY <1>7 DEF PitFires, Raise
<1>8. ASSUME KeyPress PROVE HandlerInv'
  BY <1>8 DEF KeyPress, Raise
<1>9. ASSUME NEW p \in Proc, LapicFrom(p) PROVE HandlerInv'
  <2>1. hnd' = hnd /\ \A q \in Proc : pc'[q] = pc[q] \/ (pc[q] = "lapic" /\ pc'[q] = "insert")
    BY <1>9 DEF LapicFrom
  <2>. QED
    BY <2>1
<1>24. ASSUME NEW p \in Proc, Insert(p) PROVE HandlerInv'
  <2>1. hnd' = hnd /\ \A q \in Proc : pc'[q] = pc[q] \/ (pc[q] = "insert" /\ pc'[q] \in {"insert", "timer"})
    BY <1>24 DEF Insert
  <2>. QED
    BY <2>1
<1>10. ASSUME NEW p \in Proc, Calibrate(p) PROVE HandlerInv'
  BY <1>10 DEF Calibrate
<1>11. ASSUME NEW p \in Proc, Calibrated(p) PROVE HandlerInv'
  BY <1>11 DEF Calibrated
<1>12. ASSUME NEW p \in Proc, InitTimer(p) PROVE HandlerInv'
  BY <1>12, AddTick DEF InitTimer
<1>13. ASSUME NEW p \in Proc, Return(p) PROVE HandlerInv'
  BY <1>13 DEF Return
<1>14. ASSUME NEW p \in Proc, NEW v \in Vec, Interrupt(p, v) PROVE HandlerInv'
  <2>1. hnd' = hnd /\ pc' = IF v = IPI_PANIC THEN [pc EXCEPT ![p] = "halt"] ELSE pc
    BY <1>14, InterruptTaken
  <2>2. \A q \in Proc : pc'[q] = pc[q] \/ pc'[q] = "halt"
    BY <2>1
  <2>. QED
    BY <2>1, <2>2
<1>15. ASSUME NEW p \in Proc, TimerFires(p) PROVE HandlerInv'
  BY <1>15 DEF TimerFires, Raise
<1>16. ASSUME NEW p \in Proc, Panic(p) PROVE HandlerInv'
  BY <1>16 DEF Panic
<1>17. ASSUME NEW p \in Aps, GetId(p) PROVE HandlerInv'
  BY <1>17 DEF GetId
<1>18. ASSUME NEW p \in Aps, Lock(p) PROVE HandlerInv'
  BY <1>18 DEF Lock
<1>19. ASSUME NEW p \in Aps, Unlock(p) PROVE HandlerInv'
  BY <1>19, Tables DEF Unlock
<1>20. ASSUME NEW p \in Aps, Count(p) PROVE HandlerInv'
  BY <1>20 DEF Count
<1>21. ASSUME NEW p \in Aps, Go(p) PROVE HandlerInv'
  BY <1>21 DEF Go
<1>22. ASSUME NEW p \in Aps, Sipi(p) PROVE HandlerInv'
  BY <1>22 DEF Sipi
<1>23. ASSUME NEW p \in Proc, NEW q \in Proc, SendExit(p, q) PROVE HandlerInv'
  BY <1>23 DEF SendExit, Raise
<1>. QED
  BY <1>1, <1>2, <1>3, <1>4, <1>5, <1>6, <1>7, <1>8, <1>9, <1>10,
     <1>11, <1>12, <1>13, <1>14, <1>15, <1>16, <1>17, <1>18, <1>19, <1>20,
     <1>21, <1>22, <1>23, <1>24
     DEF BootNext, BspStep, Step

(* The highest vector of one. *)
LEMMA MaxOne ==
  ASSUME NEW v \in Vec PROVE {v} \ {Max({v})} = {}
<1>1. v >= v
  BY DEF Vec, IRQ_TIMER, IRQ_KEYBOARD, IPI_PROCESS_EXIT, IPI_PANIC
<1>2. Max({v}) \in {v}
  BY <1>1 DEF Max
<1>. QED
  BY <1>2

(* The exit ipi has the class of the panic ipi, and both are above the irqs. *)
LEMMA Classes ==
  /\ \A v \in Vec : ~ (Class(v) > Class(IPI_PROCESS_EXIT))
  /\ \A v, w \in {IRQ_TIMER, IRQ_KEYBOARD} : ~ (Class(v) > Class(w))
BY DEF Class, Vec, IRQ_TIMER, IRQ_KEYBOARD, IPI_PROCESS_EXIT, IPI_PANIC

(* A processor that takes an interrupt has nothing in service: an exit ipi *)
(* that was never acknowledged keeps all others out.                       *)
LEMMA NothingInService ==
  ASSUME BootInv, NEW p \in Proc, NEW v \in Vec, Interrupt(p, v)
  PROVE  isr[p] = {}
<1>1. /\ pc[p] \in {"calibrate", "run"} /\ inh[p] = None
      /\ pc[p] = "calibrate" => v \in {IRQ_TIMER, IRQ_KEYBOARD}
  BY InterruptTaken
<1>2. \A w \in isr[p] : Class(v) > Class(w)
  BY DEF Interrupt, Takes
<1>3. CASE pc[p] = "calibrate"
  BY <1>1, <1>2, <1>3, Classes DEF BootInv, IntrInv, IntrAt
<1>4. CASE pc[p] = "run"
  <2>1. isr[p] \subseteq {IPI_PROCESS_EXIT}
    BY <1>1, <1>4 DEF BootInv, IntrInv, IntrAt
  <2>. QED
    BY <1>2, <2>1, Classes
<1>. QED
  BY <1>1, <1>3, <1>4

(* What the eoi at the end of a handler leaves in service. *)
LEMMA AfterEoi ==
  ASSUME BootInv, NEW p \in Proc, inh[p] # None, ~ Stopped(p)
  PROVE  /\ pc[p] \in {"calibrate", "run"}
         /\ pc[p] = "calibrate" => Eoi(p, inh[p]) = isr[p]
         /\ pc[p] = "run" => Eoi(p, inh[p]) \subseteq {IPI_PROCESS_EXIT}
<1>. USE Names DEF BootInv, BootTypes
<1>1. /\ pc[p] \in {"calibrate", "run"} /\ isr[p] = {inh[p]} /\ inh[p] \in Vec
      /\ inh[p] # IPI_PANIC
  BY DEF IntrInv, IntrAt, Stopped
<1>2. pc[p] = "calibrate" => useApic # hasApic
  BY DEF CalInv, ApLabels
<1>3. pc[p] = "run" => useApic = hasApic
  BY DEF CalInv
<1>4. inh[p] >= IPI_PROCESS_EXIT => inh[p] = IPI_PROCESS_EXIT
  BY <1>1 DEF Vec, IRQ_TIMER, IRQ_KEYBOARD, IPI_PROCESS_EXIT, IPI_PANIC
<1>. QED
  BY <1>1, <1>2, <1>3, <1>4, MaxOne DEF Eoi

(* An interrupt is taken, handled and acknowledged one at a time. *)
LEMMA IntrStep ==
  ASSUME BootInv, BootNext
  PROVE  IntrInv'
<1>. USE Names DEF BootInv, BootTypes, ApLabels, BspLabels, Goto, globals, machine, mapVars, IntrInv, IntrAt, Registered
<1>0. ASSUME NEW u \in Proc,
             pc'[u] = pc[u], intr'[u] = intr[u], inh'[u] = inh[u], isr'[u] = isr[u],
             hnd'[u] = hnd[u], lapic'[u] = lapic[u], useApic' => useApic
      PROVE  IntrAt(u)'
  <2>1. IntrAt(u)
    OBVIOUS
  <2>. HIDE DEF BootInv, BootTypes, IntrInv
  <2>. QED
    BY <1>0, <2>1
<1>1. ASSUME BspStart PROVE IntrInv'
  <2>1. pc[Bsp] = "reset" /\ \A a \in Aps : pc[a] = "off"
    BY <1>1 DEF BspStart, IdInv
  <2>2. \A p \in Proc : inh[p] = None /\ isr[p] = {} /\ ~ intr[p]
    BY <2>1
  <2>. QED
    BY <1>1, <2>1, <2>2 DEF BspStart
<1>2. ASSUME BspSched PROVE IntrInv'
  BY <1>2 DEF BspSched
<1>3. ASSUME BspPit PROVE IntrInv'
  <2>1. inh[Bsp] = None /\ isr[Bsp] = {}
    BY <1>3 DEF BspPit
  <2>2. /\ pc' = [pc EXCEPT ![Bsp] = "run"] /\ intr' = [intr EXCEPT ![Bsp] = TRUE]
        /\ UNCHANGED <<inh, isr, lapic>> /\ (useApic' => useApic)
        /\ \A u \in Proc \ {Bsp} : hnd'[u] = hnd[u]
    BY <1>3 DEF BspPit
  <2>3. IntrAt(Bsp)'
    BY <2>1, <2>2, Vectors
  <2>4. ASSUME NEW u \in Proc, u # Bsp PROVE IntrAt(u)'
    BY <1>0, <2>2, <2>4
  <2>. QED
    BY <2>3, <2>4
<1>4. ASSUME BspIoApic PROVE IntrInv'
  BY <1>4 DEF BspIoApic
<1>5. ASSUME SmpInit PROVE IntrInv'
  BY <1>5 DEF SmpInit
<1>6. ASSUME SmpDone PROVE IntrInv'
  <2>1. inh[Bsp] = None /\ isr[Bsp] = {}
    BY <1>6 DEF SmpDone
  <2>2. /\ pc' = [pc EXCEPT ![Bsp] = "run"] /\ intr' = [intr EXCEPT ![Bsp] = TRUE]
        /\ UNCHANGED <<inh, isr, lapic>> /\ (useApic' => useApic)
        /\ \A u \in Proc \ {Bsp} : hnd'[u] = hnd[u]
    BY <1>6 DEF SmpDone
  <2>3. IntrAt(Bsp)'
    BY <2>1, <2>2, Vectors
  <2>4. ASSUME NEW u \in Proc, u # Bsp PROVE IntrAt(u)'
    BY <1>0, <2>2, <2>4
  <2>. QED
    BY <2>3, <2>4
<1>7. ASSUME PitFires PROVE IntrInv'
  BY <1>7 DEF PitFires, Raise
<1>8. ASSUME KeyPress PROVE IntrInv'
  BY <1>8 DEF KeyPress, Raise
<1>9. ASSUME NEW p \in Proc, LapicFrom(p) PROVE IntrInv'
  BY <1>9 DEF LapicFrom
<1>24. ASSUME NEW p \in Proc, Insert(p) PROVE IntrInv'
  BY <1>24 DEF Insert
<1>10. ASSUME NEW p \in Proc, Calibrate(p) PROVE IntrInv'
  <2>1. inh[p] = None /\ isr[p] = {}
    BY <1>10 DEF Calibrate
  <2>2. /\ pc' = [pc EXCEPT ![p] = "calibrate"] /\ intr' = [intr EXCEPT ![p] = TRUE]
        /\ UNCHANGED <<inh, isr, lapic>> /\ (useApic' => useApic)
        /\ \A u \in Proc \ {p} : hnd'[u] = hnd[u]
    BY <1>10 DEF Calibrate
  <2>3. IntrAt(p)'
    BY <2>1, <2>2, Vectors
  <2>4. ASSUME NEW u \in Proc, u # p PROVE IntrAt(u)'
    BY <1>0, <2>2, <2>4
  <2>. QED
    BY <2>3, <2>4
<1>11. ASSUME NEW p \in Proc, Calibrated(p) PROVE IntrInv'
  <2>1. p = Bsp /\ pc[p] = "calibrate" /\ inh[p] = None /\ \A a \in Aps : pc[a] = "off"
    BY <1>11 DEF Calibrated, CalInv
  <2>2. (IF isr[p] = {} THEN {} ELSE isr[p] \ {Max(isr[p])}) = {}
    BY <2>1, MaxOne, Vectors
  <2>3. /\ isr' = [isr EXCEPT ![p] = {}] /\ intr' = [intr EXCEPT ![p] = FALSE]
        /\ pc' = [pc EXCEPT ![p] = "timer"] /\ UNCHANGED <<inh, lapic, hnd>>
    BY <1>11, <2>2 DEF Calibrated
  <2>. QED
    BY <2>1, <2>3
<1>12. ASSUME NEW p \in Proc, InitTimer(p) PROVE IntrInv'
  BY <1>12 DEF InitTimer
<1>13. ASSUME NEW p \in Proc, Return(p) PROVE IntrInv'
  <2>1. /\ inh[p] # None /\ pc[p] \in {"calibrate", "run"}
        /\ pc[p] = "calibrate" => Eoi(p, inh[p]) = isr[p]
        /\ pc[p] = "run" => Eoi(p, inh[p]) \subseteq {IPI_PROCESS_EXIT}
    BY <1>13, AfterEoi DEF Return
  <2>2. /\ isr' = [isr EXCEPT ![p] = Eoi(p, inh[p])]
        /\ inh' = [inh EXCEPT ![p] = None] /\ intr' = [intr EXCEPT ![p] = TRUE]
        /\ UNCHANGED <<pc, useApic, lapic, hnd>>
    BY <1>13 DEF Return
  <2>3. IntrAt(p)'
    <3>1. intr'[p] /\ inh'[p] = None /\ pc'[p] = pc[p] /\ isr'[p] = Eoi(p, inh[p])
      BY <2>2
    <3>. QED
      BY <2>1, <3>1, Vectors
  <2>4. ASSUME NEW u \in Proc, u # p PROVE IntrAt(u)'
    BY <1>0, <2>2, <2>4
  <2>. QED
    BY <2>3, <2>4
<1>14. ASSUME NEW p \in Proc, NEW v \in Vec, Interrupt(p, v) PROVE IntrInv'
  <2>1. /\ pc[p] \in {"calibrate", "run"} /\ inh[p] = None
        /\ pc[p] = "calibrate" => v \in {IRQ_TIMER, IRQ_KEYBOARD} /\ v # IPI_PANIC
        /\ pc' = IF v = IPI_PANIC THEN [pc EXCEPT ![p] = "halt"] ELSE pc
        /\ UNCHANGED <<useApic, lapic, hnd>>
    <3>. HIDE DEF BootInv, BootTypes, IntrInv, IntrAt
    <3>. QED
      BY <1>14, InterruptTaken, Vectors
  <2>2. /\ intr' = [intr EXCEPT ![p] = FALSE] /\ inh' = [inh EXCEPT ![p] = v]
        /\ isr' = [isr EXCEPT ![p] = {v}]
    <3>1. isr[p] = {} /\ isr' = [isr EXCEPT ![p] = @ \cup {v}]
      BY <1>14, InterruptTaken, NothingInService
    <3>2. isr' = [isr EXCEPT ![p] = {v}]
      BY <3>1
    <3>. QED
      BY <1>14, <3>2, InterruptTaken
  <2>3. \A q \in Proc : q # p =>
          pc'[q] = pc[q] /\ intr'[q] = intr[q] /\ inh'[q] = inh[q] /\ isr'[q] = isr[q]
    BY <2>1, <2>2
  <2>4. /\ ~ intr'[p] /\ inh'[p] = v /\ isr'[p] = {v}
        /\ pc'[p] = IF v = IPI_PANIC THEN "halt" ELSE pc[p]
    BY <2>1, <2>2
  <2>5. pc[p] = "run" => Registered(p) /\ (useApic => lapic[p])
    BY DEF HandlerInv, CalInv, UpInv
  <2>. QED
    BY <2>1, <2>3, <2>4, <2>5
<1>15. ASSUME NEW p \in Proc, TimerFires(p) PROVE IntrInv'
  BY <1>15 DEF TimerFires, Raise
<1>16. ASSUME NEW p \in Proc, Panic(p) PROVE IntrInv'
  <2>1. /\ UNCHANGED <<useApic, lapic, hnd, inh, isr>> /\ intr' = [intr EXCEPT ![p] = FALSE]
        /\ pc[p] # "calibrate"
        /\ pc' = [pc EXCEPT ![p] = IF lapic[p] THEN "halt" ELSE "panic_loop"]
    BY <1>16 DEF Panic
  <2>2. pc'[p] \in {"halt", "panic_loop"} /\ \A q \in Proc : q # p => pc'[q] = pc[q]
    BY <2>1
  <2>. QED
    BY <2>1, <2>2
<1>17. ASSUME NEW p \in Aps, GetId(p) PROVE IntrInv'
  BY <1>17 DEF GetId
<1>18. ASSUME NEW p \in Aps, Lock(p) PROVE IntrInv'
  BY <1>18 DEF Lock
<1>19. ASSUME NEW p \in Aps, Unlock(p) PROVE IntrInv'
  BY <1>19 DEF Unlock
<1>20. ASSUME NEW p \in Aps, Count(p) PROVE IntrInv'
  BY <1>20 DEF Count
<1>21. ASSUME NEW p \in Aps, Go(p) PROVE IntrInv'
  <2>1. inh[p] = None /\ isr[p] = {}
    BY <1>21 DEF Go
  <2>2. /\ pc' = [pc EXCEPT ![p] = "run"] /\ intr' = [intr EXCEPT ![p] = TRUE]
        /\ UNCHANGED <<inh, isr, lapic>> /\ (useApic' => useApic)
        /\ \A u \in Proc \ {p} : hnd'[u] = hnd[u]
    BY <1>21 DEF Go
  <2>3. IntrAt(p)'
    BY <2>1, <2>2, Vectors
  <2>4. ASSUME NEW u \in Proc, u # p PROVE IntrAt(u)'
    BY <1>0, <2>2, <2>4
  <2>. QED
    BY <2>3, <2>4
<1>22. ASSUME NEW p \in Aps, Sipi(p) PROVE IntrInv'
  BY <1>22 DEF Sipi
<1>23. ASSUME NEW p \in Proc, NEW q \in Proc, SendExit(p, q) PROVE IntrInv'
  BY <1>23 DEF SendExit, Raise
<1>. QED
  BY <1>1, <1>2, <1>3, <1>4, <1>5, <1>6, <1>7, <1>8, <1>9, <1>10,
     <1>11, <1>12, <1>13, <1>14, <1>15, <1>16, <1>17, <1>18, <1>19, <1>20,
     <1>21, <1>22, <1>23, <1>24
     DEF BootNext, BspStep, Step

-----------------------------------------------------------------------------
(* The invariant holds in every reachable state.                           *)

(* The processors have just been reset. *)
LEMMA BootInit ==
  ASSUME Init
  PROVE  BootInv
<1>. USE Names DEF Init
<1>1. BootTypes
  BY Tables, ListedAssumption DEF BootTypes, ApLabels, BspLabels, N, IdMap!Init
<1>2. IdInv
  BY DEF IdInv, Numbered
<1>3. CalInv
  BY DEF CalInv
<1>4. TallyInv
  BY BootConstants, ListedAssumption, FS_CardinalityType DEF TallyInv, N
<1>5. UpInv
  BY DEF UpInv, EarlyLabels
<1>6. HandlerInv
  BY Tables DEF HandlerInv
<1>7. IntrInv
  BY Vectors DEF IntrInv, IntrAt
<1>. QED
  BY <1>1, <1>2, <1>3, <1>4, <1>5, <1>6, <1>7 DEF BootInv

(* Each step of a processor, of the hardware or of a device keeps it. *)
LEMMA BootStep ==
  ASSUME BootInv, [BootNext]_bootVars
  PROVE  BootInv'
<1>1. CASE BootNext
  BY <1>1, TypesStep, IdStep, CalStep, TallyStep, UpStep, HandlerStep, IntrStep DEF BootInv
<1>2. CASE UNCHANGED bootVars
  <2>. USE <1>2 DEF bootVars, machine, mapVars
  <2>1. BootTypes' /\ IdInv' /\ CalInv'
    BY DEF BootInv, BootTypes, IdInv, Numbered, CalInv
  <2>2. TallyInv' /\ UpInv'
    BY DEF BootInv, TallyInv, Uncounted, UpInv
  <2>3. HandlerInv' /\ IntrInv'
    BY DEF BootInv, HandlerInv, Registered, IntrInv, IntrAt
  <2>. QED
    BY <2>1, <2>2, <2>3 DEF BootInv
<1>. QED
  BY <1>1, <1>2

(* The invariant, for every behaviour. *)
THEOREM BootCorrect == BootSpec => []BootInv
<1>1. Init => BootInv
  BY BootInit
<1>2. BootInv /\ [BootNext]_bootVars => BootInv'
  BY BootStep
<1>. QED
  BY <1>1, <1>2, PTL DEF BootSpec

(* The types of the start-up: apsToBoot never falls below zero, and no id  *)
(* is beyond the stacks that smp_init allocated.                           *)
THEOREM TypeCorrect == BootSpec => []TypeOK
<1>1. BootInv => TypeOK
  <2>. SUFFICES ASSUME BootInv PROVE TypeOK
    OBVIOUS
  <2>1. /\ pc \in [Proc -> ApLabels \cup BspLabels] /\ allocLock \in Proc \cup {None}
        /\ irr \in [Proc -> SUBSET Vec] /\ isr \in [Proc -> SUBSET Vec]
        /\ inh \in [Proc -> Vec \cup {None}]
    BY DEF BootInv, BootTypes
  <2>2. apsToBoot \in 0 .. listed /\ mapPc \in [Proc -> {"idle", "load", "use", "cas"}]
    BY DEF BootInv, BootTypes, TallyInv
  <2>3. id \in [Proc -> 0 .. listed \cup {None}]
    BY IdBound, ListedAssumption DEF BootInv, BootTypes, IdInv
  <2>. QED
    BY <2>1, <2>2, <2>3 DEF TypeOK, ApLabels, BspLabels
<1>. QED
  BY <1>1, BootCorrect, PTL

(* No two processors have one id, so none shares a stack or a list of the  *)
(* scheduler with another, for any number of processors and any loss or    *)
(* repetition of start-up interrupts (ap_boot.asm, smp_init).              *)
THEOREM IdsCorrect == BootSpec => []OwnId
<1>1. BootInv => OwnId
  <2>. SUFFICES ASSUME BootInv, NEW p \in Proc, id[p] # None
                PROVE  /\ id[p] <= listed
                       /\ \A q \in Proc \ {p} : id[p] # id[q]
    BY DEF OwnId
  <2>1. id[p] <= listed
    BY IdBound, ListedAssumption DEF BootInv, BootTypes
  <2>2. ASSUME NEW q \in Proc \ {p} PROVE id[p] # id[q]
    BY Names, NoneAssumption DEF BootInv, IdInv
  <2>. QED
    BY <2>1, <2>2
<1>. QED
  BY <1>1, BootCorrect, PTL

(* An interrupt is only taken where rust_int_handler finds its handlers    *)
(* and eoi() its controller, the window of the calibration included.       *)
THEOREM InterruptsHandled == BootSpec => []Handled
<1>1. BootInv => Handled
  <2>. SUFFICES ASSUME BootInv, NEW p \in Proc, inh[p] # None
                PROVE  /\ "time_handler" \in Runs(p, IRQ_TIMER) \/ pc[p] = "calibrate"
                       /\ inh[p] # IRQ_KEYBOARD /\ pc[p] # "calibrate" => Runs(p, inh[p]) # {}
                       /\ inh[p] \in {IRQ_TIMER, IRQ_KEYBOARD} /\ useApic => lapic[p]
    BY DEF Handled
  <2>1. CASE pc[p] = "calibrate"
    BY <2>1, Names DEF BootInv, BootTypes, ApLabels, CalInv
  <2>2. CASE pc[p] # "calibrate"
    <3>1. Registered(p) /\ (useApic => lapic[p])
      BY <2>2 DEF BootInv, IntrInv, IntrAt
    <3>2. over[p] = None /\ inh[p] \in Vec
      BY <2>2 DEF BootInv, BootTypes, CalInv
    <3>3. /\ 0 \in 0 .. MAX_HANDLERS - 1 /\ MAX_HANDLERS - 1 \in 0 .. MAX_HANDLERS - 1
          /\ None \notin {"time_handler", "ipi_process_exit_handler", "ipi_panic"}
      BY NoneAssumption DEF MAX_HANDLERS
    <3>4. "time_handler" \in Runs(p, IRQ_TIMER)
      BY <3>1, <3>2, <3>3 DEF Runs, Registered
    <3>5. "ipi_process_exit_handler" \in Runs(p, IPI_PROCESS_EXIT)
      BY <3>1, <3>2, <3>3 DEF Runs, Registered
    <3>6. "ipi_panic" \in Runs(p, IPI_PANIC)
      BY <3>1, <3>2, <3>3 DEF Runs, Registered
    <3>. QED
      BY <3>1, <3>2, <3>4, <3>5, <3>6 DEF Vec
  <2>. QED
    BY <2>1, <2>2
<1>. QED
  BY <1>1, BootCorrect, PTL

(* Outside of handlers and of the calibration only an exit ipi is left in  *)
(* service (int.asm, eoi and the last lines of nanosec_per_timer_tick).    *)
THEOREM InterruptsAcknowledged == BootSpec => []Acknowledged
<1>1. BootInv => Acknowledged
  BY DEF BootInv, IntrInv, IntrAt, Acknowledged
<1>. QED
  BY <1>1, BootCorrect, PTL

(* Nobody passes APS_GO before every local APIC is set, whoever panics on  *)
(* the way and however many processors more the MADT lists (smp_init and   *)
(* ap_init).  That each is also in LAPIC_ID_MAP is not so: see IdsKept.    *)
THEOREM ProcessorsUp == BootSpec => []AllUp
<1>1. BootInv => AllUp
  <2>. SUFFICES ASSUME BootInv, hasApic, NEW p \in Proc, pc[p] = "run", NEW q \in Proc
                PROVE  lapic[q]
    BY DEF AllUp
  <2>1. apsGo
    BY Names DEF BootInv, UpInv
  <2>. QED
    BY <2>1 DEF BootInv, UpInv
<1>. QED
  BY <1>1, BootCorrect, PTL
=============================================================================
