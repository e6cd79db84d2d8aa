----------------------------- MODULE MCMachine ------------------------------
(***************************************************************************)
(* The start of the processors and the clock of one of them, each in       *)
(* behaviours of its own.  The fairness is that of Boot; the properties of *)
(* the clock are safety properties, which do not need it.                  *)
(***************************************************************************)
EXTENDS Boot, Clock

VARIABLE kind

MCInit == kind \in {"boot", "clock"} /\ Init /\ ClockInit
          /\ (kind = "boot" => source = "pit")
          /\ (kind = "clock" => ~hasApic /\ overrides = {})

MCNext ==
  \/ kind = "boot" /\ BootNext /\ UNCHANGED <<kind, clockVars>>
  \/ kind = "clock" /\ ClockNext /\ UNCHANGED <<kind, bootVars>>

MCSpec == MCInit /\ [][MCNext]_<<kind, bootVars, clockVars>> /\ BootFairness

(* The start alone, on a machine in which it ends: with three processors   *)
(* beside the first it is as far as LAPIC_ID_MAP goes.                     *)
MapInit ==
  /\ kind = "boot" /\ Init /\ ClockInit /\ source = "pit"
  /\ hasApic /\ overrides = {IRQ_TIMER} /\ lapic0 = Bsp /\ listed = Cardinality(Aps)
MapNext ==
  /\ \/ BspStep \/ PitFires
     \/ \E p \in Proc : Step(p)
     \/ \E p \in Aps : Sipi(p)
  /\ UNCHANGED <<kind, clockVars>>
MapSpec == MapInit /\ [][MapNext]_<<kind, bootVars, clockVars>>
=============================================================================
