------------------------------ MODULE MCDevices ------------------------------
(***************************************************************************)
(* The IO registers of DataSpace other than timer 0 in one run: timers 3   *)
(* and 4, and the EEPROM, PLL, ADC and SPI registers. A behaviour uses one *)
(* of the two groups; they share no state.                                 *)
(***************************************************************************)
EXTENDS Timers34, Peripherals

VARIABLE device

DevInit == device \in {"timers", "drivers"} /\ Init /\ DriversInit
TimersRun == device = "timers" /\ Next /\ UNCHANGED <<device, driverVars>>
DriversRun == device = "drivers" /\ DriversNext /\ UNCHANGED <<device, vars>>
DevNext == TimersRun \/ DriversRun
DevSpec == /\ DevInit /\ [][DevNext]_<<device, vars, driverVars>>
           /\ WF_driverVars(Instruction) /\ WF_driverVars(End)
=============================================================================
