----------------------------- MODULE MCPsuPower -----------------------------
(* Values of the constants for the runs of PsuPower. *)
EXTENDS PsuPower

MCDefault == [powerOn |-> TRUE, voltage |-> 6, minimalVoltage |-> 4, initialVoltage |-> 5,
              lowPowerTime |-> 2, voltageStepUp |-> 1, voltageStepDown |-> 2]

\* The default; lower limits, with a step down as large as the voltage; and the supply
\* switched off.
MCConfigs == {MCDefault,
              [MCDefault EXCEPT !.voltage = 3, !.minimalVoltage = 2, !.lowPowerTime = 1,
                                !.voltageStepDown = 3],
              [MCDefault EXCEPT !.powerOn = FALSE]}
=============================================================================
