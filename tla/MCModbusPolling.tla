-------------------------- MODULE MCModbusPolling --------------------------
(* Model-checking instance of ModbusPolling: runners that share an         *)
(* endpoint, and one with an endpoint of its own.                          *)
EXTENDS ModbusPolling

MCRunners == {"a", "b", "c"}
MCEndpointOf == [r \in MCRunners |-> IF r = "c" THEN "solo" ELSE "shared"]

=============================================================================
