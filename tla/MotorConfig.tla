------------------------------ MODULE MotorConfig ------------------------------
(***************************************************************************)
(* config::resolveMotorConfig: what a drive's configuration is once the    *)
(* profile recorded in its summary has been applied.  It runs in every     *)
(* MotorDrive constructor and once more when the application is            *)
(* constructed; Bus compares what the first of them gave.                  *)
(*                                                                         *)
(* The [profile] fields are names; `fields` maps each to its value,        *)
(* homing's and durations included.  `bus` stands for the settings of the  *)
(* bus that no profile touches.                                            *)
(***************************************************************************)
EXTENDS Integers

CONSTANTS
    Fields,     \* the fields a profile may set
    Values,     \* their values
    Default,    \* the value of each in MotorConfig{}
    BusLevel    \* dcf path, summary path, master node id and rt

Config == [sync : Nat, bus : BusLevel, fields : [Fields -> Values]]

\* A summary: `sync` is 0 if it records none, and `runtime` has what its runtime
\* section records, which is nothing if there is no such section.
Profile(runtime) == DOMAIN runtime \subseteq Fields /\ \A f \in DOMAIN runtime : runtime[f] \in Values
IsSummary(s) == s.readable \in BOOLEAN /\ s.sync \in Nat /\ Profile(s.runtime)

\* Also applyIfDefaultMs, and the flag save_zero_to_nvm.
applyIfDefault(value, f, runtime) ==
    IF value = Default[f] /\ f \in DOMAIN runtime THEN runtime[f] ELSE value

resolveMotorConfig(config, s) ==
    IF ~s.readable THEN config
    ELSE [sync   |-> IF s.sync = 0 THEN config.sync ELSE s.sync,
          bus    |-> config.bus,
          fields |-> [f \in Fields |-> applyIfDefault(config.fields[f], f, s.runtime)]]

validateBusMatch(a, b) == a.sync = b.sync /\ a.bus = b.bus
==============================================================================
