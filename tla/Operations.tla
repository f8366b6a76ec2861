------------------------------ MODULE Operations ------------------------------
(***************************************************************************)
(* What the public operations of SPD3000 (driver.py) ask of the executor:  *)
(* how many queries a read sends, whether a write has a query that reads   *)
(* it back, and which capability of the connected model each one needs.    *)
(* A property "x" that can be written is "x" when read, "x=" when written. *)
(***************************************************************************)
EXTENDS Integers

Models == {"SPD3303X", "SPD3303X-E", "SPD3303C"}

Capabilities == {"measure_power", "waveform", "timer", "network", "lock_query",
                 "socket", "vxi11"}

CAPABILITIES(model) == IF model = "SPD3303C" THEN {} ELSE Capabilities

ChannelReads   == {"voltage", "current", "output"}
MeasureReads   == {"measure.voltage", "measure.current", "measure.power"}
SystemReads    == {"idn", "system.error", "system.version", "system.status"}
NetworkFields  == {"ipaddr", "maskaddr", "gateaddr", "dhcp"}

SingleReads == ChannelReads \cup MeasureReads \cup SystemReads \cup NetworkFields
                 \cup {"instrument", "locked", "timer.set", "scpi.query"}
ManyReads   == {"network.settings"}
Reads       == SingleReads \cup ManyReads

ChannelWrites == {"voltage=", "current=", "output="}
StatusWrites  == {"output.track", "output.wave", "timer"}
NetworkWrites == {"ipaddr=", "maskaddr=", "gateaddr=", "dhcp="}
LockWrites    == {"lock", "unlock"}

ReadableWrites   == ChannelWrites \cup StatusWrites \cup NetworkWrites
                      \cup {"timer.set=", "instrument="}
UnreadableWrites == {"ch3.output=", "sav", "rcl", "scpi.write"}
Writes           == ReadableWrites \cup UnreadableWrites \cup LockWrites

Names == Reads \cup Writes \cup {"ch3.output"}

\* _require: the capabilities that must be there for the operation.
Needs(name) ==
  CASE name = "measure.power"                       -> {"measure_power"}
    [] name = "output.wave"                         -> {"waveform"}
    [] name \in {"timer", "timer.set", "timer.set="} -> {"timer"}
    [] name \in NetworkFields \cup NetworkWrites \cup ManyReads -> {"network"}
    [] name = "locked"                              -> {"lock_query"}
    [] OTHER                                        -> {}

\* The output of CH3 cannot be read on any model.
Supported(name, model) ==
  name # "ch3.output" /\ Needs(name) \subseteq CAPABILITIES(model)

\* Queries that a read sends.
Size(name) == IF name \in ManyReads THEN 4 ELSE 1

\* A write that a query can confirm; lock and unlock where *LOCK? exists.
Readable(name, model) ==
  \/ name \in ReadableWrites
  \/ name \in LockWrites /\ "lock_query" \in CAPABILITIES(model)
===============================================================================
