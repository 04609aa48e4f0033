----------------------------- MODULE MCReadings -----------------------------
(***************************************************************************)
(* One device of each kind, and one more whose name the adapter changes.   *)
(***************************************************************************)
EXTENDS Readings

W(t) == [text |-> t, upper |-> FALSE, odd |-> "none"]

MCDevices ==
    { [plugin |-> "zigbee2mqtt", name |-> <<W("a")>>],
      [plugin |-> "zigbee2mqtt", name |-> <<[W("a") EXCEPT !.upper = TRUE]>>],
      [plugin |-> "sdr433", model |-> {<<W("a")>>}, id |-> Empty, channel |-> Empty] }

MCPayloads == {{"humidity", "last_seen"}}

=============================================================================
