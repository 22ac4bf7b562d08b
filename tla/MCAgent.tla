------------------------------ MODULE MCAgent ------------------------------
(* Instances of Agent for TLC. *)
EXTENDS Agent

CONSTANTS du1, du2, cuup, cucp

TwoDus  == {du1, du2}
OneDu   == {du1}
OneCuUp == {cuup}
OneCuCp == {cucp}

(* No radio configuration, one with every field, one with some. *)
NotGiven == [f \in RadioFields |-> 0]
Full     == [f \in RadioFields |->
               CASE f = "num_rx_antennas"        -> 4
                 [] f = "ul_bandwidth_prb"       -> 106
                 [] f = "sampling_frequency_hz"  -> 61440
                 [] f = "subcarrier_spacing_khz" -> 15
                 [] f = "carrier_frequency_hz"   -> 1842500]
Partial  == [NotGiven EXCEPT !["num_rx_antennas"] = 1]

Radios      == {NotGiven, Full, Partial}
AllChoices  == {{}, {"kpm", "rc"}, {"srs"}, Functions}
SrsOnly     == {{"srs"}}
SomeBytes   == {<<>>, <<1>>, <<2>>, <<3, 2>>}
SomePeriods == {<<>>, <<0>>, <<100>>}
Ids         == {7}
============================================================================
