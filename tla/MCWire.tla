------------------------------- MODULE MCWire -------------------------------
(* Instances of Wire for TLC. *)
EXTENDS Wire, TLC

CONSTANT NoMessage

-----------------------------------------------------------------------------
(* Samples, in half quanta: exact, half way between two quanta to an even   *)
(* and to an odd one, both signs, both ends of 16 bits and beyond them.    *)
Parts   == <<0, 1, 3, -1, -3, 2, 65534, 65535, 65536, -65536, -65537, -70001>>
Samples == [i \in DOMAIN Parts |->
              [real |-> Parts[i], imag |-> Parts[Len(Parts) + 1 - i]]]

Item(u, t, a, g, srs) ==
  [rnti |-> u, timestamp |-> t, antenna_id |-> a, generated |-> g, srs |-> srs]

(* One stream with every sample and one with none; and streams of two UEs   *)
(* and of two snapshots that are not next to their kind.                   *)
ItemBatches ==
  {<<Item(300, 5, 0, TRUE, Samples), Item(300, 5, 1, TRUE, <<>>)>>}
  \cup {<<Item(u, 128, 0, g, <<Samples[2]>>), Item(v, 127, 1, h, <<Samples[3], Samples[4]>>),
          Item(u, 127, 1, FALSE, <<>>), Item(u, 128, 1, g, <<Samples[9]>>)>> :
        u, v \in {0, 127, 300}, g, h \in BOOLEAN}
  \cup {<<>>}

Snapshot(u, t, antennas) ==
  [rnti |-> u, timestamp |-> t,
   antenna_data |-> [a \in DOMAIN antennas |->
     [antenna_id |-> antennas[a], generated_srs |-> <<Samples[a]>>,
      received_srs |-> <<Samples[a + 1], Samples[7]>>]]]

AntennaOrders == {<<0, 1>>, <<1, 0>>}

SnapshotDrains ==
  {<<Snapshot(u, t, p)>> : u \in {1, 300}, t \in {0, 200}, p \in AntennaOrders}
  \cup {<<Snapshot(1, t, p), Snapshot(300, s, q)>> :
        t, s \in {1, 200}, p, q \in AntennaOrders}

Record(u, i, t, advance, source, attached) ==
  [rnti |-> u, ue_index |-> i, timestamp |-> t, timing_advance |-> advance,
   source |-> source, attached |-> attached]

ObservationLists ==
  {<<Record(u, i, 127, a, s, TRUE)>> :
     u \in {0, 127, 128, 300}, i \in {0, 129}, a \in {0, 128}, s \in 0..3}
  \cup {<<Record(0, 7, 128, 0, 0, FALSE), Record(7, 0, 128, 129, s, TRUE), Record(300, 1, 0, 1, 1, FALSE)>> :
          s \in 0..3}

ConfigRequests == {[request_id |-> id, xapp_id |-> name] : id \in {0, 1, 128, 20000}, name \in {<<>>, <<97, 98>>}}

Hertz == <<0, 0, 0, 0, 0, 0, 62, 64>>

RadioConfigs ==
  {[num_rx_antennas |-> n, srs_bandwidth_prb |-> 106, num_srs_symbols |-> 1,
    sampling_frequency_hz |-> Hertz, subcarrier_spacing_khz |-> Hertz,
    carrier_frequency_hz |-> carrier] :
     n \in {0, 2}, carrier \in {ZeroDouble, Hertz, [Hertz EXCEPT ![8] = 192]}}

-----------------------------------------------------------------------------
(* Example messages: a message with every field set, all but one of its     *)
(* fields cleared or but one kept, and the empty one; as second message    *)
(* also one with other values.                                             *)
Word(n) == [high |-> n, low |-> (n + 256) % 65536]

Symbol  == [iq_samples |-> <<Word(1), Word(65535)>>, unknown |-> <<>>]
Antenna == [antenna_id |-> 128, generated |-> TRUE, srs |-> <<Symbol>>, unknown |-> <<>>]
Ue      == [rnti |-> 300, timestamp |-> 20000, antenna_data |-> <<Antenna, SrsAntennaData_Clear>>,
            unknown |-> <<>>]
Applied == [tx_comb |-> 4, num_occupied_ofdm_symbols |-> 1, frequency_hopping_enabled |-> TRUE,
            b_srs |-> 0, c_srs |-> 127, m_srs_0_prb |-> 128, ul_bandwidth_prb |-> 275,
            freq_domain_shift |-> 0, periodicity_slots |-> 20, periodicity_offset |-> 3,
            unknown |-> <<120, 5>>]
Observation == Record(300, 128, 20000, 127, 2, TRUE) @@ [unknown |-> <<>>]
Estimate == [rnti |-> 300, doa_azimuth_deg |-> Hertz, doa_elevation_deg |-> Hertz,
             distance_meters |-> [Hertz EXCEPT ![8] = 192], timestamp |-> 129, valid |-> TRUE,
             unknown |-> <<>>]

Full ==
  [SrsSymbol |-> Symbol, SrsAntennaData |-> Antenna, UeSrsData |-> Ue,
   SrsIndicationMessage |-> [ue_srs_data |-> <<Ue, UeSrsData_Clear>>, unknown |-> <<120, 129, 1>>],
   GnbConfigRequest |-> [request_id |-> 128, xapp_id |-> <<97, 98>>, unknown |-> <<>>],
   GnbConfigMessage |->
     [request_id |-> 20000, num_rx_antennas |-> 2, srs_bandwidth_prb |-> 127,
      num_srs_symbols |-> 128, sampling_frequency_hz |-> Hertz,
      subcarrier_spacing_khz |-> Hertz, success |-> TRUE, ul_bandwidth_prb |-> 275,
      carrier_frequency_hz |-> Hertz, unknown |-> <<>>],
   SrsDefaultsControlRequest |->
     [request_id |-> 1, xapp_id |-> <<97>>, tx_comb |-> 2, num_occupied_ofdm_symbols |-> 4,
      frequency_hopping_enabled |-> TRUE, b_srs |-> 128, use_max_available_c_srs |-> TRUE,
      c_srs |-> 63, periodicity_slots |-> 300, periodicity_offset |-> 7, unknown |-> <<>>],
   SrsDefaultsApplied |-> Applied,
   SrsDefaultsControlAck |->
     [request_id |-> 1, success |-> TRUE, status_text |-> <<111, 107>>, applied |-> <<Applied>>,
      unknown |-> <<>>],
   TimingAdvanceData |-> Observation,
   TimingAdvanceIndicationMessage |->
     [timing_advance_data |-> <<Observation, TimingAdvanceData_Clear>>, unknown |-> <<>>],
   UeListMessage |-> [connected_ues |-> 2, rnti_list |-> <<127, 128, 0>>, unknown |-> <<>>],
   UeLocationEstimate |-> Estimate,
   LocationEstimateResponse |-> [ue_locations |-> <<Estimate>>, unknown |-> <<>>]]

(* The message with those fields only. *)
Only(type, names) ==
  [name \in DOMAIN Full[type] |-> IF name \in names THEN Full[type][name] ELSE Clear[type][name]]

Examples(type) ==
  LET names == DOMAIN Full[type]
  IN  {Only(type, part) : part \in {{}, names} \cup {{name} : name \in names}
                                   \cup {names \ {name} : name \in names}}

(* An acknowledgement whose applied defaults are in part the first one's    *)
(* and in part the second's.                                               *)
AckParts ==
  LET ack(applied) == [SrsDefaultsControlAck_Clear EXCEPT !.applied = <<applied>>]
  IN  {<<ack(a), ack(b)>> : a, b \in Examples("SrsDefaultsApplied")}

ExamplePairs ==
  [type \in DOMAIN Full |->
     (Examples(type) \X Examples(type))
       \cup (IF type = "SrsDefaultsControlAck" THEN AckParts ELSE {})]

ASSUME ExamplesAssumption ==
  \A type \in DOMAIN Full : Examples(type) \subseteq Fields[type]
=============================================================================
