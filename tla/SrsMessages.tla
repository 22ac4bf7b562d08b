---------------------------- MODULE SrsMessages ----------------------------
(***************************************************************************)
(* The messages of srs_messages.proto as the generated srs_messages.pb.cc  *)
(* and srs_messages.pb.h implement them, one table per generated function: *)
(*                                                                         *)
(*   M_fields             what the accessors of M store,                   *)
(*   M_Clear              the message with every field at its default,     *)
(*   M_InternalParse      which tag is read how, and into which field,     *)
(*   M_InternalSerialize  the fields in the order in which they are        *)
(*                        written, with their numbers,                     *)
(*   M_ByteSizeLong       how the size of each field is counted,           *)
(*   M_MergeFrom          what merging does with each field.               *)
(*                                                                         *)
(* ProtoWire says what the functions do with their tables.  A message is a *)
(* record; an embedded message is a sequence of at most one, and "unknown" *)
(* holds the bytes of the fields that the message does not know.           *)
(***************************************************************************)
EXTENDS Naturals, Sequences

CONSTANTS
  Modulus32,  \* the numbers of a uint32
  Modulus64   \* the numbers of a uint64

ASSUME ModulusAssumption ==
  Modulus32 \in Nat \ {0} /\ Modulus64 \in Nat /\ Modulus64 >= Modulus32

Byte        == 0..255
UInt32      == 0..(Modulus32 - 1)
UInt64      == 0..(Modulus64 - 1)
Half16      == 0..65535
Fixed32     == [high : Half16, low : Half16]
Double      == [1..8 -> Byte]
Text        == Seq(0..127)
Optional(S) == {s \in Seq(S) : Len(s) <= 1}
ZeroDouble  == [i \in 1..8 |-> 0]

-----------------------------------------------------------------------------
(* The samples of one SRS symbol. *)
SrsSymbol_fields ==
  [iq_samples : Seq(Fixed32), unknown : Seq(Byte)]

SrsSymbol_Clear ==
  [iq_samples |-> <<>>, unknown |-> <<>>]

SrsSymbol_InternalParse ==
  << <<10, "iq_samples", "packed fixed32">>,
    <<13, "iq_samples", "one fixed32">> >>

SrsSymbol_InternalSerialize ==
  << <<1, "iq_samples", "packed fixed32">> >>

SrsSymbol_ByteSizeLong ==
  << <<"iq_samples", "packed fixed32">> >>

SrsSymbol_MergeFrom ==
  << <<"iq_samples", "repeated">> >>

-----------------------------------------------------------------------------
(* One stream: an antenna, which of its two sequences, the samples. *)
SrsAntennaData_fields ==
  [antenna_id : UInt32, generated : BOOLEAN, srs : Optional(SrsSymbol_fields),
   unknown : Seq(Byte)]

SrsAntennaData_Clear ==
  [antenna_id |-> 0, generated |-> FALSE, srs |-> <<>>, unknown |-> <<>>]

SrsAntennaData_InternalParse ==
  << <<8, "antenna_id", "uint32">>, <<16, "generated", "bool">>,
    <<26, "srs", "message", "SrsSymbol">> >>

SrsAntennaData_InternalSerialize ==
  << <<1, "antenna_id", "uint32">>, <<2, "generated", "bool">>,
    <<3, "srs", "message", "SrsSymbol">> >>

SrsAntennaData_ByteSizeLong ==
  << <<"srs", "message", "SrsSymbol">>, <<"antenna_id", "uint32">>,
    <<"generated", "bool">> >>

SrsAntennaData_MergeFrom ==
  << <<"srs", "message", "SrsSymbol">>, <<"antenna_id", "number">>,
    <<"generated", "bool">> >>

-----------------------------------------------------------------------------
(* The streams of one UE in one snapshot. *)
UeSrsData_fields ==
  [rnti : UInt32, timestamp : UInt64,
   antenna_data : Seq(SrsAntennaData_fields), unknown : Seq(Byte)]

UeSrsData_Clear ==
  [rnti |-> 0, timestamp |-> 0, antenna_data |-> <<>>, unknown |-> <<>>]

UeSrsData_InternalParse ==
  << <<8, "rnti", "uint32">>, <<16, "timestamp", "uint64">>,
    <<26, "antenna_data", "messages", "SrsAntennaData">> >>

UeSrsData_InternalSerialize ==
  << <<1, "rnti", "uint32">>, <<2, "timestamp", "uint64">>,
    <<3, "antenna_data", "messages", "SrsAntennaData">> >>

UeSrsData_ByteSizeLong ==
  << <<"antenna_data", "messages", "SrsAntennaData">>,
    <<"timestamp", "uint64">>, <<"rnti", "uint32">> >>

UeSrsData_MergeFrom ==
  << <<"antenna_data", "repeated">>, <<"timestamp", "number">>,
    <<"rnti", "number">> >>

-----------------------------------------------------------------------------
(* An indication of the SRS stream. *)
SrsIndicationMessage_fields ==
  [ue_srs_data : Seq(UeSrsData_fields), unknown : Seq(Byte)]

SrsIndicationMessage_Clear ==
  [ue_srs_data |-> <<>>, unknown |-> <<>>]

SrsIndicationMessage_InternalParse ==
  << <<10, "ue_srs_data", "messages", "UeSrsData">> >>

SrsIndicationMessage_InternalSerialize ==
  << <<1, "ue_srs_data", "messages", "UeSrsData">> >>

SrsIndicationMessage_ByteSizeLong ==
  << <<"ue_srs_data", "messages", "UeSrsData">> >>

SrsIndicationMessage_MergeFrom ==
  << <<"ue_srs_data", "repeated">> >>

-----------------------------------------------------------------------------
(* The request for the gNB's configuration. *)
GnbConfigRequest_fields ==
  [request_id : UInt64, xapp_id : Text, unknown : Seq(Byte)]

GnbConfigRequest_Clear ==
  [request_id |-> 0, xapp_id |-> <<>>, unknown |-> <<>>]

GnbConfigRequest_InternalParse ==
  << <<8, "request_id", "uint64">>, <<18, "xapp_id", "string">> >>

GnbConfigRequest_InternalSerialize ==
  << <<1, "request_id", "uint64">>, <<2, "xapp_id", "string">> >>

GnbConfigRequest_ByteSizeLong ==
  << <<"xapp_id", "string">>, <<"request_id", "uint64">> >>

GnbConfigRequest_MergeFrom ==
  << <<"xapp_id", "string">>, <<"request_id", "number">> >>

-----------------------------------------------------------------------------
(* The answer to it. *)
GnbConfigMessage_fields ==
  [request_id : UInt64, num_rx_antennas : UInt32, srs_bandwidth_prb : UInt32,
   num_srs_symbols : UInt32, sampling_frequency_hz : Double,
   subcarrier_spacing_khz : Double, success : BOOLEAN,
   ul_bandwidth_prb : UInt32, carrier_frequency_hz : Double,
   unknown : Seq(Byte)]

GnbConfigMessage_Clear ==
  [request_id |-> 0, num_rx_antennas |-> 0, srs_bandwidth_prb |-> 0,
   num_srs_symbols |-> 0, sampling_frequency_hz |-> ZeroDouble,
   subcarrier_spacing_khz |-> ZeroDouble, success |-> FALSE,
   ul_bandwidth_prb |-> 0, carrier_frequency_hz |-> ZeroDouble,
   unknown |-> <<>>]

GnbConfigMessage_InternalParse ==
  << <<8, "request_id", "uint64">>, <<16, "num_rx_antennas", "uint32">>,
    <<24, "srs_bandwidth_prb", "uint32">>, <<32, "num_srs_symbols", "uint32">>,
    <<41, "sampling_frequency_hz", "double">>,
    <<49, "subcarrier_spacing_khz", "double">>, <<56, "success", "bool">>,
    <<64, "ul_bandwidth_prb", "uint32">>,
    <<73, "carrier_frequency_hz", "double">> >>

GnbConfigMessage_InternalSerialize ==
  << <<1, "request_id", "uint64">>, <<2, "num_rx_antennas", "uint32">>,
    <<3, "srs_bandwidth_prb", "uint32">>, <<4, "num_srs_symbols", "uint32">>,
    <<5, "sampling_frequency_hz", "double">>,
    <<6, "subcarrier_spacing_khz", "double">>, <<7, "success", "bool">>,
    <<8, "ul_bandwidth_prb", "uint32">>,
    <<9, "carrier_frequency_hz", "double">> >>

(* Mutant: the size of the messages before they had the carrier frequency. *)
GnbConfigMessage_SizeWithoutCarrier ==
  << <<"request_id", "uint64">>, <<"num_rx_antennas", "uint32">>,
    <<"srs_bandwidth_prb", "uint32">>, <<"sampling_frequency_hz", "double">>,
    <<"num_srs_symbols", "uint32">>, <<"success", "bool">>,
    <<"subcarrier_spacing_khz", "double">>, <<"ul_bandwidth_prb", "uint32">> >>

GnbConfigMessage_ByteSizeLong ==
  << <<"request_id", "uint64">>, <<"num_rx_antennas", "uint32">>,
    <<"srs_bandwidth_prb", "uint32">>, <<"sampling_frequency_hz", "double">>,
    <<"num_srs_symbols", "uint32">>, <<"success", "bool">>,
    <<"subcarrier_spacing_khz", "double">>,
    <<"carrier_frequency_hz", "double">>, <<"ul_bandwidth_prb", "uint32">> >>

GnbConfigMessage_MergeFrom ==
  << <<"request_id", "number">>, <<"num_rx_antennas", "number">>,
    <<"srs_bandwidth_prb", "number">>, <<"sampling_frequency_hz", "double">>,
    <<"num_srs_symbols", "number">>, <<"success", "bool">>,
    <<"subcarrier_spacing_khz", "double">>,
    <<"carrier_frequency_hz", "double">>, <<"ul_bandwidth_prb", "number">> >>

-----------------------------------------------------------------------------
(* A request for other SRS defaults. *)
SrsDefaultsControlRequest_fields ==
  [request_id : UInt64, xapp_id : Text, tx_comb : UInt32,
   num_occupied_ofdm_symbols : UInt32, frequency_hopping_enabled : BOOLEAN,
   b_srs : UInt32, use_max_available_c_srs : BOOLEAN, c_srs : UInt32,
   periodicity_slots : UInt32, periodicity_offset : UInt32,
   unknown : Seq(Byte)]

SrsDefaultsControlRequest_Clear ==
  [request_id |-> 0, xapp_id |-> <<>>, tx_comb |-> 0,
   num_occupied_ofdm_symbols |-> 0, frequency_hopping_enabled |-> FALSE,
   b_srs |-> 0, use_max_available_c_srs |-> FALSE, c_srs |-> 0,
   periodicity_slots |-> 0, periodicity_offset |-> 0, unknown |-> <<>>]

SrsDefaultsControlRequest_InternalParse ==
  << <<8, "request_id", "uint64">>, <<18, "xapp_id", "string">>,
    <<24, "tx_comb", "uint32">>, <<32, "num_occupied_ofdm_symbols", "uint32">>,
    <<40, "frequency_hopping_enabled", "bool">>, <<48, "b_srs", "uint32">>,
    <<56, "use_max_available_c_srs", "bool">>, <<64, "c_srs", "uint32">>,
    <<72, "periodicity_slots", "uint32">>,
    <<80, "periodicity_offset", "uint32">> >>

SrsDefaultsControlRequest_InternalSerialize ==
  << <<1, "request_id", "uint64">>, <<2, "xapp_id", "string">>,
    <<3, "tx_comb", "uint32">>, <<4, "num_occupied_ofdm_symbols", "uint32">>,
    <<5, "frequency_hopping_enabled", "bool">>, <<6, "b_srs", "uint32">>,
    <<7, "use_max_available_c_srs", "bool">>, <<8, "c_srs", "uint32">>,
    <<9, "periodicity_slots", "uint32">>,
    <<10, "periodicity_offset", "uint32">> >>

SrsDefaultsControlRequest_ByteSizeLong ==
  << <<"xapp_id", "string">>, <<"request_id", "uint64">>,
    <<"tx_comb", "uint32">>, <<"num_occupied_ofdm_symbols", "uint32">>,
    <<"b_srs", "uint32">>, <<"frequency_hopping_enabled", "bool">>,
    <<"use_max_available_c_srs", "bool">>, <<"c_srs", "uint32">>,
    <<"periodicity_slots", "uint32">>, <<"periodicity_offset", "uint32">> >>

SrsDefaultsControlRequest_MergeFrom ==
  << <<"xapp_id", "string">>, <<"request_id", "number">>,
    <<"tx_comb", "number">>, <<"num_occupied_ofdm_symbols", "number">>,
    <<"b_srs", "number">>, <<"frequency_hopping_enabled", "bool">>,
    <<"use_max_available_c_srs", "bool">>, <<"c_srs", "number">>,
    <<"periodicity_slots", "number">>, <<"periodicity_offset", "number">> >>

-----------------------------------------------------------------------------
(* The SRS defaults that apply. *)
SrsDefaultsApplied_fields ==
  [tx_comb : UInt32, num_occupied_ofdm_symbols : UInt32,
   frequency_hopping_enabled : BOOLEAN, b_srs : UInt32, c_srs : UInt32,
   m_srs_0_prb : UInt32, ul_bandwidth_prb : UInt32, freq_domain_shift : UInt32,
   periodicity_slots : UInt32, periodicity_offset : UInt32,
   unknown : Seq(Byte)]

SrsDefaultsApplied_Clear ==
  [tx_comb |-> 0, num_occupied_ofdm_symbols |-> 0,
   frequency_hopping_enabled |-> FALSE, b_srs |-> 0, c_srs |-> 0,
   m_srs_0_prb |-> 0, ul_bandwidth_prb |-> 0, freq_domain_shift |-> 0,
   periodicity_slots |-> 0, periodicity_offset |-> 0, unknown |-> <<>>]

SrsDefaultsApplied_InternalParse ==
  << <<8, "tx_comb", "uint32">>, <<16, "num_occupied_ofdm_symbols", "uint32">>,
    <<24, "frequency_hopping_enabled", "bool">>, <<32, "b_srs", "uint32">>,
    <<40, "c_srs", "uint32">>, <<48, "m_srs_0_prb", "uint32">>,
    <<56, "ul_bandwidth_prb", "uint32">>,
    <<64, "freq_domain_shift", "uint32">>,
    <<72, "periodicity_slots", "uint32">>,
    <<80, "periodicity_offset", "uint32">> >>

SrsDefaultsApplied_InternalSerialize ==
  << <<1, "tx_comb", "uint32">>, <<2, "num_occupied_ofdm_symbols", "uint32">>,
    <<3, "frequency_hopping_enabled", "bool">>, <<4, "b_srs", "uint32">>,
    <<5, "c_srs", "uint32">>, <<6, "m_srs_0_prb", "uint32">>,
    <<7, "ul_bandwidth_prb", "uint32">>, <<8, "freq_domain_shift", "uint32">>,
    <<9, "periodicity_slots", "uint32">>,
    <<10, "periodicity_offset", "uint32">> >>

SrsDefaultsApplied_ByteSizeLong ==
  << <<"tx_comb", "uint32">>, <<"num_occupied_ofdm_symbols", "uint32">>,
    <<"frequency_hopping_enabled", "bool">>, <<"b_srs", "uint32">>,
    <<"c_srs", "uint32">>, <<"m_srs_0_prb", "uint32">>,
    <<"ul_bandwidth_prb", "uint32">>, <<"freq_domain_shift", "uint32">>,
    <<"periodicity_slots", "uint32">>, <<"periodicity_offset", "uint32">> >>

SrsDefaultsApplied_MergeFrom ==
  << <<"tx_comb", "number">>, <<"num_occupied_ofdm_symbols", "number">>,
    <<"frequency_hopping_enabled", "bool">>, <<"b_srs", "number">>,
    <<"c_srs", "number">>, <<"m_srs_0_prb", "number">>,
    <<"ul_bandwidth_prb", "number">>, <<"freq_domain_shift", "number">>,
    <<"periodicity_slots", "number">>, <<"periodicity_offset", "number">> >>

-----------------------------------------------------------------------------
(* The answer to that request. *)
SrsDefaultsControlAck_fields ==
  [request_id : UInt64, success : BOOLEAN, status_text : Text,
   applied : Optional(SrsDefaultsApplied_fields), unknown : Seq(Byte)]

SrsDefaultsControlAck_Clear ==
  [request_id |-> 0, success |-> FALSE, status_text |-> <<>>, applied |-> <<>>,
   unknown |-> <<>>]

SrsDefaultsControlAck_InternalParse ==
  << <<8, "request_id", "uint64">>, <<16, "success", "bool">>,
    <<26, "status_text", "string">>,
    <<34, "applied", "message", "SrsDefaultsApplied">> >>

SrsDefaultsControlAck_InternalSerialize ==
  << <<1, "request_id", "uint64">>, <<2, "success", "bool">>,
    <<3, "status_text", "string">>,
    <<4, "applied", "message", "SrsDefaultsApplied">> >>

SrsDefaultsControlAck_ByteSizeLong ==
  << <<"status_text", "string">>,
    <<"applied", "message", "SrsDefaultsApplied">>, <<"request_id", "uint64">>,
    <<"success", "bool">> >>

SrsDefaultsControlAck_MergeFrom ==
  << <<"status_text", "string">>,
    <<"applied", "message", "SrsDefaultsApplied">>, <<"request_id", "number">>,
    <<"success", "bool">> >>

-----------------------------------------------------------------------------
(* One timing-advance observation. *)
TimingAdvanceData_fields ==
  [rnti : UInt32, timestamp : UInt64, timing_advance : UInt32, source : UInt32,
   attached : BOOLEAN, ue_index : UInt32, unknown : Seq(Byte)]

TimingAdvanceData_Clear ==
  [rnti |-> 0, timestamp |-> 0, timing_advance |-> 0, source |-> 0,
   attached |-> FALSE, ue_index |-> 0, unknown |-> <<>>]

TimingAdvanceData_InternalParse ==
  << <<8, "rnti", "uint32">>, <<16, "timestamp", "uint64">>,
    <<24, "timing_advance", "uint32">>, <<32, "source", "enum">>,
    <<40, "attached", "bool">>, <<48, "ue_index", "uint32">> >>

TimingAdvanceData_InternalSerialize ==
  << <<1, "rnti", "uint32">>, <<2, "timestamp", "uint64">>,
    <<3, "timing_advance", "uint32">>, <<4, "source", "enum">>,
    <<5, "attached", "bool">>, <<6, "ue_index", "uint32">> >>

TimingAdvanceData_ByteSizeLong ==
  << <<"timestamp", "uint64">>, <<"rnti", "uint32">>,
    <<"timing_advance", "uint32">>, <<"source", "enum">>,
    <<"attached", "bool">>, <<"ue_index", "uint32">> >>

TimingAdvanceData_MergeFrom ==
  << <<"timestamp", "number">>, <<"rnti", "number">>,
    <<"timing_advance", "number">>, <<"source", "number">>,
    <<"attached", "bool">>, <<"ue_index", "number">> >>

-----------------------------------------------------------------------------
(* An indication of the timing-advance stream. *)
TimingAdvanceIndicationMessage_fields ==
  [timing_advance_data : Seq(TimingAdvanceData_fields), unknown : Seq(Byte)]

TimingAdvanceIndicationMessage_Clear ==
  [timing_advance_data |-> <<>>, unknown |-> <<>>]

TimingAdvanceIndicationMessage_InternalParse ==
  << <<10, "timing_advance_data", "messages", "TimingAdvanceData">> >>

TimingAdvanceIndicationMessage_InternalSerialize ==
  << <<1, "timing_advance_data", "messages", "TimingAdvanceData">> >>

TimingAdvanceIndicationMessage_ByteSizeLong ==
  << <<"timing_advance_data", "messages", "TimingAdvanceData">> >>

TimingAdvanceIndicationMessage_MergeFrom ==
  << <<"timing_advance_data", "repeated">> >>

-----------------------------------------------------------------------------
(* The connected UEs. *)
UeListMessage_fields ==
  [connected_ues : UInt32, rnti_list : Seq(UInt32), unknown : Seq(Byte)]

UeListMessage_Clear ==
  [connected_ues |-> 0, rnti_list |-> <<>>, unknown |-> <<>>]

UeListMessage_InternalParse ==
  << <<8, "connected_ues", "uint32">>, <<18, "rnti_list", "packed uint32">>,
    <<16, "rnti_list", "one uint32">> >>

UeListMessage_InternalSerialize ==
  << <<1, "connected_ues", "uint32">>, <<2, "rnti_list", "packed uint32">> >>

UeListMessage_ByteSizeLong ==
  << <<"rnti_list", "packed uint32">>, <<"connected_ues", "uint32">> >>

UeListMessage_MergeFrom ==
  << <<"rnti_list", "repeated">>, <<"connected_ues", "number">> >>

-----------------------------------------------------------------------------
(* Where a UE is thought to be. *)
UeLocationEstimate_fields ==
  [rnti : UInt32, doa_azimuth_deg : Double, doa_elevation_deg : Double,
   distance_meters : Double, timestamp : UInt64, valid : BOOLEAN,
   unknown : Seq(Byte)]

UeLocationEstimate_Clear ==
  [rnti |-> 0, doa_azimuth_deg |-> ZeroDouble,
   doa_elevation_deg |-> ZeroDouble, distance_meters |-> ZeroDouble,
   timestamp |-> 0, valid |-> FALSE, unknown |-> <<>>]

UeLocationEstimate_InternalParse ==
  << <<8, "rnti", "uint32">>, <<17, "doa_azimuth_deg", "double">>,
    <<25, "doa_elevation_deg", "double">>, <<33, "distance_meters", "double">>,
    <<40, "timestamp", "uint64">>, <<48, "valid", "bool">> >>

UeLocationEstimate_InternalSerialize ==
  << <<1, "rnti", "uint32">>, <<2, "doa_azimuth_deg", "double">>,
    <<3, "doa_elevation_deg", "double">>, <<4, "distance_meters", "double">>,
    <<5, "timestamp", "uint64">>, <<6, "valid", "bool">> >>

UeLocationEstimate_ByteSizeLong ==
  << <<"doa_azimuth_deg", "double">>, <<"doa_elevation_deg", "double">>,
    <<"rnti", "uint32">>, <<"valid", "bool">>, <<"distance_meters", "double">>,
    <<"timestamp", "uint64">> >>

UeLocationEstimate_MergeFrom ==
  << <<"doa_azimuth_deg", "double">>, <<"doa_elevation_deg", "double">>,
    <<"rnti", "number">>, <<"valid", "bool">>, <<"distance_meters", "double">>,
    <<"timestamp", "number">> >>

-----------------------------------------------------------------------------
(* The estimates of an xApp. *)
LocationEstimateResponse_fields ==
  [ue_locations : Seq(UeLocationEstimate_fields), unknown : Seq(Byte)]

LocationEstimateResponse_Clear ==
  [ue_locations |-> <<>>, unknown |-> <<>>]

LocationEstimateResponse_InternalParse ==
  << <<10, "ue_locations", "messages", "UeLocationEstimate">> >>

LocationEstimateResponse_InternalSerialize ==
  << <<1, "ue_locations", "messages", "UeLocationEstimate">> >>

LocationEstimateResponse_ByteSizeLong ==
  << <<"ue_locations", "messages", "UeLocationEstimate">> >>

LocationEstimateResponse_MergeFrom ==
  << <<"ue_locations", "repeated">> >>

-----------------------------------------------------------------------------
(* The functions of a message, by its name. *)
Fields ==
  [SrsSymbol |-> SrsSymbol_fields, SrsAntennaData |-> SrsAntennaData_fields,
   UeSrsData |-> UeSrsData_fields,
   SrsIndicationMessage |-> SrsIndicationMessage_fields,
   GnbConfigRequest |-> GnbConfigRequest_fields,
   GnbConfigMessage |-> GnbConfigMessage_fields,
   SrsDefaultsControlRequest |-> SrsDefaultsControlRequest_fields,
   SrsDefaultsApplied |-> SrsDefaultsApplied_fields,
   SrsDefaultsControlAck |-> SrsDefaultsControlAck_fields,
   TimingAdvanceData |-> TimingAdvanceData_fields,
   TimingAdvanceIndicationMessage |-> TimingAdvanceIndicationMessage_fields,
   UeListMessage |-> UeListMessage_fields,
   UeLocationEstimate |-> UeLocationEstimate_fields,
   LocationEstimateResponse |-> LocationEstimateResponse_fields]

Clear ==
  [SrsSymbol |-> SrsSymbol_Clear, SrsAntennaData |-> SrsAntennaData_Clear,
   UeSrsData |-> UeSrsData_Clear,
   SrsIndicationMessage |-> SrsIndicationMessage_Clear,
   GnbConfigRequest |-> GnbConfigRequest_Clear,
   GnbConfigMessage |-> GnbConfigMessage_Clear,
   SrsDefaultsControlRequest |-> SrsDefaultsControlRequest_Clear,
   SrsDefaultsApplied |-> SrsDefaultsApplied_Clear,
   SrsDefaultsControlAck |-> SrsDefaultsControlAck_Clear,
   TimingAdvanceData |-> TimingAdvanceData_Clear,
   TimingAdvanceIndicationMessage |-> TimingAdvanceIndicationMessage_Clear,
   UeListMessage |-> UeListMessage_Clear,
   UeLocationEstimate |-> UeLocationEstimate_Clear,
   LocationEstimateResponse |-> LocationEstimateResponse_Clear]

InternalParse ==
  [SrsSymbol |-> SrsSymbol_InternalParse,
   SrsAntennaData |-> SrsAntennaData_InternalParse,
   UeSrsData |-> UeSrsData_InternalParse,
   SrsIndicationMessage |-> SrsIndicationMessage_InternalParse,
   GnbConfigRequest |-> GnbConfigRequest_InternalParse,
   GnbConfigMessage |-> GnbConfigMessage_InternalParse,
   SrsDefaultsControlRequest |-> SrsDefaultsControlRequest_InternalParse,
   SrsDefaultsApplied |-> SrsDefaultsApplied_InternalParse,
   SrsDefaultsControlAck |-> SrsDefaultsControlAck_InternalParse,
   TimingAdvanceData |-> TimingAdvanceData_InternalParse,
   TimingAdvanceIndicationMessage |->
     TimingAdvanceIndicationMessage_InternalParse,
   UeListMessage |-> UeListMessage_InternalParse,
   UeLocationEstimate |-> UeLocationEstimate_InternalParse,
   LocationEstimateResponse |-> LocationEstimateResponse_InternalParse]

InternalSerialize ==
  [SrsSymbol |-> SrsSymbol_InternalSerialize,
   SrsAntennaData |-> SrsAntennaData_InternalSerialize,
   UeSrsData |-> UeSrsData_InternalSerialize,
   SrsIndicationMessage |-> SrsIndicationMessage_InternalSerialize,
   GnbConfigRequest |-> GnbConfigRequest_InternalSerialize,
   GnbConfigMessage |-> GnbConfigMessage_InternalSerialize,
   SrsDefaultsControlRequest |-> SrsDefaultsControlRequest_InternalSerialize,
   SrsDefaultsApplied |-> SrsDefaultsApplied_InternalSerialize,
   SrsDefaultsControlAck |-> SrsDefaultsControlAck_InternalSerialize,
   TimingAdvanceData |-> TimingAdvanceData_InternalSerialize,
   TimingAdvanceIndicationMessage |->
     TimingAdvanceIndicationMessage_InternalSerialize,
   UeListMessage |-> UeListMessage_InternalSerialize,
   UeLocationEstimate |-> UeLocationEstimate_InternalSerialize,
   LocationEstimateResponse |-> LocationEstimateResponse_InternalSerialize]

SizeTable ==
  [SrsSymbol |-> SrsSymbol_ByteSizeLong,
   SrsAntennaData |-> SrsAntennaData_ByteSizeLong,
   UeSrsData |-> UeSrsData_ByteSizeLong,
   SrsIndicationMessage |-> SrsIndicationMessage_ByteSizeLong,
   GnbConfigRequest |-> GnbConfigRequest_ByteSizeLong,
   GnbConfigMessage |-> GnbConfigMessage_ByteSizeLong,
   SrsDefaultsControlRequest |-> SrsDefaultsControlRequest_ByteSizeLong,
   SrsDefaultsApplied |-> SrsDefaultsApplied_ByteSizeLong,
   SrsDefaultsControlAck |-> SrsDefaultsControlAck_ByteSizeLong,
   TimingAdvanceData |-> TimingAdvanceData_ByteSizeLong,
   TimingAdvanceIndicationMessage |->
     TimingAdvanceIndicationMessage_ByteSizeLong,
   UeListMessage |-> UeListMessage_ByteSizeLong,
   UeLocationEstimate |-> UeLocationEstimate_ByteSizeLong,
   LocationEstimateResponse |-> LocationEstimateResponse_ByteSizeLong]

MergeTable ==
  [SrsSymbol |-> SrsSymbol_MergeFrom,
   SrsAntennaData |-> SrsAntennaData_MergeFrom,
   UeSrsData |-> UeSrsData_MergeFrom,
   SrsIndicationMessage |-> SrsIndicationMessage_MergeFrom,
   GnbConfigRequest |-> GnbConfigRequest_MergeFrom,
   GnbConfigMessage |-> GnbConfigMessage_MergeFrom,
   SrsDefaultsControlRequest |-> SrsDefaultsControlRequest_MergeFrom,
   SrsDefaultsApplied |-> SrsDefaultsApplied_MergeFrom,
   SrsDefaultsControlAck |-> SrsDefaultsControlAck_MergeFrom,
   TimingAdvanceData |-> TimingAdvanceData_MergeFrom,
   TimingAdvanceIndicationMessage |->
     TimingAdvanceIndicationMessage_MergeFrom,
   UeListMessage |-> UeListMessage_MergeFrom,
   UeLocationEstimate |-> UeLocationEstimate_MergeFrom,
   LocationEstimateResponse |-> LocationEstimateResponse_MergeFrom]
=============================================================================
