-------------------------------- MODULE Wire --------------------------------
(***************************************************************************)
(* What the gNB and the xApp write and read: the serializers of            *)
(* e2_srs_handler, the hand-written encoder of the timing-advance records, *)
(* the messages of e2_srs_message_handler, and the parsers of the xApp.    *)
(*                                                                         *)
(* One message at a time is under way.  It may be cut off anywhere, and    *)
(* two messages of a type may be written one after the other, which        *)
(* protobuf reads as their merger.                                         *)
(***************************************************************************)
EXTENDS ProtoWire, IqSample, Xapp

CONSTANTS
  Batches,       \* item lists of SRS indications
  Drains,        \* what the collector hands out: whole snapshots of its UEs
  RecordLists,   \* record lists of timing-advance indications
  Requests,      \* configuration requests
  Configs,       \* configurations of the collector
  MessagePairs,  \* of each message type, the pairs written one after the other
  Idle           \* no message

VARIABLES
  underway,  \* the message sent: its kind, what it stands for, its bytes, is it cut?
  received   \* what its receiver made of it

vars == <<underway, received>>

-----------------------------------------------------------------------------
(* The streams of one UE and snapshot, in the order of the items. *)
AntennaMessage(item) ==
  [SrsAntennaData_Clear EXCEPT
     !.antenna_id = item.antenna_id, !.generated = item.generated,
     !.srs = <<[SrsSymbol_Clear EXCEPT
                  !.iq_samples = [i \in DOMAIN item.srs |-> pack_iq_sample(item.srs[i])]]>>]

Key(item) == <<item.rnti, item.timestamp>>

ItemsOf(items, key) == SelectSeq(items, LAMBDA item : Key(item) = key)

UeMessage(key, items) ==
  LET own == ItemsOf(items, key)
  IN  [UeSrsData_Clear EXCEPT
         !.rnti = key[1], !.timestamp = key[2],
         !.antenna_data = [i \in DOMAIN own |-> AntennaMessage(own[i])]]

(* The keys of grouped_items, in the order of std::map. *)
KeyLess(k, l) == k[1] < l[1] \/ (k[1] = l[1] /\ k[2] < l[2])
Keys(items)   == SetToSortSeq({Key(items[i]) : i \in DOMAIN items}, KeyLess)

MessageOfUes(items, keys) ==
  [SrsIndicationMessage_Clear EXCEPT
     !.ue_srs_data = [k \in DOMAIN keys |-> UeMessage(keys[k], items)]]

IndicationMessage(items) == MessageOfUes(items, Keys(items))

serialize_srs_indication(items) ==
  Serialize("SrsIndicationMessage", IndicationMessage(items))

(* deserialize_srs_indication does not ask whether the bytes could be read; *)
(* parse_srs_message of the xApp is given an exception and returns nothing.*)
StreamOf(ue, antenna) ==
  [rnti |-> ue.rnti, timestamp |-> ue.timestamp,
   antenna_id |-> antenna.antenna_id, generated |-> antenna.generated,
   srs |-> IF antenna.srs = <<>> THEN <<>> ELSE _unpack_iq_samples(antenna.srs[1].iq_samples)]

StreamsOfUe(ue) == [a \in DOMAIN ue.antenna_data |-> StreamOf(ue, ue.antenna_data[a])]

StreamsOfUes(ues) == FlattenSeq([u \in DOMAIN ues |-> StreamsOfUe(ues[u])])

deserialize_srs_indication(bytes) ==
  StreamsOfUes(Parse("SrsIndicationMessage", bytes).value.ue_srs_data)

StreamsOfParsed(parsed) == IF parsed.ok THEN StreamsOfUes(parsed.value.ue_srs_data) ELSE <<>>

parse_srs_message(bytes) == StreamsOfParsed(Parse("SrsIndicationMessage", bytes))

(* create_srs_indication: the reference of each antenna before its received *)
(* stream.  The mutant writes the received stream first.                   *)
StreamItem(ue, antenna, isGenerated) ==
  [rnti |-> ue.rnti, timestamp |-> ue.timestamp, antenna_id |-> antenna.antenna_id,
   generated |-> isGenerated,
   srs |-> IF isGenerated THEN antenna.generated_srs ELSE antenna.received_srs]

SnapshotItemsReceivedFirst(ue) ==
  FlattenSeq([a \in DOMAIN ue.antenna_data |->
                <<StreamItem(ue, ue.antenna_data[a], FALSE), StreamItem(ue, ue.antenna_data[a], TRUE)>>])

SnapshotItems(ue) ==
  FlattenSeq([a \in DOMAIN ue.antenna_data |->
                <<StreamItem(ue, ue.antenna_data[a], TRUE), StreamItem(ue, ue.antenna_data[a], FALSE)>>])

create_srs_indication(ues) ==
  serialize_srs_indication(FlattenSeq([u \in DOMAIN ues |-> SnapshotItems(ues[u])]))

-----------------------------------------------------------------------------
(* The encoder of ta_report_service, which writes every field, zero or not. *)
(* The mutant of append_varint ends a varint one value too late.           *)
AppendVarintTooShort(value) ==
  LET from[n \in Nat] == IF n > 128 THEN <<128 + (n % 128)>> \o from[n \div 128] ELSE <<n>>
  IN  from[value]

append_varint(value) ==
  LET from[n \in Nat] == IF n >= 128 THEN <<128 + (n % 128)>> \o from[n \div 128] ELSE <<n>>
  IN  from[value]

append_key(number, wireType) == append_varint(8 * number + wireType)

TaEntry(record) ==
  append_key(1, 0) \o append_varint(record.rnti) \o
  append_key(2, 0) \o append_varint(record.timestamp) \o
  append_key(3, 0) \o append_varint(record.timing_advance) \o
  append_key(4, 0) \o append_varint(record.source) \o
  append_key(5, 0) \o append_varint(IF record.attached THEN 1 ELSE 0) \o
  append_key(6, 0) \o append_varint(record.ue_index)

serialize_ta_indication(records) ==
  FlattenSeq([r \in DOMAIN records |->
    append_key(1, 2) \o append_varint(Len(TaEntry(records[r]))) \o TaEntry(records[r])])

(* The names of TimingAdvanceSource.  A source without a name is an         *)
(* exception, and then the whole indication counts for nothing.            *)
TimingAdvanceSource == 0..2

ObservationsOf(data) ==
  IF \A i \in DOMAIN data : data[i].source \in TimingAdvanceSource
  THEN [i \in DOMAIN data |-> Identified(data[i])]
  ELSE <<>>

ObservationsOfParsed(parsed) ==
  IF parsed.ok THEN ObservationsOf(parsed.value.timing_advance_data) ELSE <<>>

parse_timing_advance_message(bytes) ==
  ObservationsOfParsed(Parse("TimingAdvanceIndicationMessage", bytes))

-----------------------------------------------------------------------------
(* The configuration: request and answer. *)
SerializeRequest(request) ==
  Serialize("GnbConfigRequest",
            [GnbConfigRequest_Clear EXCEPT !.request_id = request.request_id,
                                           !.xapp_id = request.xapp_id])

RequestOfParsed(parsed) ==
  IF parsed.ok THEN [request_id |-> parsed.value.request_id, xapp_id |-> parsed.value.xapp_id]
  ELSE [request_id |-> 0, xapp_id |-> <<>>]

deserialize_gnb_config_request(bytes) == RequestOfParsed(Parse("GnbConfigRequest", bytes))

serialize_gnb_config(config, requestId) ==
  Serialize("GnbConfigMessage",
            [GnbConfigMessage_Clear EXCEPT
               !.request_id = requestId,
               !.num_rx_antennas = config.num_rx_antennas,
               !.srs_bandwidth_prb = config.srs_bandwidth_prb,
               !.num_srs_symbols = config.num_srs_symbols,
               !.sampling_frequency_hz = config.sampling_frequency_hz,
               !.subcarrier_spacing_khz = config.subcarrier_spacing_khz,
               !.carrier_frequency_hz = config.carrier_frequency_hz,
               !.success = TRUE])

(* 3.5e9 as a double, and > 0.0 *)
DefaultCarrier   == <<0, 0, 0, 96, 184, 19, 234, 65>>
Positive(double) == double[8] < 128 /\ ~IsZero(double)

(* The mutant of ConfigOfMessage has no default. *)
ConfigOfMessagePlain(message) ==
  [num_rx_antennas        |-> message.num_rx_antennas,
   srs_bandwidth_prb      |-> message.srs_bandwidth_prb,
   num_srs_symbols        |-> message.num_srs_symbols,
   sampling_frequency_hz  |-> message.sampling_frequency_hz,
   subcarrier_spacing_khz |-> message.subcarrier_spacing_khz,
   carrier_frequency_hz   |-> message.carrier_frequency_hz]

ConfigOfMessage(message) ==
  [num_rx_antennas        |-> message.num_rx_antennas,
   srs_bandwidth_prb      |-> message.srs_bandwidth_prb,
   num_srs_symbols        |-> message.num_srs_symbols,
   sampling_frequency_hz  |-> message.sampling_frequency_hz,
   subcarrier_spacing_khz |-> message.subcarrier_spacing_khz,
   carrier_frequency_hz   |-> IF Positive(message.carrier_frequency_hz)
                              THEN message.carrier_frequency_hz ELSE DefaultCarrier]

deserialize_gnb_config(bytes) == ConfigOfMessage(Parse("GnbConfigMessage", bytes).value)

(* The answer to a request, as the one who asked reads it. *)
handle_config_request(bytes, config) ==
  serialize_gnb_config(config, deserialize_gnb_config_request(bytes).request_id)

-----------------------------------------------------------------------------
Init == underway = Idle /\ received = Idle

Send(kind, content, bytes) ==
  /\ underway = Idle
  /\ underway' = [kind |-> kind, content |-> content, bytes |-> bytes, cut |-> FALSE]
  /\ UNCHANGED received

SendStreams == \E items \in Batches : Send("streams", items, serialize_srs_indication(items))

SendSnapshots == \E ues \in Drains : Send("snapshots", ues, create_srs_indication(ues))

SendObservations ==
  \E records \in RecordLists : Send("observations", records, serialize_ta_indication(records))

SendRequest ==
  \E request \in Requests : Send("request", request, SerializeRequest(request))

SendPair ==
  \E type \in DOMAIN MessagePairs : \E pair \in MessagePairs[type] :
    Send("pair", [type |-> type, pair |-> pair],
         Serialize(type, pair[1]) \o Serialize(type, pair[2]))

(* Only a part of the bytes arrives.  Those who read the other messages do  *)
(* not ask whether they could be read.                                     *)
Cut ==
  /\ underway # Idle /\ ~underway.cut
  /\ underway.kind \in {"streams", "observations", "request"}
  /\ \E n \in 0..(Len(underway.bytes) - 1) :
       underway' = [underway EXCEPT !.bytes = SubSeq(@, 1, n), !.cut = TRUE]
  /\ UNCHANGED received

Arrive(kind) == underway # Idle /\ underway.kind = kind /\ received = Idle /\ UNCHANGED underway

ReceiveStreams ==
  /\ Arrive("streams")
  /\ received' = parse_srs_message(underway.bytes)

ReceiveSnapshots ==
  /\ Arrive("snapshots")
  /\ received' = srs_indication_callback(FreshXapp, parse_srs_message(underway.bytes))

ReceiveObservations ==
  /\ Arrive("observations")
  /\ received' = parse_timing_advance_message(underway.bytes)

Answered(config, answer) ==
  [config |-> config, message |-> Parse("GnbConfigMessage", answer),
   read |-> deserialize_gnb_config(answer)]

ReceiveRequest ==
  /\ Arrive("request")
  /\ \E config \in Configs :
       received' = Answered(config, handle_config_request(underway.bytes, config))

ReceivePair ==
  /\ Arrive("pair")
  /\ received' = Parse(underway.content.type, underway.bytes)

Finish == received # Idle /\ underway' = Idle /\ received' = Idle

Next ==
  \/ SendStreams \/ SendSnapshots \/ SendObservations \/ SendRequest \/ SendPair
  \/ Cut
  \/ ReceiveStreams \/ ReceiveSnapshots \/ ReceiveObservations \/ ReceiveRequest \/ ReceivePair
  \/ Finish

Spec == Init /\ [][Next]_vars

-----------------------------------------------------------------------------
Received(kind) == received # Idle /\ underway.kind = kind

(* The buffer that ByteSizeLong sizes is the one that SerializeToArray      *)
(* fills, for every message type and whatever fields are set, embedded     *)
(* messages and packed fields with their own cached sizes included.        *)
SizesExact ==
  underway # Idle /\ underway.kind = "pair" =>
    LET type == underway.content.type
        pair == underway.content.pair
    IN  Len(underway.bytes) = ByteSizeLong(type, pair[1]) + ByteSizeLong(type, pair[2])

(* Two messages written one after the other are read as MergeFrom makes     *)
(* them, whatever is set in each; with an empty second one, what is        *)
(* written is what is read.                                                *)
ConcatenationMerges ==
  Received("pair") =>
    LET type == underway.content.type
        pair == underway.content.pair
    IN  received.ok /\ received.value = MergeFrom(type, pair[1], pair[2])

StreamSurvives(item, stream) ==
  /\ Key(item) = Key(stream)
  /\ item.antenna_id = stream.antenna_id
  /\ item.generated = stream.generated
  /\ Len(item.srs) = Len(stream.srs)
  /\ \A i \in DOMAIN item.srs : /\ Survives(item.srs[i].real, stream.srs[i].real)
                                /\ Survives(item.srs[i].imag, stream.srs[i].imag)

StreamsMatch(expected, streams, cut) ==
  /\ Len(streams) <= Len(expected)
  /\ \A i \in DOMAIN streams : StreamSurvives(expected[i], streams[i])
  /\ Len(streams) < Len(expected) =>
       /\ cut
       /\ streams # <<>> => Key(expected[Len(streams) + 1]) # Key(expected[Len(streams)])

Grouped(items, keys) == FlattenSeq([k \in DOMAIN keys |-> ItemsOf(items, keys[k])])

(* The streams that were queued for an indication are read by the xApp, by  *)
(* UE and snapshot and each in its order, with their samples; of an        *)
(* indication that was cut off, none of them, or the first UEs' in full.   *)
StreamsSurvive ==
  Received("streams") =>
    /\ StreamsMatch(Grouped(underway.content, Keys(underway.content)), received, underway.cut)
    /\ ~underway.cut => deserialize_srs_indication(underway.bytes) = received

(* Timing-advance records that a hand-written encoder wrote are read as the *)
(* records, each under the RNTI of its UE or, without one, its index.  All *)
(* of them are, or none if one has a source that is not known; of what is  *)
(* cut off, the records before the cut are, or none.                       *)
ObservationsSurvive ==
  Received("observations") =>
    LET records == underway.content
        known   == \A i \in DOMAIN records : records[i].source \in TimingAdvanceSource
    IN  /\ Len(received) <= Len(records)
        /\ \A i \in DOMAIN received :
             LET read == received[i]
             IN  /\ read.rnti = IF records[i].rnti # 0 THEN records[i].rnti ELSE records[i].ue_index
                 /\ read.source \in TimingAdvanceSource
                 /\ \A field \in {"timestamp", "timing_advance", "source", "attached", "ue_index"} :
                      read[field] = records[i][field]
        /\ ~underway.cut => Len(received) = IF known THEN Len(records) ELSE 0

(* An answer carries the identifier of the request that was read, or 0 if   *)
(* it was cut off, and the configuration as it is; only a carrier that is  *)
(* not known is read as the default one.                                   *)
AnswerMatchesRequest ==
  Received("request") =>
    LET config == received.config
        fields == DOMAIN config \ {"carrier_frequency_hz"}
    IN  /\ received.message.ok /\ received.message.value.success
        /\ received.message.value.request_id \in {0, underway.content.request_id}
        /\ ~underway.cut => received.message.value.request_id = underway.content.request_id
        /\ \A field \in fields : received.read[field] = config[field]
        /\ IF Positive(config.carrier_frequency_hz)
           THEN received.read.carrier_frequency_hz = config.carrier_frequency_hz
           ELSE received.read.carrier_frequency_hz = DefaultCarrier

(* The one message of create_srs_indication is all an xApp needs: it        *)
(* assembles the snapshot of every UE, even if it has never had anything   *)
(* from the gNB before.                                                    *)
IndicationAssembles ==
  Received("snapshots") =>
    /\ received.pending_received_srs = {}
    /\ {<<m.rnti, m.timestamp>> : m \in ToSet(received.completed_srs_messages)}
         = {<<ue.rnti, ue.timestamp>> : ue \in ToSet(underway.content)}
=============================================================================
