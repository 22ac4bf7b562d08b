# RUN-O-RAN in TLA+

This directory specifies and verifies the running part of RUN-O-RAN: how the
sounding reference signal (SRS) of a UE travels from the upper PHY of the DU to
the xApp, how timing-advance (TA) observations do, what both are in bytes on the
way, and what the E2 agents of the gNB serve, advertise and answer. `D/` below stands for
`src/du/srsRAN_Project/`.

- TLC: `tlc -config <run>.cfg <MC module>.tla`, see *Runs*.
- TLAPS: `tlapm <module>.tla` for `SrsCaptureProofs`, `SrsReportProofs`,
  `SrsPathProofs`, `TaPathProofs`, `AgentProofs`, `IqSampleProofs`, and for the
  lemmas of `SequenceLemmas` and `FoldLemmas`, see *Proofs*. The longest takes
  about four minutes.

## 1. Inventory

```
 PHY workers            srs_data_collector        report services          RIC            xApp
 estimate() ×N  ──add──▶ pending_data_    ──drain──▶ pending_items  ──PDU──▶ lossy ──▶ generated_srs_cache
 (per Tx, Rx port)       (one mutex)      (20 ms)    generated_sent_keys            pending_received_srs
                                                                                   completed_srs_messages
 MAC ──push──▶ ta_records (one mutex) ──drain──▶ records ──PDU──▶ RIC ──▶ latest_timing_advance
```

| Component | State | Operations | Interacts with | What is hard | What makes it correct |
|---|---|---|---|---|---|
| SRS forwarding in `estimate()` (`D/lib/phy/.../srs_estimator_generic_impl.cpp`) | loop indices, the timestamp read for the current port | one `add_srs_data` per transmit and receive port, at the first SRS symbol | the registered collector, from several PHY threads | the clock is read before the lock; workers and drains interleave between ports | each occasion is forwarded whole, once |
| `srs_data_collector` (`D/lib/e2/e2_srs_handler.cpp`) | `pending_data_`: per RNTI the antennas so far; the registered pointer | `add_srs_data`, `is_complete`, `get_and_clear_ue_data`, `get_all_complete_ue_data`, `cleanup_old_data`, registration | PHY workers on one side, report services on the other, under one mutex | atomic per antenna, not per snapshot; completeness is a count against a configured number; unsigned age | a snapshot handed over is one occasion, whole, and handed over once; entries stay bounded |
| `srs_report_service` (`D/lib/e2/e2sm/e2sm_runOran/e2sm_runOran_impl.cpp`) | `pending_items`, `generated_sent_keys` | `collect_measurements`, `is_ind_msg_ready`, `get_indication_message` | drains the collector shared with other subscriptions; its messages go to the E2 agent | batching with an item put back; references once only; a failed `append` in the middle | the queue is conserved and in order; a reference precedes the streams that need it |
| `ta_indication_store`, `ta_report_service` | `ta_records`; `records` | `push`, `drain`; as above | MAC and subscriptions | a destructive drain shared by subscriptions; records kept after a failure | each observation is emitted once, in order |
| xApp (`src/python/simple_runoran_xapp.py`) | the reference cache, the pending streams, the messages completed, `latest_timing_advance` | the two indication callbacks, `start`, shutdown | the RIC's messaging | lost and reordered indications; assembly is triggered by received streams only; it stops without unsubscribing; TA observations are kept under an RNTI or an index | a message is one whole snapshot, once, with the right references and the freshest TA of its UE |
| Service model dispatch, event trigger, packer | none | choice of report service by the action definition, report period | E2 agent | unknown definitions | – |
| Agent factory and runtime defaults (`D/lib/e2/common/e2_du_factory.cpp`) | a static collector, the process-wide SRS defaults | `create_e2_du_agent` | all of the above | the static keeps the first configuration | services, answers and PHY refer to one collector; the defaults follow the last DU |
| gNB configuration request (two handlers) | – | request → answer | collector's `config_` | stale configuration | the answer stays true of the collector that counts antennas |
| Serializers (IQ packing, indications, configuration, hand-written varints; the parsers of the xApp) | – | encode, decode, `create_srs_indication` | both ends | conversion before clamping, varint ends, grouping by a sorted map, bytes that do not all arrive | what is read is what was written, up to quantisation, or nothing |
| Generated protobuf code (`srs_messages.pb.cc`, `.pb.h`) | the fields of 14 messages, their unknown bytes, cached sizes | `Clear`, parse, serialize, size, merge | libprotobuf | size and contents are computed by different functions; embedded messages that come in parts | sizes are exact; parsing two messages in a row is merging them |
| E2 configuration (CLI, YAML, translators, E2 setup) | – | options → service models served and advertised | agent | one option passes through seven places | advertised = chosen, and served |
| Build files, installers, scripts, patch | – | – | – | – | not modelled: no state of the running system |

`e2_srs_message_handler::create_srs_indication`, `get_and_clear_ue_data` and
`cleanup_old_data` have no caller in the repository. The last two are members of
the collector and are modelled as readers that may be in use (`Readers`); the
first is one more caller of `get_all_complete_ue_data`, and what it makes of the
snapshots is in `Wire`.

`PROJECT.json` lists the hazards of this code line by line, with the properties
that watch each.

## 2. Plan

| Step | Modules | Status |
|---|---|---|
| 1 | `SrsSample`, `SrsCollector`, `SrsCapture`: producers and collector; `SnapshotBox`, its abstract specification | done |
| 2 | `SrsCaptureProofs`: types, bound, whole snapshots, their order, the refinement of `SnapshotBox` | done |
| 3 | `SrsReport`: report services over the abstract collector | done |
| 4 | `TaReport`: store and services of the TA stream | done |
| 5 | `Xapp`, `SrsPath`: the xApp, and the path from collector to xApp through a lossy RIC | done |
| 6 | `Agent`: the agents of a process from options to setup request, several `create_e2_du_agent` calls, runtime defaults, dispatch, the configuration request; `AgentProofs` | done |
| 7 | `IqSample`, `SrsMessages`, `ProtoWire`, `Wire`: samples, the messages of the generated code, their wire format, and what both ends write and read; `IqSampleProofs` | done |
| 8 | `TaPath`: the TA stream to the messages of the xApp | done |
| 9 | `SequenceLemmas`, `FoldLemmas`: what the sequence operators of the models compute | done |
| 10 | `SrsReportProofs`, `SrsPathProofs`, `TaPathProofs`: every safety property of the two paths | done |
| 11 | what the theorems leave: proofs about the shape of `Wire`'s batches that need no recursion | open |

Composition: `SrsCapture` implements `SnapshotBox` (a refinement, checked and proved);
`SrsReport` takes from the box, whose steps are its `Publish`, `Withdraw` and
the drain inside `collect_measurements`; `SrsPath` extends `SrsReport` with the
network and the xApp; `TaPath` does the same with `TaReport`, and both share
`Xapp`. `Wire` is what the two paths abstract from: there an indication is a
sequence of streams or observations, here it is bytes. So the runs of `SrsReport` and `SrsPath` need not carry
antennas, workers and locks along. `Agent` stands beside them: it says where the
collector's configuration, a constant in `SrsCapture`, comes from, and that all
subscriptions of a process drain the collector that the workers fill.

## 3. The modules and the code

**SrsSample, SrsCollector.** Samples are abstracted to where they come from: the
SRS occasion of the UE and the transmit port (`[occasion, tx]`). The collector
is a map from UE to `[timestamp, antenna_data]`. Each member function is one
operator, because each holds `pending_data_mutex_` for its whole body:
`AddSrsData` (with the reset of a complete entry), `IsComplete`,
`WithoutComplete`/`CompleteUes` (the two halves of `get_all_complete_ue_data`),
`WithoutUe`, `WithoutOld` (unsigned age, modulo `ClockModulus`).

**SrsCapture.** One `worker[w]` per PHY thread: idle, or the position in the two
port loops of `estimate()` with the timestamp of the current port. The code
reads the clock (`ReadTimestamp`) and only then looks up the collector and takes
its lock (`ForwardSrs`): two actions, between which anything else may run. The
loop over the symbols of a port forwards at the first symbol only, so the rest of it is not
a step. `Drain` is the call a report service makes, `Take` and `Cleanup` the
two other readers, `Tick` and `StepClockBack` the system clock. `occasion`
numbers what is on the air; `captured` and `reports` are history variables.

Constants say how the collector is used: `Overlap` (two estimates of one UE at
once), `LateRegistration` (the agent is created while estimates run),
`ClockSteps`, `Readers`. `IntendedUse` is the use that the code needs to be
right: none of the three but clock steps, no other readers, and `num_rx_antennas`
equal to the number of ports. That one UE's estimates do not overlap is an
assumption on the PHY scheduler, which is outside the repository: an SRS period
is milliseconds, an estimate far less. Without it a snapshot can mix two occasions, for
the collector tells occasions apart only by whether the entry is complete;
`capture_shared` keeps the bound under overlap, and nothing more is claimed there.

**SnapshotBox.** The abstract promise: for every UE a box with at most one
snapshot, the latest; what is collected from a box is in order. Under
`LatestWhole`/`Collected` (in `SrsCapture`) a box is full while the entry is
complete.

**SrsReport.** `collect_measurements` and `get_indication_message` are one
action each, with everything they change. `StreamsOf` is the order in which one
snapshot is queued: new references, then received streams, each in antenna order
(`Sorted`, the increasing enumeration of a set, which is what iterating a `std::map` and
`std::sort` give; it is defined by what it is, so that proofs can use it).
`BatchLength` is the loop that forms a PDU, including the item that is
serialized, found too long and put back; the size of a PDU is the number of
streams times a size per UE. A batch leaves the queue before the buffer is
written: with `AppendMayFail` it is then lost, as in the code. Subscriptions
come and go (`Subscribe`, `Unsubscribe`); that the E2 agent calls the services
one by one is external. `enqueued`, `popped`, `pdus` and `drained` are history.

**Xapp, SrsPath.** `Xapp` holds the callback as a fold over the streams of an
indication; dictionaries are sets of records. `SrsPath` adds the network
(`Deliver`, `Lose`, `Reordering`) and the life of the xApp: `Start` subscribes,
`Restart` forgets everything and unsubscribes nothing, as `signal_handler` and a
crash do. An indication for a subscription of an earlier run is dropped.

**TaReport.** Observations are numbered as they are pushed. `collect_measurements`
replaces what the service holds; `get_indication_message` clears it only when
the buffer has been written. `ready` is the agent's turn: it fetches the message
that `is_ind_msg_ready` announced before it collects again.

**TaPath.** The xApp subscribes (`Start`), is given indications (`Deliver`) and may
be restarted without unsubscribing, as in `SrsPath`. `Identified` is the number an
observation is kept under: its RNTI, or the DU's UE index if that is 0, as in
`parse_timing_advance_message`. `ObservationOf` says what the MAC knew of the UE at each
push. The SRS side is reduced to `DeliverSnapshot`, which runs the same
`srs_indication_callback` and thereby the join in `Message`.

**IqSample.** `pack_iq_sample` step by step: round (`Lrint`, ties to even), cast to
`int32_t` (`ToInt32`, which keeps the low bits), clamp, cast to 16 bits; and the
two ways of extending the sign. A part of a sample is counted in half quanta, so that ties exist.

**SrsMessages, ProtoWire.** protoc generates the same code for every message up to
fields, numbers and kinds. So each generated function is a table in `SrsMessages`
(`GnbConfigMessage_InternalParse`: which tag is read how and into which field), in the
order of its statements, and `ProtoWire` says once what the functions do with their tables.
What libprotobuf does for them (varints, tags, lengths) is external. Two differences of the
generated code are kept: a field is written only if it is not at its default, and the size of embedded
and packed fields is computed by `ByteSizeLong`, not by the writer. `ReadField` fails where
a buffer ends in mid-field, `ParseKnown` keeps the bytes of fields that a message does not know.

**Wire.** One action per kind of message that is sent and one per reader, with the
bytes in between (`underway`): `SendStreams`/`ReceiveStreams` (both readers of an SRS
indication), `SendSnapshots` (`create_srs_indication`) into a fresh xApp,
`SendObservations` (the hand-written encoder) into `parse_timing_advance_message`, `SendRequest`/`ReceiveRequest`
for the configuration and its answer, `SendPair` for two messages of any type in one
buffer. `Cut` drops the end of a message.

**Agent.** A unit's e2ap_configuration (`DuConfig`, `CuUpConfig`, `CuCpConfig`)
comes from the options of the process. Creating a DU is one action, in two
cases: `CreateDuWithSrs` sets the runtime defaults, constructs the collector unless an
earlier call did (`CollectorsAfter`: the function-local static), and registers it;
`CreateDuWithoutSrs` does none of that. `fill_asn1_e2ap_setup_request` advertises what
is both enabled and found. `Subscribe` is the dispatch with the report period of the event
trigger, `handle_gnb_config_request` the answer. A radio configuration is a function
from its fields to numbers, zero for a field not given; a missing one is all zeros,
which the code treats alike. Doubles are whole kHz. `Restart` ends the process and starts
it on the options as `fill_e2_config_in_yaml_schema` wrote them. The CU
factories, the setup procedure and the application are external. The agents of a
process are created one after another, at start-up.

Actions and operators whose comment calls them *mutants* are no part of any
specification: each is a plausible mistake in the definition after it, used to show that a
property notices it.

## 4. Runs

| Run | Instance | Shows |
|---|---|---|
| `capture` | 2 UEs, 2 workers, 2 ports, 2 occasions each, clock to 6 | with two workers interleaving with drains: snapshots are of one occasion, whole, reported once; a drain cuts nothing; every captured occasion is reported unless the next begins first |
| `capture_txports` | 1 UE, 2 transmit × 2 receive ports, 3 occasions, clock may step back | reports follow the occasions, the last capture is always to be had, the inductive invariant holds, and the collector implements `SnapshotBox` |
| `capture_shared` | 3 ports for 2 configured antennas, overlapping estimates, late registration, all readers, clock modulo 8 | entries and reports stay bounded by the configuration whatever happens |
| `capture_cleanup` *(violation)* | 1 UE, 1 worker, `cleanup_old_data` as the only reader | a complete snapshot is dropped, against "Clear old incomplete data" of `e2_srs_handler.h:73` |
| `capture_tx_duplicates` *(violation)* | 2 transmit ports | an occasion is reported twice, against the comment at `srs_estimator_generic_impl.cpp:177` |
| `path` | 2 subscriptions, 2 snapshots, losses at the gNB and on the way, reordering, restarts | messages are never torn or repeated; a snapshot is assembled *exactly when* its references arrived before the last of its streams; all that arrives undisturbed is assembled; snapshots go whole to one subscription, and leave in the order they were taken |
| `path_live` | 1 subscription, 2 UEs of 3 antennas, one whose streams fit two in an indication and one whose do not; reliable network, restarts | batching conserves the queue, the indications carry it, references go first; queues drain; a collected snapshot becomes a message |
| `path_new_sequence` *(violation)* | a UE whose sequence changes | received SRS is paired with the old reference, against `e2_srs_handler.h:21` |
| `ta_path` | 2 subscriptions, 3 observations of 2 UEs, one with an index only that is the other's RNTI; failing buffers, losses, reordering, restarts | in order, to one subscriber, all accounted for, all emitted once a subscription stays; a message has the freshest TA the xApp was given for the number, and that of another UE only if an index was taken for its RNTI |
| `wire` | every message type with all, one, all but one and none of its fields, in pairs; SRS batches whose UEs and snapshots are interleaved, samples at every rounding and clamping edge; TA records with zeros, varint edges and an unknown source; requests and configurations | buffers are sized exactly; two messages in a row are merged; streams and observations arrive as sent, or, of what is cut off, a whole prefix or nothing; answers fit their requests; one indication of `create_srs_indication` is all an xApp needs |
| `agent` | 2 DUs, 3 radio configurations, a CU-UP, a CU-CP, 4 choices of service models, 1 restart | services and answers keep to the registered collector although the second DU has another radio configuration; each unit advertises what was chosen and it can have, also after a restart; the defaults follow the last DU |
| `agent_config_answer` *(violation)* | 1 DU | the answer lacks the uplink bandwidth, against `e2_du_factory.h:35` and `srs_messages.proto:47` |

**Bounds.** `MaxOccasion`, `MaxClock`, `MaxTimestamp`, `MaxRecords` bound
counters in guards. Two occasions are the least that can mix, and three the least with
one before and one after a reported one; two ports
are the least with a "between two antennas"; three ports for two antennas give
the reset in mid-occasion. Two workers and two UEs show that workers of
different UEs do not disturb each other (they share the collector, not entries).
`ClockModulus` is 2^64 in the code; 8 or 16 lets an age wrap within the bound.
Two subscriptions suffice for competition. A PDU holds one stream (`path`) or
two (`path_live`, for one of the UEs), with three of a kind in a queue there, so that both ends of the
batching loop are reached. In `agent` one service and one answer outlive the creation of the
second DU, which is all that their properties need. In `ta_path` three observations are one to
replace, one to replace it, and one of another UE; two messages are one before and one after. In `wire` a `uint32` has 14 bits, a `uint64` 20
(`Modulus32`, `Modulus64`), so that varints have one to three bytes
(`VarintBytes`; five and ten in the code), and an `int32_t` 18 (`IntHalf`), above
the 16 of a half sample: TLC's own integers have 32. Lengths, numbers and samples
are on both sides of each boundary. A message type is seen with every set of at most one
field set or missing, twice; fields interact no further, for each is handled on its own. The theorems hold without any of these bounds: they are for every value of the constants that satisfies the named assumptions.

**Fairness.** `capture`: a worker inside `estimate()` runs on (it has no blocking
step but the mutex), and `Drain` recurs because the report timer of a
subscription does. `path_live` and `ta_path`: the report timer of a live subscription
recurs (weak fairness of `collect_measurements` and `get_indication_message`), and the RIC
delivers what it does not lose. No fairness is assumed of the radio, the
clock, new subscriptions or restarts: the liveness properties name what may
cut them short.

## 5. Proofs

Every safety property and action property of the passing runs but those of `Wire` is a
theorem, for any UEs, workers, ports, subscriptions, sizes, limits and bounds.

`SrsCaptureProofs`:

| Theorem | Statement | Needs |
|---|---|---|
| `TypeCorrect` | `Spec => []TypeOK` | the named assumptions on constants |
| `CollectorBounded` | `Spec => []SnapshotBounded` | the same: no assumption on how the collector is used |
| `IncompleteKept` | `Spec => IncompleteKeepsAntennas` | readers that only drain |
| `CompleteKept` | `Spec => CompleteNotDropped` | readers that only drain; `capture_cleanup` shows what `cleanup_old_data` does to it |
| `EntriesFollow` | `Spec => []EntriesFollowWorkers` | `IntendedUse` |
| `NoTornSnapshots` | `Spec => []SnapshotFromOneOccasion` | `IntendedUse` |
| `NoPartialSnapshots` | `Spec => []SnapshotCoversEveryAntenna` | `IntendedUse` |
| `ReportsInOrder` | `Spec => []ReportsFollowOccasions` | `IntendedUse` |
| `OccasionsReportedOnce` | `Spec => []OccasionReportedOnce` | `IntendedUse`, one transmit port |
| `LastCaptureKept` | `Spec => []LastCaptureAvailable` | `IntendedUse` |
| `CollectorIsBox` | `Spec => ImplementsSnapshotBox` | `IntendedUse` |

`SrsReportProofs` and `SrsPathProofs`:

| Theorem | Statement | Needs |
|---|---|---|
| `NothingLostFromQueue` | `Spec => []QueueConserved` | – |
| `SnapshotsInOrder` | `Spec => []TimestampsInOrder` | – |
| `ReferencesSentFirst` | `Spec => []GeneratedSentFirst` | every buffer can be written |
| `DrainedToOneService` | `Spec => []SnapshotToOneService` | – |
| `PathIsReport` | `PathSpec => Spec`, by which the four hold of the path too | – |
| `PathTypeCorrect` | `PathSpec => []PathTypeOK` | – |
| `NeverAssembledTwice` | `PathSpec => []AssembledOnce` | `AtMostExpected` |
| `MessageIsOneSnapshot` | `PathSpec => []AssembledFromOneSnapshot` | `AtMostExpected` |
| `AssembledWhenReferenced` | `PathSpec => []AssembledExactlyWhen` | `AsExpected` |
| `ArrivedAssembled` | `PathSpec => []ArrivedIsAssembled` | `AsExpected` |

`TaPathProofs`:

| Theorem | Statement |
|---|---|
| `PathIsReport` | `PathSpec => Spec` |
| `ObservationsInOrder` | `PathSpec => []SentInOrder` |
| `NoObservationLost` | `PathSpec => []ObservationsAccountedFor` |
| `TaPathTypeCorrect` | `PathSpec => []TaPathTypeOK` |
| `TimingAdvanceMatches` | `PathSpec => []TimingAdvanceOfUe` |
| `FreshestAttached` | `PathSpec => AttachesFreshest` |

`AgentProofs`:

| Theorem | Statement |
|---|---|
| `AgentTypeCorrect` | `Spec => [](TypeOK /\ OneCollector)` |
| `ServicesShareCollector` | `Spec => []ServicesDrainRegistered` |
| `AnswersHoldGood` | `Spec => []AnswersAreCollectorConfig` |
| `DefaultsOfLatestDu` | `Spec => []DefaultsFollowLatestDu` |
| `SetupsDescribeUnits` | `Spec => []SetupDescribesUnit` |

`IqSampleProofs`, for an `int32_t` of any width over 16 bits:

| Theorem | Statement |
|---|---|
| `SamplesSurvive` | a stream of any length is read with every part of every sample as it was sent, up to half a quantum, or as the nearest end of 16 bits, if it is an `int32_t` after scaling |

**What the theorems need.** The assumptions on constants (`RxPortsAssumption` and others) say that receive
ports of an estimate are distinct, that sizes are positive and that sets are
finite; TLC evaluates them on every run. `ObservedRntiAssumption` says that an RNTI
the MAC hands over is the UE's, or 0 when it knows none.
`IntendedUse` is explained with `SrsCapture`. `AtMostExpected` says that no
snapshot has more antennas than the xApp was told to expect, `AsExpected` that all
have exactly as many. The two numbers are set apart, `num_rx_antennas` at the gNB and
`--num-rx-antennas` at the xApp, and nothing in the code compares them: with half as many
expected, a snapshot becomes two messages with the same timestamp, and `AssembledOnce`
does not hold. So the hypotheses say what an operator must see to, and everything else about loss, order, failures and restarts is
proved without one.

**Capture.** `SnapshotBounded` is inductive together with `TypeOK`: an entry at its
bound is complete, and a complete entry is emptied before an antenna is added.
`SnapshotFromOneOccasion` is not inductive: nothing in it says why a
complete entry should be of one occasion. `EntriesFollowWorkers` does: while a
worker is at its first port the UE's entry is empty or a whole snapshot; later
it holds exactly the ports forwarded so far, all tagged with the worker's
occasion and transmit port; and no two workers are on one UE. Then an entry is
complete only between two transmit ports (`PartialIsNotComplete`, by counting the
ports of a prefix of `RxPorts`), a drain never sees a partial one, and the
addition of a port extends the prefix (`ForwardExtends`, `ForwardThenNext`).

The order of reports needs more (`OrderInv`): a report is not only before the
reports after it, but before what waits in the entry, and before what the
worker on the UE forwards now; nothing anywhere is of a later occasion than the UE's
last; and at its first receive port a worker's tag is later than all the entry has.
`ReportsBeforeWorkers` is what a new transmit port of the same occasion rests on.
`LastInv` says which of the two places of `LastCaptureAvailable` it is: between
occasions a complete entry is the last capture, and without one the last report is.
`CollectorIsBox` follows step by step: the receive port that completes an entry is
`Publish`, the first receive port after a complete entry is `Withdraw`, `Drain` is `Collect`, and
all else is a stutter; that what is published is newer than all that was collected is `OrderInv`.

**Report services.** `ReportInv` has four parts. `QueueInv` is the conservation of
a queue. `ReferenceInv`: every received stream in what was queued has its reference before it, and
every key in `generated_sent_keys` stands for a reference queued. `StampInv`: what was sent, what
waits and what the collector holds are in this order, UE by UE, and at most the last
of it as new as the snapshot produced last. `SnapshotInv`: every drained snapshot
is whole in one queue, and what the collector holds is newer. None of them is inductive alone: that a snapshot
newly drained is in no other queue rests on the collector's being newer than all that is in
queues, and the order of what was sent on the order of what waits.

**Path.** `Assembling` says what the fold over the streams of an indication
keeps of the xApp: the cache is the references handled (`CacheInv`), what waits is the
received streams of snapshots not assembled (`PendingInv`), a message is all that was received of its
snapshot, with references given before its last stream (`MessageInv`), no two messages are of
one snapshot (`OnceInv`), and a snapshot not assembled could not be
(`WaitingInv`). It is proved of one stream and carried over an indication by
`FoldLemmas`. `GivenInv` ties it to the network: what the running xApp has handled, it was
given by its subscription, each item once. With it `AssembledOnce`
follows for any loss and reordering. `ArrivedIsAssembled` needs that between two streams of a
snapshot a service queues nothing of another (`GroupedInv`), so that with nothing lost
what waits is a suffix of what came.

**Timing advance.** `OrderInv` orders the store, what each service holds and what it
has sent as one increasing sequence, and keeps services apart; `AccountInv` says where each
number is, and that what a service holds though it is not ready was in a failed buffer.
`XappInv` says that `latest_timing_advance` is, for each number, the last of the
observations handled. With it, and `OrderInv` if the network keeps the order, the one attached is
the freshest.

**Agent.** That a service drains the registered collector is not
inductive: the next subscription takes the collector of its agent. `OneCollector`
adds that all agents with runOran have the same one, that there is one only if
somebody has runOran, and that its carrier frequency is not zero, for a receiver would put
3.5 GHz there. A DU either constructs the collector, when nobody can have
subscribed or asked, or takes the one there is. For the setup requests,
`AgentsOfChoice` says that the options are still those chosen, also after they were written and read
back, and that every agent has its unit's configuration with the modules for all that was chosen and it can have.

**Samples.** Rounding errs by half a quantum (`LrintNearest`); within
`int32_t` the cast is the identity (`ToInt32Identity`), so the clamp sees the value
itself; and a clamped value goes through 16 bits and back (`SixteenBitsCarry`). Beyond
`int32_t` the theorem does not hold and neither does the code keep its sign.

**Sequences.** `SequenceLemmas` says what concatenation, `FlattenSeq`, sub-sequences and
increasing enumerations have, and `FoldLemmas` that what a step preserves, a fold
preserves, for the operator it is instantiated with. The library's induction theorems take
a predicate as a parameter, which the installed provers cannot instantiate;
`SetInduction` has a set in its place (the numbers for which a fact holds), and is what the
proofs about folds and flattenings use.

Before they were proved the inductive invariants were model-checked, each on the instance
of a run: `EntriesFollowWorkers` (an invariant of the run) and the capture side's `OrderInv` and
`LastInv` on `capture_txports` (540,000 states), `ReportInv` on a run of the report services alone (17,000), `GivenInv`,
`AssembledInv` and `GroupedInv` on `path` (620,000), `OrderInv` and `XappInv` of the
timing-advance side on `ta_path` (84,000). None failed.

**Only model-checked.** `Wire`: messages contain messages, so `ProtoWire` is
recursive and out of the prover's reach, and with it what both ends read and write (but for the
samples). All liveness: `CapturedIsReportedOrSuperseded`, `QueueDrains`,
`CollectedIsAssembled`, `ObservationsEmitted` (fairness and ENABLED are beyond the prover).

## 6. Not modelled

- The channel estimation, noise and TA arithmetic of `estimate()`: local data, no
  shared state. `e2_callback_` is never set in the repository.
- The `SRS_conf` control of the README, for which the
  service model has no control service (`get_e2sm_control_service` returns none), and
  the runtime defaults that only it would set.
- Of the generated code: arenas, constructors, swapping, descriptors, reflection. They
  manage memory and metadata and change no field otherwise than the modelled functions.
- Bytes that cannot be read given to `deserialize_srs_indication` and
  `deserialize_gnb_config`, which ignore the result of the parse: neither has a
  caller in the repository. Doubles are their bytes; NaN is left out.
- Samples beyond `int32_t` after scaling, in the runs: the cast in `IqSample` wraps them.
- Indication headers (the clock, encoded), logging.
- The E2 agent, E2AP and SCTP: outside the repository; modelled as the callers of
  the services. The RIC is a channel that loses and reorders; duplication is left
  out because nothing in the repository resends.
- `cleanup_old_data` has no caller: it is a reader in `capture_shared`, which bounds
  entries, and in `capture_cleanup`, which shows what it does to complete snapshots.
- `enable_unit_e2`: the command line sets it (`e2_cli11_schema.cpp:34`), the application, outside
  the repository, reads it, and the YAML writer does not write it.
- Equal or decreasing timestamps of one UE behind the collector: `SrsReport` numbers snapshots as they
  are completed. The report services and the xApp compare timestamps only for equality, so any
  distinct stamps behave alike; two snapshots with one stamp, after the clock
  was set back, are left out. `TimestampsInOrder` is about the order in which snapshots are taken.
- What no property watches: hazards without a property in `PROJECT.json` say why. Most are growth
  that nothing in the code bounds, or settings that the code does not compare.
- An xApp that expects fewer antennas than the snapshots have, in the runs: the theorems
  name what they need of the two numbers (*Proofs*).
