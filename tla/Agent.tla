-------------------------------- MODULE Agent --------------------------------
(***************************************************************************)
(* The E2 agents of one gNB process, from the options of its operator to   *)
(* what the RIC and the xApps are told: the e2ap_configuration of each     *)
(* unit, the service models that create_e2_du_agent gives a DU, the E2     *)
(* setup request, the report services of subscriptions, and the answer to  *)
(* a gNB configuration request.                                            *)
(*                                                                         *)
(* Two things are shared by all the agents of the process: the runtime     *)
(* defaults, and a collector that is a static local variable of            *)
(* create_e2_du_agent.  Both are lost when the process restarts.           *)
(***************************************************************************)
EXTENDS Naturals, Sequences, FiniteSets

CONSTANTS
  Dus, CuUps, CuCps,  \* the units of the process that have an E2 agent
  None,               \* an absent value
  DefaultPlmn,        \* "00101"
  Plmn,               \* the PLMN of this gNB
  RadioConfigs,       \* radio configurations a DU is created with
  RequestIds,         \* request identifiers of xApps
  Choices,            \* sets of service models an operator may ask for
  Definitions,        \* action definitions of subscriptions: byte sequences
  Triggers,           \* their event triggers: byte sequences
  MaxRestarts,        \* bound: restarts of the process
  MaxServices,        \* bound: report services
  MaxAnswers          \* bound: configuration requests answered

Units == Dus \cup CuUps \cup CuCps

(* The four service models, by the option that enables each. *)
Functions == {"kpm", "rc", "ccc", "srs"}

(* e2_du_radio_config.  A field that is zero is not given, and a missing    *)
(* configuration (nullopt) is one with no field given.  Frequencies are in *)
(* kHz.                                                                    *)
Frequencies == {"sampling_frequency_hz", "subcarrier_spacing_khz", "carrier_frequency_hz"}
RadioFields == Frequencies \cup {"num_rx_antennas", "ul_bandwidth_prb"}
RadioConfig == [RadioFields -> Nat]

(* gnb_srs_config *)
SrsConfigFields == Frequencies \cup {"num_rx_antennas", "srs_bandwidth_prb", "num_srs_symbols"}
SrsConfig       == [SrsConfigFields -> Nat]

ASSUME UnitsAssumption ==
  /\ Dus \cap CuUps = {} /\ Dus \cap CuCps = {} /\ CuUps \cap CuCps = {}
  /\ None \notin Units
ASSUME RadioConfigsAssumption == RadioConfigs \subseteq RadioConfig
ASSUME RequestsAssumption ==
  /\ RequestIds \subseteq Nat
  /\ Choices \subseteq SUBSET Functions
  /\ Definitions \subseteq Seq(0..255) /\ Triggers \subseteq Seq(0..255)
ASSUME AgentBoundsAssumption ==
  MaxRestarts \in Nat /\ MaxServices \in Nat /\ MaxAnswers \in Nat

VARIABLES
  chosen,      \* the service models the operator asked for
  options,     \* e2_config: those the running process was started with
  agents,      \* the agent of each unit, or None
  collectors,  \* the srs_data_collectors constructed: their configurations
  registered,  \* srs_e2_collector: one of them, or 0
  defaults,    \* get_srs_runtime_defaults()
  latest,      \* history: radio configuration of the last DU with SRS
  services,    \* report services of the subscriptions
  answers,     \* answers to configuration requests, in this process
  setups,      \* history: setup requests sent, by this process and earlier
  restarts

process == <<agents, collectors, registered, defaults, latest, services, answers>>
vars    == <<process, chosen, options, setups, restarts>>

-----------------------------------------------------------------------------
(* The translators from options to e2ap_configuration, one for each kind of *)
(* unit, start from make_default_e2ap_config.  Only a DU can have CCC and  *)
(* SRS; the CU-CP keeps the default PLMN.                                  *)
make_default_e2ap_config ==
  [plmn |-> DefaultPlmn, gnb_du_id |-> None, gnb_cu_up_id |-> None, enabled |-> {}]

DuConfig(u) ==
  [make_default_e2ap_config EXCEPT !.plmn = Plmn, !.gnb_du_id = u, !.enabled = options]

CuUpConfig(u) ==
  [make_default_e2ap_config EXCEPT !.plmn = Plmn, !.gnb_cu_up_id = u,
                                   !.enabled = options \ {"ccc", "srs"}]

CuCpConfig == [make_default_e2ap_config EXCEPT !.enabled = options \ {"ccc", "srs"}]

-----------------------------------------------------------------------------
(* The SRS configuration made from a radio configuration: what is not given *)
(* has a default; bandwidth and symbols are fixed.                         *)
DefaultOf ==
  [f \in SrsConfigFields |->
     CASE f = "num_rx_antennas"        -> 2
       [] f = "srs_bandwidth_prb"      -> 52
       [] f = "num_srs_symbols"        -> 1
       [] f = "sampling_frequency_hz"  -> 30720
       [] f = "subcarrier_spacing_khz" -> 30
       [] f = "carrier_frequency_hz"   -> 3500000]

FromRadio(radio, f) == f \in RadioFields /\ radio[f] # 0

SrsConfigOf(radio) ==
  [f \in SrsConfigFields |-> IF FromRadio(radio, f) THEN radio[f] ELSE DefaultOf[f]]

(* The runtime defaults before any DU was created, and after.  The uplink   *)
(* bandwidth that is not given stays what it was, unless that was zero.    *)
(* The mutant sets the defaults for the first DU only.                     *)
InitialDefaults ==
  [f \in RadioFields |-> IF f = "ul_bandwidth_prb" THEN 0 ELSE DefaultOf[f]]

DefaultsOfFirst(radio) ==
  IF collectors # <<>> THEN defaults
  ELSE [f \in RadioFields |-> IF radio[f] # 0 THEN radio[f]
                              ELSE IF f = "ul_bandwidth_prb" THEN 52 ELSE DefaultOf[f]]

DefaultsAfter(radio) ==
  [f \in RadioFields |->
     IF f # "ul_bandwidth_prb" THEN SrsConfigOf(radio)[f]
     ELSE IF radio[f] # 0 THEN radio[f]
     ELSE IF defaults[f] # 0 THEN defaults[f]
     ELSE SrsConfigOf(radio)["srs_bandwidth_prb"]]

(* The collectors after create_e2_du_agent, and the one it registers: the   *)
(* static local is constructed by the first call, and all share it.  The   *)
(* mutant constructs one for each agent.                                   *)
CollectorForEach(radio) == Append(collectors, SrsConfigOf(radio))

CollectorsAfter(radio) ==
  IF collectors = <<>> THEN <<SrsConfigOf(radio)>> ELSE collectors

-----------------------------------------------------------------------------
(* fill_asn1_e2ap_setup_request: an enabled function is advertised if the   *)
(* agent has an interface for it (the log has an error otherwise), and the *)
(* component is named after the identifier that is present.                *)
fill_asn1_e2ap_setup_request(u) ==
  LET cfg == agents[u].cfg IN
  [unit         |-> u,
   plmn         |-> cfg.plmn,
   gnb_du_id    |-> cfg.gnb_du_id,
   gnb_cu_up_id |-> cfg.gnb_cu_up_id,
   functions    |-> cfg.enabled \cap agents[u].modules,
   component    |-> IF cfg.gnb_cu_up_id # None THEN <<"e1", cfg.gnb_cu_up_id>>
                    ELSE IF cfg.gnb_du_id # None THEN <<"f1", cfg.gnb_du_id>>
                    ELSE <<"ng", None>>]

(* The agent has the options of the process: it writes them as YAML, and    *)
(* the schema reads those that are present over defaults that are off.     *)
(* enable_unit_e2, which the writer does not write and only the            *)
(* application reads, is left out.                                         *)
(* The mutant is a writer that does not know the runOran option.           *)
WrittenKeysOld == {"kpm", "rc", "ccc"}
WrittenKeys    == Functions

fill_e2_config_in_yaml_schema(config) == [key \in WrittenKeys |-> key \in config]

configure_cli11_e2_args(node) == {key \in Functions : key \in DOMAIN node /\ node[key]}

(* The report period of an event trigger: its first byte, in milliseconds,  *)
(* unless that is zero or missing.  The mutant takes a zero.               *)
PeriodOfZero(trigger) == IF trigger = <<>> THEN 20 ELSE Head(trigger)

report_period(trigger) ==
  IF trigger # <<>> /\ Head(trigger) > 0 THEN Head(trigger) ELSE 20

(* The stream that an action definition selects by its first byte. *)
StreamOf(definition) ==
  IF definition = <<>> THEN "null"
  ELSE CASE Head(definition) = 1 -> "ta"
         [] Head(definition) = 2 -> "srs"
         [] OTHER                -> "null"

(* The identifier of a configuration request; None is one that cannot be    *)
(* parsed.                                                                 *)
deserialize_gnb_config_request(request) == IF request = None THEN 0 ELSE request

(* The answer, from the configuration c of the collector; the uplink        *)
(* bandwidth of the message is never set.  And what the receiver reads.    *)
(* The mutant answers from the runtime defaults.                           *)
AnswerFromDefaults(c, id) ==
  [request_id |-> id, ul_bandwidth_prb |-> defaults["ul_bandwidth_prb"],
   config |-> [c EXCEPT !["num_rx_antennas"] = defaults["num_rx_antennas"]]]

serialize_gnb_config(c, id) == [request_id |-> id, ul_bandwidth_prb |-> 0, config |-> c]

deserialize_gnb_config(answer) ==
  [answer.config EXCEPT !["carrier_frequency_hz"] = IF @ > 0 THEN @ ELSE 3500000]

(* What a handler of configuration requests does; that of the service model *)
(* and e2_srs_message_handler, which nothing in the repository creates, do  *)
(* the same.                                                               *)
handle_config_request(c, request) ==
  serialize_gnb_config(c, deserialize_gnb_config_request(request))

-----------------------------------------------------------------------------
NoAgents == [u \in Units |-> None]

Init ==
  /\ chosen \in Choices
  /\ options = chosen
  /\ agents = NoAgents
  /\ collectors = <<>>
  /\ registered = 0
  /\ defaults = InitialDefaults
  /\ latest = None
  /\ services = {}
  /\ answers = {}
  /\ setups = {}
  /\ restarts = 0

(* create_e2_du_agent.  KPM, RC and CCC are always there; runOran only if   *)
(* it is enabled.                                                          *)
DuAgent(u, radio, c) ==
  [cfg |-> DuConfig(u), radio |-> radio, collector |-> c,
   modules |-> {"kpm", "rc", "ccc"} \cup (IF c # 0 THEN {"srs"} ELSE {})]

CreateDuWithSrs(u, radio) ==
  /\ agents[u] = None
  /\ "srs" \in DuConfig(u).enabled
  /\ defaults' = DefaultsAfter(radio)
  /\ collectors' = CollectorsAfter(radio)
  /\ registered' = Len(collectors')
  /\ agents' = [agents EXCEPT ![u] = DuAgent(u, radio, registered')]
  /\ latest' = radio
  /\ UNCHANGED <<chosen, options, services, answers, setups, restarts>>

CreateDuWithoutSrs(u, radio) ==
  /\ agents[u] = None
  /\ "srs" \notin DuConfig(u).enabled
  /\ agents' = [agents EXCEPT ![u] = DuAgent(u, radio, 0)]
  /\ UNCHANGED <<chosen, options, collectors, registered, defaults, latest, services,
                 answers, setups, restarts>>

(* The factories of the CU agents, which have no CCC and no runOran. *)
CuAgent(cfg) ==
  [cfg |-> cfg, radio |-> None, collector |-> 0, modules |-> {"kpm", "rc"}]

CreateCuAgent(u) ==
  /\ agents[u] = None
  /\ agents' = [agents EXCEPT ![u] = CuAgent(IF u \in CuUps THEN CuUpConfig(u) ELSE CuCpConfig)]
  /\ UNCHANGED <<chosen, options, collectors, registered, defaults, latest, services,
                 answers, setups, restarts>>

(* The agent sends its setup request, on connecting and on every retry. *)
SendSetup(u) ==
  /\ agents[u] # None
  /\ setups' = setups \cup {fill_asn1_e2ap_setup_request(u)}
  /\ UNCHANGED <<process, chosen, options, restarts>>

(* A subscription to runOran: get_e2sm_report_service. *)
Subscribe(u, definition, trigger) ==
  /\ agents[u] # None /\ "srs" \in agents[u].modules
  /\ Cardinality(services) < MaxServices
  /\ services' = services \cup
       {[stream |-> StreamOf(definition), collector |-> agents[u].collector,
         period |-> report_period(trigger)]}
  /\ UNCHANGED <<chosen, options, agents, collectors, registered, defaults, latest,
                 answers, setups, restarts>>

(* An xApp asks for the configuration of the gNB.  (When the answer cannot  *)
(* be copied to a buffer nothing changes.)                                 *)
handle_gnb_config_request(u, request) ==
  /\ agents[u] # None /\ "srs" \in agents[u].modules
  /\ Cardinality(answers) < MaxAnswers
  /\ answers' = answers \cup
       {[unit |-> u, answer |-> handle_config_request(collectors[agents[u].collector], request)]}
  /\ UNCHANGED <<chosen, options, agents, collectors, registered, defaults, latest,
                 services, setups, restarts>>

(* The process ends and is started on the configuration it had written. *)
Restart ==
  /\ restarts < MaxRestarts
  /\ restarts' = restarts + 1
  /\ options' = configure_cli11_e2_args(fill_e2_config_in_yaml_schema(options))
  /\ agents' = NoAgents
  /\ collectors' = <<>>
  /\ registered' = 0
  /\ defaults' = InitialDefaults
  /\ latest' = None
  /\ services' = {}
  /\ answers' = {}
  /\ UNCHANGED <<chosen, setups>>

Next ==
  \/ \E u \in Dus, radio \in RadioConfigs : CreateDuWithSrs(u, radio)
  \/ \E u \in Dus, radio \in RadioConfigs : CreateDuWithoutSrs(u, radio)
  \/ \E u \in CuUps \cup CuCps : CreateCuAgent(u)
  \/ \E u \in Units : SendSetup(u)
  \/ \E u \in Units, d \in Definitions, t \in Triggers : Subscribe(u, d, t)
  \/ \E u \in Units, r \in RequestIds \cup {None} : handle_gnb_config_request(u, r)
  \/ Restart

Spec == Init /\ [][Next]_vars

-----------------------------------------------------------------------------
(* The variables hold values of the code's types.  No report period is      *)
(* zero.                                                                   *)
E2apConfig ==
  [plmn : {DefaultPlmn, Plmn}, gnb_du_id : Dus \cup {None},
   gnb_cu_up_id : CuUps \cup {None}, enabled : SUBSET Functions]

AgentType ==
  [cfg : E2apConfig, radio : RadioConfigs \cup {None}, collector : Nat,
   modules : SUBSET Functions]

TypeOK ==
  /\ chosen \in SUBSET Functions /\ options \in SUBSET Functions
  /\ agents \in [Units -> AgentType \cup {None}]
  /\ collectors \in Seq(SrsConfig)
  /\ registered \in 0..Len(collectors)
  /\ defaults \in RadioConfig
  /\ latest \in RadioConfigs \cup {None}
  /\ services \subseteq [stream : {"ta", "srs", "null"}, collector : Nat, period : 1..255]
  /\ answers \subseteq [unit : Units, answer : [request_id : Nat, ul_bandwidth_prb : Nat,
                                                config : SrsConfig]]
  /\ restarts \in 0..MaxRestarts

(* The agent of u offers runOran. *)
HasSrs(u) == agents[u] # None /\ "srs" \in agents[u].modules

(* Every SRS report service drains the collector into which the PHY         *)
(* forwards, also after another DU has been created.                       *)
ServicesDrainRegistered ==
  \A s \in services : s.collector = registered

(* What an xApp reads in an answer, from whichever agent, is for the life   *)
(* of the process the configuration by which the registered collector      *)
(* decides that a snapshot is complete.                                    *)
AnswersAreCollectorConfig ==
  \A a \in answers : deserialize_gnb_config(a.answer) = collectors[registered]

(* All agents with SRS have the one collector of the process, and what was  *)
(* subscribed or answered refers to it.  (The invariant by which the two    *)
(* properties above are proved.)                                           *)
OneCollector ==
  \/ /\ collectors = <<>> /\ registered = 0
     /\ services = {} /\ answers = {}
     /\ \A u \in Units : ~HasSrs(u)
  \/ /\ registered = 1
     /\ Len(collectors) = 1 /\ collectors[1]["carrier_frequency_hz"] > 0
     /\ \A u \in Units : HasSrs(u) => agents[u].collector = 1
     /\ \A s \in services : s.collector = 1
     /\ \A a \in answers : a.answer.config = collectors[1]

(* "Runtime DU radio parameters to expose via E2 SRS gNB configuration      *)
(* response": an answer has the parameters its agent was created with.     *)
RadioConfigExposed ==
  \A a \in answers :
    LET radio == agents[a.unit].radio IN
    /\ radio["ul_bandwidth_prb"] # 0 => a.answer.ul_bandwidth_prb = radio["ul_bandwidth_prb"]
    /\ \A f \in RadioFields \ {"ul_bandwidth_prb"} :
         radio[f] # 0 => a.answer.config[f] = radio[f]

(* The runtime defaults have what the last DU with SRS was given, and no    *)
(* field is left at zero.                                                  *)
DefaultsFollowLatestDu ==
  latest # None =>
    \A f \in RadioFields : defaults[f] # 0 /\ (latest[f] # 0 => defaults[f] = latest[f])

(* A setup request advertises what the operator asked for and the unit can  *)
(* have, in every run of the process: nothing is lost or added between the *)
(* options, the configuration, the service models and the request.  And it *)
(* names the unit: a DU or CU-UP has the gNB's PLMN, and the component is  *)
(* the unit's interface with its identifier.                               *)
CanHave(u) == IF u \in Dus THEN Functions ELSE {"kpm", "rc"}

SetupDescribesUnit ==
  \A s \in setups :
    /\ s.functions = chosen \cap CanHave(s.unit)
    /\ s.unit \notin CuCps => s.plmn = Plmn
    /\ s.component = CASE s.unit \in CuUps -> <<"e1", s.unit>>
                       [] s.unit \in Dus   -> <<"f1", s.unit>>
                       [] OTHER            -> <<"ng", None>>
=============================================================================
