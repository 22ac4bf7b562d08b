----------------------------- MODULE AgentProofs -----------------------------
(***************************************************************************)
(* For any units, radio configurations, requests and bounds: the types of  *)
(* Agent; that all report services and all configuration answers of a      *)
(* process refer to the one collector into which the PHY forwards; whose   *)
(* the runtime defaults are; and what a setup request advertises.          *)
(***************************************************************************)
EXTENDS Agent, SequenceTheorems, TLAPS

(* The configuration made from a radio configuration is whole, and its      *)
(* carrier is not zero.                                                    *)
LEMMA SrsConfigWhole ==
  ASSUME NEW radio \in RadioConfig
  PROVE  /\ SrsConfigOf(radio) \in SrsConfig
         /\ SrsConfigOf(radio)["carrier_frequency_hz"] > 0
<1>1. ASSUME NEW f \in SrsConfigFields PROVE DefaultOf[f] \in Nat
  BY DEF DefaultOf, SrsConfigFields, Frequencies
<1>2. ASSUME NEW f \in SrsConfigFields, FromRadio(radio, f) PROVE radio[f] \in Nat
  BY <1>2 DEF FromRadio, RadioConfig
<1>3. SrsConfigOf(radio) \in SrsConfig
  BY <1>1, <1>2 DEF SrsConfigOf, SrsConfig
<1>4. DefaultOf["carrier_frequency_hz"] > 0
  BY DEF DefaultOf, SrsConfigFields, Frequencies
<1>5. "carrier_frequency_hz" \in SrsConfigFields
  BY DEF SrsConfigFields, Frequencies
<1>6. FromRadio(radio, "carrier_frequency_hz") => radio["carrier_frequency_hz"] > 0
  BY <1>2, <1>5 DEF FromRadio
<1> QED
  BY <1>3, <1>4, <1>5, <1>6 DEF SrsConfigOf

(* The runtime defaults are whole at first, and stay so. *)
LEMMA InitialDefaultsWhole == InitialDefaults \in RadioConfig
<1>1. \A f \in RadioFields \ {"ul_bandwidth_prb"} : f \in SrsConfigFields
  BY DEF RadioFields, SrsConfigFields
<1>2. \A f \in SrsConfigFields : DefaultOf[f] \in Nat
  BY DEF DefaultOf, SrsConfigFields, Frequencies
<1> QED
  BY <1>1, <1>2 DEF InitialDefaults, RadioConfig

LEMMA DefaultsWhole ==
  ASSUME defaults \in RadioConfig, NEW radio \in RadioConfig
  PROVE  DefaultsAfter(radio) \in RadioConfig
<1>1. \A f \in RadioFields \ {"ul_bandwidth_prb"} : f \in SrsConfigFields
  BY DEF RadioFields, SrsConfigFields
<1>2. "srs_bandwidth_prb" \in SrsConfigFields
  BY DEF SrsConfigFields
<1>3. \A f \in SrsConfigFields : SrsConfigOf(radio)[f] \in Nat
  BY SrsConfigWhole DEF SrsConfig
<1> QED
  BY <1>1, <1>2, <1>3 DEF DefaultsAfter, RadioConfig

(* A report period is one byte and not zero. *)
LEMMA PeriodPositive ==
  ASSUME NEW trigger \in Seq(0..255)
  PROVE  report_period(trigger) \in 1..255
<1>1. CASE trigger = <<>>
  BY <1>1 DEF report_period
<1>2. CASE trigger # <<>>
  <2>1. Head(trigger) \in 0..255
    BY <1>2, HeadTailProperties
  <2> DEFINE byte == Head(trigger)
  <2>2. report_period(trigger) = IF byte > 0 THEN byte ELSE 20
    BY <1>2, Zenon DEF report_period
  <2> HIDE DEF byte
  <2>3. byte \in 0..255
    BY <2>1 DEF byte
  <2> QED
    BY <2>2, <2>3
<1> QED
  BY <1>1, <1>2

(* The configurations of the units are e2ap_configurations. *)
LEMMA ConfigsTyped ==
  ASSUME options \in SUBSET Functions
  PROVE  /\ \A u \in Dus : DuConfig(u) \in E2apConfig
         /\ \A u \in CuUps : CuUpConfig(u) \in E2apConfig
         /\ CuCpConfig \in E2apConfig
BY DEF DuConfig, CuUpConfig, CuCpConfig, make_default_e2ap_config, E2apConfig, Functions
-----------------------------------------------------------------------------
(* The agents created have the types of Agent. *)
LEMMA AgentsTyped ==
  ASSUME options \in SUBSET Functions
  PROVE  /\ \A u \in Dus, radio \in RadioConfigs, c \in Nat : DuAgent(u, radio, c) \in AgentType
         /\ \A u \in CuUps : CuAgent(CuUpConfig(u)) \in AgentType
         /\ CuAgent(CuCpConfig) \in AgentType
<1>1. /\ {"kpm", "rc", "ccc"} \cup {"srs"} \in SUBSET Functions
      /\ {"kpm", "rc", "ccc"} \cup {} \in SUBSET Functions
      /\ {"kpm", "rc"} \in SUBSET Functions
  BY DEF Functions
<1>2. ASSUME NEW u \in Dus, NEW radio \in RadioConfigs, NEW c \in Nat
      PROVE  DuAgent(u, radio, c) \in AgentType
  BY <1>1, ConfigsTyped DEF DuAgent, AgentType
<1>3. ASSUME NEW cfg \in E2apConfig PROVE CuAgent(cfg) \in AgentType
  BY <1>1, <1>3 DEF CuAgent, AgentType
<1> QED
  BY <1>2, <1>3, ConfigsTyped

LEMMA AgentInitType == Init => TypeOK
<1> SUFFICES ASSUME Init PROVE TypeOK
  OBVIOUS
<1> QED
  BY InitialDefaultsWhole, RequestsAssumption, AgentBoundsAssumption DEF Init, TypeOK, NoAgents

(* Every step keeps the types.  That an answer has a whole configuration     *)
(* needs the collector to exist.                                           *)
LEMMA AgentStepType == TypeOK /\ OneCollector /\ [Next]_vars => TypeOK'
<1> SUFFICES ASSUME TypeOK, OneCollector, [Next]_vars PROVE TypeOK'
  OBVIOUS
<1>1. ASSUME NEW u \in Dus, NEW radio \in RadioConfigs, CreateDuWithSrs(u, radio)
      PROVE  TypeOK'
  <2>1. radio \in RadioConfig
    BY RadioConfigsAssumption
  <2>2. defaults' \in RadioConfig
    BY <1>1, <2>1, DefaultsWhole DEF CreateDuWithSrs, TypeOK
  <2>3. collectors' \in Seq(SrsConfig)
    BY <1>1, <2>1, SrsConfigWhole DEF CreateDuWithSrs, CollectorsAfter, TypeOK
  <2>4. registered' \in 0..Len(collectors') /\ registered' \in Nat
    BY <1>1, <2>3 DEF CreateDuWithSrs
  <2>5. agents' \in [Units -> AgentType \cup {None}]
    BY <1>1, <2>4, AgentsTyped DEF CreateDuWithSrs, TypeOK
  <2> QED
    BY <1>1, <2>2, <2>3, <2>4, <2>5 DEF CreateDuWithSrs, TypeOK
<1>2. ASSUME NEW u \in Dus, NEW radio \in RadioConfigs, CreateDuWithoutSrs(u, radio)
      PROVE  TypeOK'
  <2>1. agents' \in [Units -> AgentType \cup {None}]
    BY <1>2, AgentsTyped DEF CreateDuWithoutSrs, TypeOK
  <2> QED
    BY <1>2, <2>1 DEF CreateDuWithoutSrs, TypeOK
<1>3. ASSUME NEW u \in CuUps \cup CuCps, CreateCuAgent(u) PROVE TypeOK'
  <2>1. agents' \in [Units -> AgentType \cup {None}]
    BY <1>3, AgentsTyped DEF CreateCuAgent, TypeOK
  <2> QED
    BY <1>3, <2>1 DEF CreateCuAgent, TypeOK
<1>4. ASSUME NEW u \in Units, SendSetup(u) PROVE TypeOK'
  BY <1>4 DEF SendSetup, TypeOK, process
<1>5. ASSUME NEW u \in Units, NEW d \in Definitions, NEW t \in Triggers, Subscribe(u, d, t)
      PROVE  TypeOK'
  <2>1. report_period(t) \in 1..255
    BY PeriodPositive, RequestsAssumption
  <2>2. StreamOf(d) \in {"ta", "srs", "null"}
    BY DEF StreamOf
  <2>3. agents[u].collector \in Nat
    BY <1>5 DEF Subscribe, TypeOK, AgentType
  <2>4. services' \subseteq [stream : {"ta", "srs", "null"}, collector : Nat, period : 1..255]
    BY <1>5, <2>1, <2>2, <2>3 DEF Subscribe, TypeOK
  <2> QED
    BY <1>5, <2>4 DEF Subscribe, TypeOK
<1>6. ASSUME NEW u \in Units, NEW r \in RequestIds \cup {None},
             handle_gnb_config_request(u, r)
      PROVE  TypeOK'
  <2>1. HasSrs(u)
    BY <1>6 DEF handle_gnb_config_request, HasSrs
  <2>2. agents[u].collector = 1 /\ Len(collectors) = 1
    BY <2>1 DEF OneCollector
  <2>3. collectors[1] \in SrsConfig
    <3>1. collectors \in Seq(SrsConfig)
      BY DEF TypeOK
    <3>2. 1 \in 1..Len(collectors)
      BY <2>2
    <3> QED
      BY <3>1, <3>2, ElementOfSeq
  <2>4. deserialize_gnb_config_request(r) \in Nat
    BY RequestsAssumption DEF deserialize_gnb_config_request
  <2>5. handle_config_request(collectors[1], r)
          \in [request_id : Nat, ul_bandwidth_prb : Nat, config : SrsConfig]
    BY <2>3, <2>4 DEF handle_config_request, serialize_gnb_config
  <2>6. answers' = answers \cup
          {[unit |-> u, answer |-> handle_config_request(collectors[1], r)]}
    BY <1>6, <2>2 DEF handle_gnb_config_request
  <2>7. answers' \subseteq
          [unit : Units,
           answer : [request_id : Nat, ul_bandwidth_prb : Nat, config : SrsConfig]]
    BY <2>5, <2>6 DEF TypeOK
  <2> QED
    BY <1>6, <2>7 DEF handle_gnb_config_request, TypeOK
<1>7. ASSUME Restart PROVE TypeOK' 
  <2>1. configure_cli11_e2_args(fill_e2_config_in_yaml_schema(options)) \in SUBSET Functions
    BY DEF configure_cli11_e2_args
  <2>2. InitialDefaults \in RadioConfig
    BY InitialDefaultsWhole
  <2> QED
    BY <1>7, <2>1, <2>2, AgentBoundsAssumption DEF Restart, TypeOK, NoAgents
<1>8. CASE UNCHANGED vars
  BY <1>8 DEF vars, process, TypeOK
<1> QED
  BY <1>1, <1>2, <1>3, <1>4, <1>5, <1>6, <1>7, <1>8 DEF Next

-----------------------------------------------------------------------------
LEMMA OneCollectorInit == Init => OneCollector
BY DEF Init, OneCollector, NoAgents, HasSrs

(* Every step keeps the one collector.  A DU with SRS constructs it, or     *)
(* takes the one there is; no other step touches it.                       *)
LEMMA OneCollectorStep == TypeOK /\ OneCollector /\ [Next]_vars => OneCollector'
<1> SUFFICES ASSUME TypeOK, OneCollector, [Next]_vars PROVE OneCollector'
  OBVIOUS
<1>1. ASSUME NEW u \in Dus, NEW radio \in RadioConfigs, CreateDuWithSrs(u, radio)
      PROVE  OneCollector'
  <2>1. SrsConfigOf(radio)["carrier_frequency_hz"] > 0
    BY SrsConfigWhole, RadioConfigsAssumption
  <2>2. CASE collectors = <<>>
    <3>1. collectors' = <<SrsConfigOf(radio)>>
      BY <1>1, <2>2 DEF CreateDuWithSrs, CollectorsAfter
    <3>2. Len(collectors') = 1 /\ collectors'[1]["carrier_frequency_hz"] > 0 /\ registered' = 1
      BY <1>1, <2>1, <3>1 DEF CreateDuWithSrs
    <3>3. services' = {} /\ answers' = {} /\ \A v \in Units : ~HasSrs(v)
      BY <1>1, <2>2 DEF CreateDuWithSrs, OneCollector
    <3>4. \A v \in Units : HasSrs(v)' => agents'[v].collector = 1
      BY <1>1, <3>2, <3>3 DEF CreateDuWithSrs, DuAgent, HasSrs, TypeOK
    <3> QED
      BY <3>2, <3>3, <3>4 DEF OneCollector
  <2>3. CASE collectors # <<>>
    <3>1. collectors' = collectors
      BY <1>1, <2>3 DEF CreateDuWithSrs, CollectorsAfter
    <3>2. Len(collectors) = 1 /\ collectors[1]["carrier_frequency_hz"] > 0
      BY <2>3 DEF OneCollector
    <3>3. registered' = 1
      BY <1>1, <3>1, <3>2 DEF CreateDuWithSrs
    <3>4. \A v \in Units : HasSrs(v)' => agents'[v].collector = 1
      BY <1>1, <2>3, <3>3 DEF CreateDuWithSrs, DuAgent, HasSrs, TypeOK, OneCollector
    <3>5. /\ \A s \in services' : s.collector = 1
          /\ \A a \in answers' : a.answer.config = collectors'[1]
      BY <1>1, <2>3, <3>1 DEF CreateDuWithSrs, OneCollector
    <3> QED
      BY <3>1, <3>2, <3>3, <3>4, <3>5 DEF OneCollector
  <2> QED
    BY <2>2, <2>3
<1>2. ASSUME NEW u \in Dus, NEW radio \in RadioConfigs, CreateDuWithoutSrs(u, radio)
      PROVE  OneCollector'
  <2>1. \A v \in Units : HasSrs(v)' => HasSrs(v) /\ agents'[v] = agents[v]
    BY <1>2 DEF CreateDuWithoutSrs, DuAgent, HasSrs, TypeOK
  <2> QED
    BY <1>2, <2>1 DEF CreateDuWithoutSrs, OneCollector
<1>3. ASSUME NEW u \in CuUps \cup CuCps, CreateCuAgent(u) PROVE OneCollector'
  <2>1. \A v \in Units : HasSrs(v)' => HasSrs(v) /\ agents'[v] = agents[v]
    BY <1>3 DEF CreateCuAgent, CuAgent, HasSrs, TypeOK
  <2> QED
    BY <1>3, <2>1 DEF CreateCuAgent, OneCollector
<1>4. ASSUME NEW u \in Units, SendSetup(u) PROVE OneCollector'
  BY <1>4 DEF SendSetup, OneCollector, process, HasSrs
<1>5. ASSUME NEW u \in Units, NEW d \in Definitions, NEW t \in Triggers, Subscribe(u, d, t)
      PROVE  OneCollector'
  <2>1. HasSrs(u)
    BY <1>5 DEF Subscribe, HasSrs
  <2>2. agents[u].collector = 1 /\ collectors # <<>>
    BY <2>1 DEF OneCollector
  <2>3. \A s \in services' : s.collector = 1
    BY <1>5, <2>1, <2>2 DEF Subscribe, OneCollector
  <2> QED
    BY <1>5, <2>1, <2>3 DEF Subscribe, OneCollector, HasSrs
<1>6. ASSUME NEW u \in Units, NEW r \in RequestIds \cup {None},
             handle_gnb_config_request(u, r)
      PROVE  OneCollector'
  <2>1. HasSrs(u)
    BY <1>6 DEF handle_gnb_config_request, HasSrs
  <2>2. agents[u].collector = 1
    BY <2>1 DEF OneCollector
  <2>3. \A a \in answers' : a.answer.config = collectors[1]
    BY <1>6, <2>1, <2>2
      DEF handle_gnb_config_request, handle_config_request, serialize_gnb_config, OneCollector
  <2> QED
    BY <1>6, <2>1, <2>3 DEF handle_gnb_config_request, OneCollector, HasSrs
<1>7. ASSUME Restart PROVE OneCollector'
  BY <1>7 DEF Restart, OneCollector, NoAgents, HasSrs
<1>8. CASE UNCHANGED vars
  BY <1>8 DEF vars, process, OneCollector, HasSrs
<1> QED
  BY <1>1, <1>2, <1>3, <1>4, <1>5, <1>6, <1>7, <1>8 DEF Next

(* The variables of Agent always have the code's types, and the agents of a *)
(* process share one collector: the invariant of the next two theorems.    *)
THEOREM AgentTypeCorrect == Spec => [](TypeOK /\ OneCollector)
<1>1. Init => TypeOK /\ OneCollector
  BY AgentInitType, OneCollectorInit
<1>2. TypeOK /\ OneCollector /\ [Next]_vars => (TypeOK /\ OneCollector)'
  BY AgentStepType, OneCollectorStep
<1> QED
  BY <1>1, <1>2, PTL DEF Spec

(* Every SRS report service drains the registered collector, whichever      *)
(* agents are created, and in whatever order.                              *)
THEOREM ServicesShareCollector == Spec => []ServicesDrainRegistered
<1>1. OneCollector => ServicesDrainRegistered
  BY DEF OneCollector, ServicesDrainRegistered
<1> QED
  BY <1>1, AgentTypeCorrect, PTL

(* Every answer to a configuration request has, for the life of the         *)
(* process, the configuration of the registered collector.                 *)
THEOREM AnswersHoldGood == Spec => []AnswersAreCollectorConfig
<1>1. TypeOK /\ OneCollector => AnswersAreCollectorConfig
  <2> SUFFICES ASSUME TypeOK, OneCollector, NEW a \in answers
               PROVE  deserialize_gnb_config(a.answer) = collectors[registered]
    BY DEF AnswersAreCollectorConfig
  <2>1. /\ registered = 1 /\ a.answer.config = collectors[1]
        /\ a.answer.config["carrier_frequency_hz"] > 0
    BY DEF OneCollector
  <2>2. a.answer.config \in SrsConfig
    BY DEF TypeOK
  <2>3. [a.answer.config EXCEPT !["carrier_frequency_hz"] =
           a.answer.config["carrier_frequency_hz"]] = a.answer.config
    BY <2>2 DEF SrsConfig
  <2>4. deserialize_gnb_config(a.answer) = a.answer.config
    BY <2>1, <2>3 DEF deserialize_gnb_config
  <2> QED
    BY <2>1, <2>4
<1> QED
  BY <1>1, AgentTypeCorrect, PTL
-----------------------------------------------------------------------------
(* The runtime defaults of a creation have no zero and what the DU was      *)
(* given, whatever they were before.                                       *)
LEMMA DefaultsFollow ==
  ASSUME defaults \in RadioConfig, NEW radio \in RadioConfig, NEW f \in RadioFields
  PROVE  /\ DefaultsAfter(radio)[f] # 0
         /\ radio[f] # 0 => DefaultsAfter(radio)[f] = radio[f]
<1>1. \A g \in SrsConfigFields : DefaultOf[g] # 0
  BY DEF DefaultOf, SrsConfigFields, Frequencies
<1>2. CASE f = "ul_bandwidth_prb"
  <2>1. "srs_bandwidth_prb" \in SrsConfigFields /\ "srs_bandwidth_prb" \notin RadioFields
    BY DEF SrsConfigFields, RadioFields, Frequencies
  <2>2. SrsConfigOf(radio)["srs_bandwidth_prb"] # 0
    BY <1>1, <2>1 DEF SrsConfigOf, FromRadio
  <2> QED
    BY <1>2, <2>2 DEF DefaultsAfter
<1>3. CASE f # "ul_bandwidth_prb"
  <2>1. f \in SrsConfigFields
    BY <1>3 DEF RadioFields, SrsConfigFields
  <2>2. DefaultsAfter(radio)[f] = SrsConfigOf(radio)[f]
    BY <1>3 DEF DefaultsAfter
  <2>3. SrsConfigOf(radio)[f] = IF radio[f] # 0 THEN radio[f] ELSE DefaultOf[f]
    BY <2>1 DEF SrsConfigOf, FromRadio
  <2> QED
    BY <1>1, <2>1, <2>2, <2>3
<1> QED
  BY <1>2, <1>3

(* Whichever DUs are created, with whatever radio configurations and in     *)
(* whatever order, the runtime defaults are those of the last one with SRS. *)
THEOREM DefaultsOfLatestDu == Spec => []DefaultsFollowLatestDu
<1>1. Init => DefaultsFollowLatestDu
  BY DEF Init, DefaultsFollowLatestDu
<1>2. TypeOK /\ DefaultsFollowLatestDu /\ [Next]_vars => DefaultsFollowLatestDu'
  <2> SUFFICES ASSUME TypeOK, DefaultsFollowLatestDu, [Next]_vars
               PROVE  DefaultsFollowLatestDu'
    OBVIOUS
  <2>1. ASSUME NEW u \in Dus, NEW radio \in RadioConfigs, CreateDuWithSrs(u, radio)
        PROVE  DefaultsFollowLatestDu'
    <3>1. /\ defaults \in RadioConfig /\ radio \in RadioConfig
          /\ defaults' = DefaultsAfter(radio) /\ latest' = radio
      BY <2>1, RadioConfigsAssumption DEF TypeOK, CreateDuWithSrs
    <3> QED
      BY <3>1, DefaultsFollow DEF DefaultsFollowLatestDu
  <2>2. CASE UNCHANGED <<defaults, latest>>
    BY <2>2 DEF DefaultsFollowLatestDu
  <2>3. ASSUME Restart PROVE DefaultsFollowLatestDu'
    BY <2>3 DEF Restart, DefaultsFollowLatestDu
  <2> QED
    BY <2>1, <2>2, <2>3
      DEF Next, CreateDuWithoutSrs, CreateCuAgent, SendSetup, Subscribe,
          handle_gnb_config_request, process, vars
<1> QED
  BY <1>1, <1>2, AgentTypeCorrect, PTL DEF Spec

-----------------------------------------------------------------------------
(* The options written as YAML are the options that are read. *)
LEMMA OptionsSurviveRestart ==
  ASSUME options \in SUBSET Functions
  PROVE  configure_cli11_e2_args(fill_e2_config_in_yaml_schema(options)) = options
BY DEF configure_cli11_e2_args, fill_e2_config_in_yaml_schema, WrittenKeys

(* The operator's choice holds in every process, and an agent has the       *)
(* configuration of its unit, with service models for all of the choice    *)
(* that the unit can have.                                                 *)
ConfigOf(u) == IF u \in Dus THEN DuConfig(u) ELSE IF u \in CuUps THEN CuUpConfig(u) ELSE CuCpConfig

AgentsOfChoice ==
  /\ options = chosen
  /\ \A u \in Units : agents[u] # None =>
       /\ agents[u].cfg = ConfigOf(u)
       /\ agents[u].cfg.enabled \cap agents[u].modules = chosen \cap CanHave(u)

LEMMA ModulesOfDu ==
  ASSUME options \in SUBSET Functions, NEW u \in Dus, NEW radio, NEW c \in Nat,
         "srs" \in options <=> c # 0
  PROVE  /\ DuAgent(u, radio, c).cfg = ConfigOf(u)
         /\ DuAgent(u, radio, c).cfg.enabled \cap DuAgent(u, radio, c).modules
              = options \cap CanHave(u)
<1> DEFINE modules == {"kpm", "rc", "ccc"} \cup (IF c # 0 THEN {"srs"} ELSE {})
<1>1. DuAgent(u, radio, c).cfg = DuConfig(u) /\ DuAgent(u, radio, c).modules = modules
  BY DEF DuAgent
<1>2. DuConfig(u).enabled = options
  BY DEF DuConfig, make_default_e2ap_config
<1>3. options \cap modules = options \cap Functions
  BY DEF Functions
<1> QED
  BY <1>1, <1>2, <1>3 DEF ConfigOf, CanHave

LEMMA ModulesOfCu ==
  ASSUME options \in SUBSET Functions, NEW u \in CuUps \cup CuCps,
         NEW cfg, cfg = IF u \in CuUps THEN CuUpConfig(u) ELSE CuCpConfig
  PROVE  /\ CuAgent(cfg).cfg = ConfigOf(u)
         /\ CuAgent(cfg).cfg.enabled \cap CuAgent(cfg).modules = options \cap CanHave(u)
<1>1. u \notin Dus
  BY UnitsAssumption
<1>2. cfg.enabled = options \ {"ccc", "srs"}
  BY DEF CuUpConfig, CuCpConfig, make_default_e2ap_config
<1>3. CuAgent(cfg).cfg = cfg /\ CuAgent(cfg).modules = {"kpm", "rc"}
  BY DEF CuAgent
<1>4. (options \ {"ccc", "srs"}) \cap {"kpm", "rc"} = options \cap {"kpm", "rc"}
  OBVIOUS
<1> QED
  BY <1>1, <1>2, <1>3, <1>4 DEF ConfigOf, CanHave

LEMMA AgentsOfChoiceStep ==
  TypeOK /\ OneCollector /\ AgentsOfChoice /\ [Next]_vars => AgentsOfChoice'
<1> SUFFICES ASSUME TypeOK, OneCollector, AgentsOfChoice, [Next]_vars PROVE AgentsOfChoice'
  OBVIOUS
<1>1. options \in SUBSET Functions /\ agents \in [Units -> AgentType \cup {None}]
  BY DEF TypeOK
<1>2. ASSUME UNCHANGED <<options, chosen>>,
             \A u \in Units : agents'[u] # None =>
               \/ agents'[u] = agents[u]
               \/ /\ agents'[u].cfg = ConfigOf(u)
                  /\ agents'[u].cfg.enabled \cap agents'[u].modules = options \cap CanHave(u)
      PROVE  AgentsOfChoice'
  <2>1. \A u : ConfigOf(u)' = ConfigOf(u)
    BY <1>2 DEF ConfigOf, DuConfig, CuUpConfig, CuCpConfig, make_default_e2ap_config
  <2> QED
    BY <1>2, <2>1 DEF AgentsOfChoice
<1>3. ASSUME NEW u \in Dus, NEW radio \in RadioConfigs, CreateDuWithSrs(u, radio)
      PROVE  AgentsOfChoice'
  <2>1. registered' \in Nat \ {0}
    <3>1. CASE collectors = <<>>
      BY <1>3, <3>1 DEF CreateDuWithSrs, CollectorsAfter
    <3>2. CASE collectors # <<>>
      BY <1>3, <3>2 DEF CreateDuWithSrs, CollectorsAfter, OneCollector
    <3> QED
      BY <3>1, <3>2
  <2>2. "srs" \in options
    BY <1>3 DEF CreateDuWithSrs, DuConfig, make_default_e2ap_config
  <2>3. PICK c : c = registered'
    OBVIOUS
  <2>4. agents' = [agents EXCEPT ![u] = DuAgent(u, radio, c)]
    BY <1>3, <2>3 DEF CreateDuWithSrs
  <2>5. /\ DuAgent(u, radio, c).cfg = ConfigOf(u)
        /\ DuAgent(u, radio, c).cfg.enabled \cap DuAgent(u, radio, c).modules
             = options \cap CanHave(u)
    BY <1>1, <2>1, <2>2, <2>3, ModulesOfDu
  <2>6. UNCHANGED <<options, chosen>>
    BY <1>3 DEF CreateDuWithSrs
  <2> QED
    BY <1>1, <1>2, <2>4, <2>5, <2>6
<1>4. ASSUME NEW u \in Dus, NEW radio \in RadioConfigs, CreateDuWithoutSrs(u, radio)
      PROVE  AgentsOfChoice'
  <2>1. "srs" \notin options
    BY <1>4 DEF CreateDuWithoutSrs, DuConfig, make_default_e2ap_config
  <2>2. /\ DuAgent(u, radio, 0).cfg = ConfigOf(u)
        /\ DuAgent(u, radio, 0).cfg.enabled \cap DuAgent(u, radio, 0).modules
             = options \cap CanHave(u)
    BY <1>1, <2>1, ModulesOfDu
  <2> QED
    BY <1>1, <1>2, <1>4, <2>2 DEF CreateDuWithoutSrs
<1>5. ASSUME NEW u \in CuUps \cup CuCps, CreateCuAgent(u) PROVE AgentsOfChoice'
  <2>1. PICK cfg : cfg = IF u \in CuUps THEN CuUpConfig(u) ELSE CuCpConfig
    OBVIOUS
  <2>2. agents' = [agents EXCEPT ![u] = CuAgent(cfg)] /\ UNCHANGED <<options, chosen>>
    BY <1>5, <2>1 DEF CreateCuAgent
  <2>3. /\ CuAgent(cfg).cfg = ConfigOf(u)
        /\ CuAgent(cfg).cfg.enabled \cap CuAgent(cfg).modules = options \cap CanHave(u)
    BY <1>1, <2>1, ModulesOfCu
  <2> QED
    BY <1>1, <1>2, <2>2, <2>3
<1>6. ASSUME Restart PROVE AgentsOfChoice'
  BY <1>1, <1>6, OptionsSurviveRestart DEF Restart, NoAgents, AgentsOfChoice
<1>7. CASE UNCHANGED <<options, chosen, agents>>
  BY <1>2, <1>7
<1> QED
  BY <1>3, <1>4, <1>5, <1>6, <1>7
    DEF Next, SendSetup, Subscribe, handle_gnb_config_request, process, vars

(* What an agent with such a configuration tells the RIC about its unit. *)
LEMMA RequestOfUnit ==
  ASSUME AgentsOfChoice, NEW u \in Units, agents[u] # None,
         NEW s, s = fill_asn1_e2ap_setup_request(u)
  PROVE  /\ s.functions = chosen \cap CanHave(s.unit)
         /\ s.unit \notin CuCps => s.plmn = Plmn
         /\ s.component = CASE s.unit \in CuUps -> <<"e1", s.unit>>
                            [] s.unit \in Dus   -> <<"f1", s.unit>>
                            [] OTHER            -> <<"ng", None>>
<1>1. /\ s.unit = u
      /\ s.functions = agents[u].cfg.enabled \cap agents[u].modules
      /\ s.plmn = agents[u].cfg.plmn
      /\ s.component = IF agents[u].cfg.gnb_cu_up_id # None
                       THEN <<"e1", agents[u].cfg.gnb_cu_up_id>>
                       ELSE IF agents[u].cfg.gnb_du_id # None
                       THEN <<"f1", agents[u].cfg.gnb_du_id>> ELSE <<"ng", None>>
  BY DEF fill_asn1_e2ap_setup_request
<1>2. s.functions = chosen \cap CanHave(u) /\ agents[u].cfg = ConfigOf(u)
  BY <1>1 DEF AgentsOfChoice
<1>3. CASE u \in Dus
  <2>1. /\ ConfigOf(u).plmn = Plmn
        /\ ConfigOf(u).gnb_du_id = u /\ ConfigOf(u).gnb_cu_up_id = None
    BY <1>3 DEF ConfigOf, DuConfig, make_default_e2ap_config
  <2> QED
    BY <1>1, <1>2, <1>3, <2>1, UnitsAssumption DEF Units
<1>4. CASE u \in CuUps
  <2>1. ConfigOf(u).plmn = Plmn /\ ConfigOf(u).gnb_cu_up_id = u
    BY <1>4, UnitsAssumption DEF ConfigOf, CuUpConfig, make_default_e2ap_config
  <2> QED
    BY <1>1, <1>2, <1>4, <2>1, UnitsAssumption DEF Units
<1>5. CASE u \in CuCps
  <2>1. ConfigOf(u).gnb_du_id = None /\ ConfigOf(u).gnb_cu_up_id = None
    BY <1>5, UnitsAssumption DEF ConfigOf, CuCpConfig, make_default_e2ap_config
  <2> QED
    BY <1>1, <1>2, <1>5, <2>1, UnitsAssumption
<1> QED
  BY <1>3, <1>4, <1>5 DEF Units

(* In every run of the process, also after a restart on the configuration   *)
(* it had written, a setup request advertises what the operator chose and  *)
(* the unit can have, and names the unit.                                  *)
THEOREM SetupsDescribeUnits == Spec => []SetupDescribesUnit
<1>1. Init => AgentsOfChoice /\ SetupDescribesUnit
  BY DEF Init, NoAgents, AgentsOfChoice, SetupDescribesUnit
<1>2. TypeOK /\ OneCollector /\ AgentsOfChoice /\ SetupDescribesUnit /\ [Next]_vars
        => SetupDescribesUnit'
  <2> SUFFICES ASSUME AgentsOfChoice, SetupDescribesUnit, [Next]_vars
               PROVE  SetupDescribesUnit'
    OBVIOUS
  <2>1. ASSUME NEW u \in Units, SendSetup(u) PROVE SetupDescribesUnit'
    <3>1. PICK s : s = fill_asn1_e2ap_setup_request(u)
      OBVIOUS
    <3>2. setups' = setups \cup {s} /\ chosen' = chosen /\ agents[u] # None
      BY <2>1, <3>1 DEF SendSetup
    <3>3. \A u1 : CanHave(u1)' = CanHave(u1)
      BY DEF CanHave
    <3> QED
      BY <3>1, <3>2, <3>3, RequestOfUnit DEF SetupDescribesUnit
  <2>2. CASE UNCHANGED <<setups, chosen>>
    BY <2>2 DEF SetupDescribesUnit, CanHave
  <2> QED
    BY <2>1, <2>2
      DEF Next, CreateDuWithSrs, CreateDuWithoutSrs, CreateCuAgent, Subscribe,
          handle_gnb_config_request, Restart, process, vars
<1> QED
  BY <1>1, <1>2, AgentsOfChoiceStep, AgentTypeCorrect, PTL DEF Spec
==============================================================================
