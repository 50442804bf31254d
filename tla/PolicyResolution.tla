-------------------------- MODULE PolicyResolution --------------------------
(***************************************************************************)
(* policy.py and models.py: which entry of the user's handoff settings      *)
(* applies to a model, and when it is accepted. Pure operators.             *)
(*                                                                         *)
(* Settings are records of what the parser tells apart: a switch is "yes",  *)
(* "no", "absent" or "invalid" (no boolean), a threshold is a kind and a    *)
(* fraction num/den (den is 1 for absolute tokens; a value that is no       *)
(* number has num -1). A ratio is exact here; in the code it is a double.   *)
(***************************************************************************)
EXTENDS Integers, FiniteSets

CONSTANTS
    Key,       \* model names and the patterns of model_policies
    Length,    \* len() of each key
    Within,    \* pairs <<pattern, model>>: the pattern is a substring of it
    Provider,
    None

ASSUME KeyAssumption ==
    /\ Length \in [Key -> Nat \ {0}]
    /\ Within \subseteq Key \X Key
    /\ None \notin Provider \cup Key

Unset == -1

Switch == {"yes", "no", "absent", "invalid"}
RawThreshold == [kind: {"absent", "other", "extra_key", "unknown_type", "ratio",
                        "absolute_tokens"}, num: Int, den: Nat \ {0}]
RawEmergency == [kind: {"absent", "other", "extra_key", "mapping"}, enabled: Switch,
                 threshold: RawThreshold]
RawPolicy == [kind: {"absent", "other", "extra_key", "mapping"}, handoff_enabled: Switch,
              sweet_zone: RawThreshold, emergency_enabled: Switch, emergency: RawEmergency]

\* What stands under a key is there: an empty entry is "other", no mapping.
Entered == {raw \in RawPolicy : raw.kind # "absent"}

\* The handoff settings; root is "valid", or what _validate_root objects to.
IsConfig(config) ==
    /\ config.root \in {"valid", "invalid_handoff_config", "unknown_config_key",
                        "invalid_policy_mapping", "invalid_policy_key"}
    /\ DOMAIN config.models \subseteq Key /\ IsFiniteSet(DOMAIN config.models)
    /\ DOMAIN config.providers \subseteq Provider
    /\ \A k \in DOMAIN config.models : config.models[k] \in Entered
    /\ \A p \in DOMAIN config.providers : config.providers[p] \in Entered
    /\ config.default \in RawPolicy

-----------------------------------------------------------------------------
(* Threshold.to_tokens and what _parse_threshold accepts *)

ToTokens(threshold, limit) ==
    IF threshold.kind = "ratio" THEN (limit * threshold.num) \div threshold.den
    ELSE threshold.num

ThresholdError(threshold) ==
    CASE threshold.kind = "other" -> "invalid_threshold"
      [] threshold.kind = "extra_key" -> "unknown_threshold_key"
      [] threshold.kind \in {"absent", "unknown_type"} -> "unknown_threshold_type"
      [] threshold.kind = "ratio" ->
            IF 0 < threshold.num /\ threshold.num < threshold.den THEN "" ELSE "ratio_out_of_range"
      [] threshold.kind = "absolute_tokens" ->
            IF threshold.num > 0 THEN "" ELSE "absolute_tokens_invalid"

IsBoolean(switch) == switch \in {"yes", "no"}

-----------------------------------------------------------------------------
(* _parse_policy: the checks in the order they are made. One is reached only
   when those before it found nothing; each has its error code. *)

Check(fails, code) == [fails |-> fails, code |-> code]

SweetZoneChecks(raw, limit) ==
    LET sweet == raw.sweet_zone
        on == raw.handoff_enabled = "yes"
    IN  << Check(on /\ sweet.kind = "absent", "missing_sweet_zone"),
           Check(on /\ ThresholdError(sweet) # "", ThresholdError(sweet)),
           Check(on /\ ToTokens(sweet, limit) >= limit, "threshold_at_or_above_context_limit"),
           Check(~on /\ sweet.kind # "absent", "disabled_policy_has_threshold") >>

EmergencyOn(raw) == raw.emergency.kind # "absent" /\ raw.emergency.enabled = "yes"

EmergencyChecks(raw, limit) ==
    LET given == raw.emergency.kind # "absent"
        alias == raw.emergency_enabled
        enabled == raw.emergency.enabled
        threshold == raw.emergency.threshold
        on == EmergencyOn(raw)
    IN  << Check(alias = "invalid", "invalid_emergency_enabled"),
           Check(~given /\ alias = "yes", "missing_emergency_policy"),
           Check(raw.emergency.kind = "other", "invalid_emergency_policy"),
           Check(raw.emergency.kind = "extra_key", "unknown_emergency_key"),
           Check(given /\ ~IsBoolean(enabled), "invalid_emergency_enabled"),
           Check(given /\ alias # "absent" /\ alias # enabled, "conflicting_emergency_enabled"),
           Check(given /\ ~on /\ threshold.kind # "absent", "disabled_policy_has_threshold"),
           Check(on /\ ThresholdError(threshold) # "", ThresholdError(threshold)),
           Check(on /\ ToTokens(threshold, limit) >= limit, "threshold_at_or_above_context_limit") >>

OrderCheck(raw, limit) ==
    << Check(/\ EmergencyOn(raw) /\ raw.handoff_enabled = "yes"
             /\ ToTokens(raw.emergency.threshold, limit) <= ToTokens(raw.sweet_zone, limit),
             "emergency_not_above_sweet_zone") >>

Failed(checks) == {i \in DOMAIN checks : checks[i].fails}
FirstCode(checks) == checks[CHOOSE i \in Failed(checks) : \A j \in Failed(checks) : i <= j].code

ShapeChecks(raw) ==
    << Check(raw.kind = "other", "invalid_policy"),
       Check(raw.kind = "extra_key", "unknown_policy_key"),
       Check(~IsBoolean(raw.handoff_enabled), "invalid_handoff_enabled") >>

\* "" when the policy is accepted for this context limit.
PolicyErrorOf(raw, limit) ==
    LET groups == << ShapeChecks(raw), SweetZoneChecks(raw, limit),
                     EmergencyChecks(raw, limit), OrderCheck(raw, limit) >>
        bad == {g \in DOMAIN groups : Failed(groups[g]) # {}}
    IN  IF bad = {} THEN ""
        ELSE FirstCode(groups[CHOOSE g \in bad : \A h \in bad : g <= h])

-----------------------------------------------------------------------------
(* _select_candidate *)

\* Plausible bug: any pattern that matches, wherever it stands in the mapping.
AnyMatching(config, model) == {k \in DOMAIN config.models : <<k, model>> \in Within}

LongestMatching(config, model) ==
    {k \in DOMAIN config.models :
        /\ <<k, model>> \in Within
        /\ \A l \in DOMAIN config.models : <<l, model>> \in Within => Length[l] <= Length[k]}

NoPolicy == [kind |-> "absent"]

Candidate(config, model, provider) ==
    LET longest == LongestMatching(config, model)
        key == CHOOSE k \in longest : TRUE
    IN  IF model \in DOMAIN config.models
          THEN [source |-> <<"exact", model>>, raw |-> config.models[model], error |-> ""]
        ELSE IF Cardinality(longest) > 1
          THEN [source |-> <<"none", None>>, raw |-> NoPolicy, error |-> "ambiguous_model_pattern"]
        ELSE IF longest # {}
          THEN [source |-> <<"pattern", key>>, raw |-> config.models[key], error |-> ""]
        ELSE IF provider \in DOMAIN config.providers
          THEN [source |-> <<"provider", provider>>, raw |-> config.providers[provider],
                error |-> ""]
        ELSE IF config.default.kind # "absent"
          THEN [source |-> <<"default", None>>, raw |-> config.default, error |-> ""]
        ELSE [source |-> <<"none", None>>, raw |-> NoPolicy, error |-> ""]

-----------------------------------------------------------------------------
(* resolve, and the threshold properties of PolicyResolution (models.py) *)

\* Thresholds in tokens of the limit, Unset for None.
Resolution(source, error, sweet, emergency) ==
    [source |-> source, error |-> error, sweet |-> sweet, emergency |-> emergency]

ObservationOnly(source, error) == Resolution(source, error, Unset, Unset)

Resolve(config, model, provider, limit) ==
    LET candidate == Candidate(config, model, provider)
        raw == candidate.raw
    IN  IF config.root # "valid" THEN ObservationOnly(<<"none", None>>, config.root)
        ELSE IF limit <= 0 THEN ObservationOnly(<<"none", None>>, "invalid_context_limit")
        ELSE IF candidate.error # "" \/ raw.kind = "absent"
          THEN ObservationOnly(candidate.source, candidate.error)
        ELSE IF PolicyErrorOf(raw, limit) # ""
          THEN ObservationOnly(candidate.source, PolicyErrorOf(raw, limit))
        ELSE Resolution(candidate.source, "",
                 IF raw.handoff_enabled = "yes" THEN ToTokens(raw.sweet_zone, limit) ELSE Unset,
                 IF EmergencyOn(raw) THEN ToTokens(raw.emergency.threshold, limit) ELSE Unset)

=============================================================================
