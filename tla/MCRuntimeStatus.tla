--------------------------- MODULE MCRuntimeStatus ---------------------------
(* TLC instance of RuntimeStatus. Three kinds of settings: one default policy *)
(* with every combination of its fields, every set of keys that may match,    *)
(* and one policy with which requests are made.                               *)
EXTENDS RuntimeStatus, TLC

CONSTANTS m1, m2, p1, q1, r1, v1, v2

LengthValue == m1 :> 4 @@ m2 :> 4 @@ p1 :> 2 @@ q1 :> 2 @@ r1 :> 1
WithinValue ==
    {<<m1, m1>>, <<m2, m2>>, <<p1, m1>>, <<q1, m1>>, <<r1, m1>>, <<q1, m2>>}

Reports(name, provider, limit) == [name |-> name, provider |-> provider, limit |-> limit]

\* Only the limit, only the provider, and only the model changes.
MetadataValue ==
    {Reports(m1, v1, 2), Reports(m1, v1, 200), Reports(m1, v2, 200), Reports(m2, v1, 200),
     Reports(m2, v2, 0)}

Symmetry == Permutations(SessionId)

Threshold(kind, num, den) == [kind |-> kind, num |-> num, den |-> den]
NoThreshold == Threshold("absent", -1, 1)
Quarter == Threshold("ratio", 1, 4)
Half == Threshold("ratio", 1, 2)

\* Half of a limit of 2 is one token, a quarter of it none.
Thresholds ==
    {NoThreshold, Quarter, Half, Threshold("ratio", 1, 1), Threshold("absolute_tokens", 100, 1),
     Threshold("absolute_tokens", -1, 1), Threshold("unknown_type", 1, 1)}

Emergency(kind, enabled, t) ==
    [kind |-> kind, enabled |-> enabled, threshold |-> t]
NoEmergency == Emergency("absent", "absent", NoThreshold)

Policy(kind, handoff, sweet, alias, emergency) ==
    [kind |-> kind, handoff_enabled |-> handoff, sweet_zone |-> sweet,
     emergency_enabled |-> alias, emergency |-> emergency]

AbsentPolicy == Policy("absent", "absent", NoThreshold, "absent", NoEmergency)
BothOn == Policy("mapping", "yes", Quarter, "yes", Emergency("mapping", "yes", Half))

Emergencies ==
    {NoEmergency, Emergency("other", "absent", NoThreshold), Emergency("extra_key", "yes", Half)}
    \cup {Emergency("mapping", enabled, t) : enabled \in {"yes", "no", "absent"}, t \in Thresholds}

Policies ==
    {Policy("other", "absent", NoThreshold, "absent", NoEmergency),
     Policy("extra_key", "yes", Half, "absent", NoEmergency),
     Policy("mapping", "absent", Half, "absent", NoEmergency)}
    \cup {Policy("mapping", "yes", t, "invalid", NoEmergency) :
             t \in {Half, Threshold("other", -1, 1), Threshold("extra_key", 1, 2)}}
    \cup {Policy("mapping", "no", t, alias, e) :
             t \in {NoThreshold, Half}, alias \in {"absent", "yes", "no"}, e \in Emergencies}
    \cup {Policy("mapping", "yes", t, "absent", e) : t \in Thresholds, e \in Emergencies}

Settings(root, models, providers, default) ==
    [root |-> root, models |-> models, providers |-> providers, default |-> default]
NoEntries == <<>>
OneOf(policy, keys) == [k \in keys |-> policy]

Parsed == {Settings("valid", NoEntries, NoEntries, policy) : policy \in Policies}

Matched ==
    {Settings("valid", OneOf(BothOn, keys), OneOf(BothOn, providers), default) :
        keys \in SUBSET {m1, p1, q1, r1}, providers \in {{}, {v1}},
        default \in {AbsentPolicy, BothOn}}

\* The most specific entry is malformed, and a less specific one is not.
NoSweetZone == Policy("mapping", "yes", NoThreshold, "absent", NoEmergency)
Malformed ==
    {Settings("valid", OneOf(NoSweetZone, {m1}), NoEntries, BothOn),
     Settings("valid", OneOf(NoSweetZone, {p1}) @@ OneOf(BothOn, {r1}), NoEntries, AbsentPolicy),
     Settings("valid", OneOf(NoSweetZone, {m1}) @@ OneOf(BothOn, {p1}), NoEntries, AbsentPolicy),
     Settings("valid", NoEntries, OneOf(NoSweetZone, {v1}), BothOn)}

Refused ==
    {Settings(root, NoEntries, NoEntries, BothOn) :
        root \in {"invalid_handoff_config", "unknown_config_key", "invalid_policy_mapping",
                  "invalid_policy_key"}}

Used == Settings("valid", OneOf(BothOn, {m1}), NoEntries, AbsentPolicy)

ConfigValue == Parsed \cup Matched \cup Malformed \cup Refused

\* Requests are made with one of the settings.
MaxRequestsValue == [c \in ConfigValue |-> IF c = Used THEN 4 ELSE 0]

Reported(prompt, input, completion, output, total) ==
    [prompt_tokens |-> prompt, input_tokens |-> input, completion_tokens |-> completion,
     output_tokens |-> output, total_tokens |-> total]

\* A count under the legacy name, and none.
UsagesValue == {Reported(Unset, 7, 2, Unset, Unset), Reported(Unset, Unset, 2, Unset, 9)}

\* The lengths put the first estimate just below 10 and just below 100; one ends
\* with the status of an earlier selection, and one has another status before it.
History(chars) == [status |-> FALSE, chars |-> chars]
HistoriesValue ==
    {<<History(7)>>, <<History(186)>>, <<History(150), StatusMessage(80, 200)>>,
     <<StatusMessage(80, 200), History(20), StatusMessage(80, 200)>>}

=============================================================================
