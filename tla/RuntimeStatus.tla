---------------------------- MODULE RuntimeStatus ----------------------------
(***************************************************************************)
(* What the engine tells the model about itself: the policy in force, the   *)
(* usage the provider reported for the last request, and an estimate of     *)
(* the request the Runtime Status is part of (context_builder.py:36-120,    *)
(* and the halves of context_engine.py that keep usage, policy and          *)
(* session). Hermes is external: it makes one request at a time for an      *)
(* engine, may lose the answer, may switch the model or the session at any  *)
(* time, and estimates tokens as characters divided by a constant.          *)
(***************************************************************************)
EXTENDS PolicyResolution, Sequences, SequencesExt

CONSTANTS
    Config,       \* handoff settings the engine may be created with
    Metadata,     \* models, providers and context limits that Hermes reports
    SessionId,
    Usages,       \* usage mappings a provider returns
    Histories,    \* requests Hermes assembles: sequences of messages
    MaxRequests   \* bound: requests, for each of the settings

\* A message is its length and whether it is a Runtime Status; the counts of a
\* usage mapping are integers, those it lacks among the negative ones. What
\* Hermes assembles may end with the status of an earlier selection, and may hold
\* others, which an emergency summary has kept (context_engine.py:457).
Message == [status: BOOLEAN, chars: Nat]
RawUsage == [prompt_tokens: Int, input_tokens: Int, completion_tokens: Int,
             output_tokens: Int, total_tokens: Int]

ASSUME RuntimeAssumption ==
    /\ \A config \in Config : IsConfig(config)
    /\ Metadata \subseteq [name: Key, provider: Provider, limit: Int]
    /\ None \notin SessionId
    /\ MaxRequests \in [Config -> Nat]
    /\ Usages \subseteq RawUsage
    /\ Histories \subseteq Seq(Message)

VARIABLES
    config,
    model,        \* current_model, current_provider, context_length
    resolution,   \* policy_resolution
    threshold,    \* threshold_tokens: what Hermes compares a request with
    usage,        \* last_usage
    counters,     \* last_prompt_tokens, last_completion_tokens, last_total_tokens
    estimate,     \* estimated_prompt_tokens
    awaiting,     \* _awaiting_usage
    session,      \* _session_id
    request,      \* the last request made of the provider
    measured,     \* history: the last answer, and which request it answered
    lastStatus    \* history: the last request that had a status

historyVars == <<request, measured, lastStatus>>
engineVars == <<model, resolution, threshold, usage, counters, estimate, awaiting, session>>
statusVars == <<config, engineVars, historyVars>>

-----------------------------------------------------------------------------
(* ProviderTokenUsage.from_mapping; Unset is None, and any negative value is
   one that _token_count refuses. *)

Counted(value) == IF value >= 0 THEN value ELSE Unset
FirstCounted(value, otherwise) == IF value >= 0 THEN value ELSE Counted(otherwise)

FromMapping(raw) ==
    LET prompt == FirstCounted(raw.prompt_tokens, raw.input_tokens)
        completion == FirstCounted(raw.completion_tokens, raw.output_tokens)
    IN  [prompt |-> prompt, completion |-> completion,
         total |-> IF raw.total_tokens < 0 /\ prompt # Unset /\ completion # Unset
                     THEN prompt + completion ELSE Counted(raw.total_tokens)]

NoUsage == [prompt |-> Unset, completion |-> Unset, total |-> Unset]

\* Plausible bug: the unknown is stored as it is.
OrUnknown(value) == value

OrZero(value) == IF value = Unset THEN 0 ELSE value
Counters(u) ==
    [prompt |-> OrZero(u.prompt), completion |-> OrZero(u.completion), total |-> OrZero(u.total)]

-----------------------------------------------------------------------------
(* The status message. FixedChars stands for the text that no number changes. *)

FixedChars == 10
CharsPerToken == 2
Rounds == 32
PowersOfTen ==
    {10, 100, 1000, 10000, 100000, 1000000, 10000000, 100000000, 1000000000}

\* len(str(n)), up to the 10 digits of 2^31 - 1.
Digits(n) == 1 + Cardinality({power \in PowersOfTen : n >= power})

\* render_runtime_status: the estimate, and the share of the limit it is.
StatusChars(estimated, limit) ==
    FixedChars + Digits(estimated)
    + IF limit > 0 THEN Digits((100 * estimated) \div limit) ELSE 0

StatusMessage(estimated, limit) == [status |-> TRUE, chars |-> StatusChars(estimated, limit)]

\* estimate_messages_tokens_rough
TotalChars(messages) ==
    LET sum[n \in 0..Len(messages)] ==
            IF n = 0 THEN 0 ELSE sum[n - 1] + messages[n].chars
    IN  sum[Len(messages)]
Rough(messages) == TotalChars(messages) \div CharsPerToken

WithoutStatus(messages) ==
    IF messages # <<>> /\ Last(messages).status THEN Front(messages) ELSE messages

\* Plausible bug: the estimate of the request before the status is added.
FirstEstimate(base, limit) == Rough(base)

\* The estimate after so many rounds of the loop, which returns early with one
\* that is its own estimate: the rounds that are left would not change it.
SettledEstimate(base, limit) ==
    LET refreshed == [e \in Nat |-> Rough(Append(base, StatusMessage(e, limit)))]
        after[round \in 0..Rounds] ==
            IF round = 0 THEN Rough(base) ELSE refreshed[after[round - 1]]
    IN  after[Rounds]

\* append_runtime_status: the request, and the estimate it returns.
AppendRuntimeStatus(messages, limit) ==
    LET base == WithoutStatus(messages)
        shown == SettledEstimate(base, limit)
        selected == Append(base, StatusMessage(shown, limit))
    IN  [messages |-> selected, shown |-> shown, estimate |-> Rough(selected)]

-----------------------------------------------------------------------------

NoModel == [name |-> None, provider |-> None, limit |-> 0]

\* A request: its place in the order, what was in force, the measurement and the
\* estimate it shows, its messages ("none" when no status could be rendered),
\* and whether it is answered or given up.
Request(number, actual, shown, messages) ==
    [number |-> number, session |-> session, model |-> model, actual |-> actual,
     shown |-> shown, messages |-> messages, over |-> FALSE]

StatusInit ==
    /\ config \in Config
    /\ model = NoModel
    /\ resolution = ObservationOnly(<<"none", None>>, "")
    /\ threshold = 0
    /\ usage = NoUsage /\ counters = Counters(NoUsage)
    /\ estimate = 0 /\ awaiting = FALSE
    /\ session = None
    /\ request = [Request(0, Unset, Unset, <<>>) EXCEPT !.over = TRUE]
    /\ measured = [request |-> 0, session |-> None, by |-> NoModel, prompt |-> Unset]
    /\ lastStatus = 0

\* _clear_usage
ClearUsage ==
    /\ usage' = NoUsage /\ counters' = Counters(NoUsage)
    /\ estimate' = 0 /\ awaiting' = FALSE

KeepUsage == UNCHANGED <<usage, counters, estimate, awaiting>>

\* Plausible bug: the policy is resolved again only for another model.
ResolveOnSwitch(new) ==
    IF new.name = model.name /\ new.provider = model.provider THEN resolution
    ELSE Resolve(config, new.name, new.provider, new.limit)

ResolveNow(new) == Resolve(config, new.name, new.provider, new.limit)

\* update_model
UpdateModel(new) ==
    /\ model' = new
    /\ resolution' = ResolveNow(new)
    /\ threshold' = OrZero(resolution'.emergency)
    /\ IF model # NoModel /\ (new.name # model.name \/ new.provider # model.provider)
         THEN ClearUsage ELSE KeepUsage
    /\ UNCHANGED <<config, session, historyVars>>

InFlight == ~request.over

\* on_session_start; the emergency half is in EmergencyCompression. Hermes
\* changes the session between requests, the model even while it makes one.
StartSession(s) ==
    /\ ~InFlight
    /\ session' = s
    /\ IF s # session THEN ClearUsage ELSE KeepUsage
    /\ UNCHANGED <<config, model, resolution, threshold, historyVars>>

\* on_session_reset; Hermes' base class clears its counters (external).
ResetSession ==
    /\ ~InFlight
    /\ session' = None
    /\ ClearUsage
    /\ UNCHANGED <<config, model, resolution, threshold, historyVars>>

\* Plausible bug: the usage of a request that was never answered is not missed.
UsageKept == usage

\* if self._awaiting_usage: self._clear_usage()
UsageAtSelection == IF awaiting THEN NoUsage ELSE usage

CanSelect == ~InFlight /\ request.number < MaxRequests[config]

\* select_context, down to _finalize_selection.
SelectContext(history) ==
    LET result == AppendRuntimeStatus(history, model.limit)
        number == request.number + 1
    IN  /\ CanSelect
        /\ usage' = UsageAtSelection
        /\ counters' = IF awaiting THEN Counters(NoUsage) ELSE counters
        /\ estimate' = result.estimate
        /\ awaiting' = TRUE
        /\ request' = Request(number, usage'.prompt, result.shown, result.messages)
        /\ lastStatus' = number
        /\ UNCHANGED <<config, model, resolution, threshold, session, measured>>

\* Rendering raised, and raised again for the bounded context: the request goes
\* out without a status.
SelectContextFails ==
    /\ CanSelect
    /\ usage' = UsageAtSelection
    /\ counters' = IF awaiting THEN Counters(NoUsage) ELSE counters
    /\ estimate' = IF awaiting THEN 0 ELSE estimate
    /\ awaiting' = FALSE
    /\ request' = Request(request.number + 1, Unset, Unset, <<>>)
    /\ UNCHANGED <<config, model, resolution, threshold, session, measured, lastStatus>>

\* update_from_response: the answer to the request in flight. When Hermes has
\* changed the model meanwhile (a fallback), the new one has answered it.
UpdateFromResponse(raw) ==
    /\ InFlight
    /\ usage' = FromMapping(raw)
    /\ counters' = Counters(usage')
    /\ awaiting' = FALSE
    /\ request' = [request EXCEPT !.over = TRUE]
    /\ measured' = [request |-> request.number, session |-> session, by |-> model,
                    prompt |-> usage'.prompt]
    /\ UNCHANGED <<config, model, resolution, threshold, estimate, session, lastStatus>>

\* The request fails, or is given up: the engine is not told.
LoseResponse ==
    /\ InFlight
    /\ request' = [request EXCEPT !.over = TRUE]
    /\ UNCHANGED <<config, engineVars, measured, lastStatus>>

StatusNext ==
    \/ \E new \in Metadata : UpdateModel(new)
    \/ \E s \in SessionId : StartSession(s)
    \/ ResetSession
    \/ \E history \in Histories : SelectContext(history)
    \/ SelectContextFails
    \/ \E raw \in Usages : UpdateFromResponse(raw)
    \/ LoseResponse

StatusSpec == StatusInit /\ [][StatusNext]_statusVars

-----------------------------------------------------------------------------
(* Type invariant *)

TokenCount == Nat \cup {Unset}
Usage == [prompt: TokenCount, completion: TokenCount, total: TokenCount]

RuntimeTypeOK ==
    /\ config \in Config
    /\ model \in Metadata \cup {NoModel}
    /\ threshold \in Nat
    /\ {resolution.sweet, resolution.emergency} \subseteq TokenCount
    /\ usage \in Usage /\ counters \in [prompt: Nat, completion: Nat, total: Nat]
    /\ estimate \in Nat /\ awaiting \in BOOLEAN
    /\ session \in SessionId \cup {None}
    /\ lastStatus <= request.number /\ measured.request <= request.number
    /\ request.number <= MaxRequests[config]

-----------------------------------------------------------------------------
(* Safety *)

\* README.md:79-81: "enabled thresholds must be below the active model's context
\* limit, and Emergency must be above the Handoff sweet-zone start". Whatever
\* the settings, and whatever model and limit Hermes has changed to since, the
\* thresholds in force fit the limit in force; with an error there are none.
ThresholdsInOrder ==
    /\ threshold > 0 => threshold < model.limit /\ resolution.sweet < threshold
    /\ resolution.sweet # Unset => resolution.sweet < model.limit
    /\ resolution.error # "" => threshold = 0 /\ resolution.sweet = Unset

\* The entries that apply to a model. "Resolution order is exact model name,
\* longest matching model-name substring, provider, then default_policy."
Entry(tier, length, source, raw) ==
    [tier |-> tier, length |-> length, source |-> source, raw |-> raw]

Entries(name, provider) ==
    {Entry(4, 0, <<"exact", k>>, config.models[k]) : k \in DOMAIN config.models \cap {name}}
    \cup {Entry(3, Length[k], <<"pattern", k>>, config.models[k]) :
             k \in {k \in DOMAIN config.models : <<k, name>> \in Within}}
    \cup {Entry(2, 0, <<"provider", p>>, config.providers[p]) :
             p \in DOMAIN config.providers \cap {provider}}
    \cup {Entry(1, 0, <<"default", None>>, raw) : raw \in {d \in {config.default} : d.kind # "absent"}}

AsSpecific(a, b) == a.tier > b.tier \/ (a.tier = b.tier /\ a.length >= b.length)

GoodThreshold(t, limit) ==
    /\ t.kind \in {"ratio", "absolute_tokens"}
    /\ 0 < t.num
    /\ t.kind = "ratio" => t.num < t.den
    /\ ToTokens(t, limit) < limit

WellFormed(raw, limit) ==
    LET handoff == raw.handoff_enabled = "yes"
        given == raw.emergency
    IN  /\ raw.kind = "mapping" /\ IsBoolean(raw.handoff_enabled)
        /\ handoff <=> raw.sweet_zone.kind # "absent"
        /\ handoff => GoodThreshold(raw.sweet_zone, limit)
        /\ \/ given.kind = "absent" /\ raw.emergency_enabled \in {"absent", "no"}
           \/ /\ given.kind = "mapping" /\ IsBoolean(given.enabled)
              /\ raw.emergency_enabled \in {"absent", given.enabled}
              /\ given.enabled = "no" => given.threshold.kind = "absent"
              /\ given.enabled = "yes" =>
                    /\ GoodThreshold(given.threshold, limit)
                    /\ handoff => ToTokens(raw.sweet_zone, limit) < ToTokens(given.threshold, limit)

InForce(raw, limit) ==
    /\ resolution.sweet =
          IF raw.handoff_enabled = "yes" THEN ToTokens(raw.sweet_zone, limit) ELSE Unset
    /\ threshold = IF EmergencyOn(raw) THEN ToTokens(raw.emergency.threshold, limit) ELSE 0

\* Among the entries that apply, the single most specific one decides, alone:
\* when it is malformed, or two patterns are as specific, no other entry steps
\* in and nothing is enabled; when it is well formed, its thresholds, in tokens
\* of the limit in force, are those in force.
MostSpecificPolicy ==
    LET entries == Entries(model.name, model.provider)
        best == {a \in entries : \A b \in entries : AsSpecific(a, b)}
        enabled == resolution.sweet # Unset \/ threshold > 0
    IN  config.root = "valid" /\ model.limit > 0 =>
            IF Cardinality(best) = 1
              THEN \E a \in best :
                      /\ resolution.source = a.source
                      /\ resolution.error = "" <=> WellFormed(a.raw, model.limit)
                      /\ IF resolution.error = "" THEN InForce(a.raw, model.limit) ELSE ~enabled
              ELSE resolution.source = <<"none", None>> /\ ~enabled

\* README.md:63: the status is at the tail, and the estimate it states is that of
\* the very request it is part of, although its own length depends on the digits
\* of that estimate; a status that was there before is replaced, or it is counted.
EstimateIsOwn ==
    LET all == request.messages
    IN  all # <<>> =>
          /\ Rough(all) = request.shown
          /\ Last(all).status

-----------------------------------------------------------------------------
(* What a step may never do *)

\* A model is unknown until Hermes first names it.
SameModel(a, b) == a = NoModel \/ (a.name = b.name /\ a.provider = b.provider)

\* README.md:72: "Missing Usage is shown as unavailable". A measurement that a
\* request shows was reported for an earlier request of the same session, by
\* the model in force now, and no request with a status was made after that one.
\* (One that could not be given a status does not count.)
UsageIsOfLastRequest ==
    [][request'.number # request.number /\ request'.actual # Unset =>
          /\ measured.prompt = request'.actual
          /\ measured.session = request'.session
          /\ SameModel(measured.by, request'.model)
          /\ measured.request >= lastStatus]_statusVars

=============================================================================
