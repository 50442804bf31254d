------------------------- MODULE RuntimeStatus_proofs -------------------------
(***************************************************************************)
(* What RuntimeStatus promises, for any settings, models, usage mappings    *)
(* and histories: the policy in force is the accepted most specific one and *)
(* its thresholds are in order; a measurement that is shown answers the     *)
(* last request; and the status of a request states that request's own      *)
(* estimate. Each is a part of one inductive invariant, RuntimeInv.         *)
(***************************************************************************)
EXTENDS RuntimeStatus, FiniteSetTheorems, SequenceTheorems, TLAPS

-----------------------------------------------------------------------------
(* Numbers *)

(* The least-number principle, for a set of naturals. *)
LEMMA LeastNumber ==
    ASSUME NEW S, S \subseteq Nat, S # {}
    PROVE  \E n \in S : \A k \in S : n <= k
  <1>1. PICK n \in S : \A k \in S : <<k, n>> \notin OpToRel(<, Nat)
    BY NatLessThanWellFounded, WFMin
  <1>2. ASSUME NEW k \in S PROVE n <= k
    <2>1. <<k, n>> \in Nat \X Nat /\ ~(k < n)
      BY <1>1 DEF OpToRel
    <2> QED  BY <2>1
  <1> QED  BY <1>2

(* Induction over the first numbers, in set form: what is inherited from each
   number to the next holds up to the bound. *)
LEMMA UpTo ==
    ASSUME NEW bound \in Nat, NEW S, 0 \in S,
           \A n \in 1..bound : n - 1 \in S => n \in S
    PROVE  \A n \in 0..bound : n \in S
  <1> DEFINE Missing == {n \in 0..bound : n \notin S}
  <1>1. SUFFICES ASSUME Missing # {} PROVE FALSE
    OBVIOUS
  <1>2. PICK n \in Missing : \A k \in Missing : n <= k
    <2>1. Missing \subseteq Nat
      OBVIOUS
    <2> HIDE DEF Missing
    <2> QED  BY <1>1, <2>1, LeastNumber
  <1>3. n \in 1..bound
    BY <1>2
  <1>4. n - 1 \in 0..bound /\ ~(n <= n - 1)
    BY <1>3
  <1>5. n - 1 \in S
    BY <1>2, <1>4
  <1> QED  BY <1>2, <1>3, <1>5

(* A finite set that is not empty has a member of greatest measure. *)
LEMMA GreatestMeasure ==
    ASSUME NEW S, IsFiniteSet(S), S # {}, NEW f \in [S -> Nat]
    PROVE  \E k \in S : \A l \in S : f[l] <= f[k]
  <1> DEFINE Above(k) == {l \in S : f[l] > f[k]}
             Counts == {Cardinality(Above(k)) : k \in S}
  <1>1. ASSUME NEW k \in S PROVE IsFiniteSet(Above(k)) /\ Cardinality(Above(k)) \in Nat
    BY FS_Subset, FS_CardinalityType
  <1>2. PICK n \in Counts : \A m \in Counts : n <= m
    <2>1. Counts \subseteq Nat /\ Counts # {}
      BY <1>1
    <2> HIDE DEF Counts
    <2> QED  BY <2>1, LeastNumber
  <1>3. PICK k \in S : Cardinality(Above(k)) = n
    BY <1>2
  <1>4. ASSUME NEW l \in S, ~(f[l] <= f[k]) PROVE FALSE
    <2>1. f[l] \in Nat /\ f[k] \in Nat
      OBVIOUS
    <2>2. l \in Above(k) /\ l \notin Above(l)
      BY <1>4, <2>1
    <2>3. Above(l) \subseteq Above(k)
      BY <1>4, <2>1
    <2>4. Cardinality(Above(l)) < Cardinality(Above(k))
      <3>1. /\ Cardinality(Above(l)) <= Cardinality(Above(k))
            /\ Cardinality(Above(k)) = Cardinality(Above(l)) => Above(k) = Above(l)
        BY <1>1, <2>3, FS_Subset
      <3>2. Above(k) # Above(l)
        BY <2>2
      <3>3. Cardinality(Above(k)) \in Nat /\ Cardinality(Above(l)) \in Nat
        BY <1>1
      <3> HIDE DEF Above
      <3> QED  BY <3>1, <3>2, <3>3
    <2>5. n <= Cardinality(Above(l))
      BY <1>2
    <2> QED  BY <1>1, <1>3, <2>4, <2>5
  <1> QED  BY <1>4

(* A quotient of naturals is a natural. *)
LEMMA QuotientType ==
    ASSUME NEW a \in Nat, NEW d \in Nat \ {0}
    PROVE  a \div d \in Nat
  BY SMT

-----------------------------------------------------------------------------
(* Which policies are accepted *)

(* When no check that fails has the empty code, neither has the first one. *)
LEMMA FirstCodeGiven ==
    ASSUME NEW checks, DOMAIN checks \subseteq Nat, Failed(checks) # {},
           \A i \in Failed(checks) : checks[i].code # ""
    PROVE  FirstCode(checks) # ""
  <1>1. \E i \in Failed(checks) : \A j \in Failed(checks) : i <= j
    BY LeastNumber DEF Failed
  <1>2. (CHOOSE i \in Failed(checks) : \A j \in Failed(checks) : i <= j) \in Failed(checks)
    BY <1>1
  <1> QED  BY <1>2 DEF FirstCode

(* The four groups of checks, each as the condition that none of it fails. *)

LEMMA CheckFields ==
    ASSUME NEW fails \in BOOLEAN, NEW code
    PROVE  (Check(fails, code).fails <=> fails) /\ Check(fails, code).code = code
  BY DEF Check

LEMMA ShapePasses ==
    ASSUME NEW raw
    PROVE  /\ \A i \in Failed(ShapeChecks(raw)) : ShapeChecks(raw)[i].code # ""
           /\ Failed(ShapeChecks(raw)) = {}
              <=> /\ raw.kind \notin {"other", "extra_key"}
                  /\ IsBoolean(raw.handoff_enabled)
  <1> DEFINE checks == ShapeChecks(raw)
  <1>1. DOMAIN checks = 1..3
    BY DEF ShapeChecks
  <1>2. /\ checks[1] = Check(raw.kind = "other", "invalid_policy")
        /\ checks[2] = Check(raw.kind = "extra_key", "unknown_policy_key")
        /\ checks[3] = Check(~IsBoolean(raw.handoff_enabled), "invalid_handoff_enabled")
    BY DEF ShapeChecks
  <1>3. /\ checks[1].fails <=> raw.kind = "other"
        /\ checks[2].fails <=> raw.kind = "extra_key"
        /\ checks[3].fails <=> ~IsBoolean(raw.handoff_enabled)
    BY <1>2, CheckFields
  <1>4. /\ checks[1].code # ""
        /\ checks[2].code # ""
        /\ checks[3].code # ""
    BY <1>2, CheckFields
  <1>5. Failed(checks) = {i \in {1, 2, 3} : checks[i].fails}
    BY <1>1 DEF Failed
  <1>6. \A i \in Failed(checks) : checks[i].code # ""
    BY <1>4, <1>5
  <1>7. Failed(checks) = {} <=> ~checks[1].fails /\ ~checks[2].fails /\ ~checks[3].fails
    BY <1>5, Zenon
  <1> QED  BY <1>3, <1>6, <1>7

LEMMA SweetZonePasses ==
    ASSUME NEW raw, NEW limit
    PROVE  /\ \A i \in Failed(SweetZoneChecks(raw, limit)) :
                 SweetZoneChecks(raw, limit)[i].code # ""
           /\ Failed(SweetZoneChecks(raw, limit)) = {}
              <=> /\ raw.handoff_enabled = "yes" =>
                        /\ raw.sweet_zone.kind # "absent"
                        /\ ThresholdError(raw.sweet_zone) = ""
                        /\ ~(ToTokens(raw.sweet_zone, limit) >= limit)
                  /\ raw.handoff_enabled # "yes" => raw.sweet_zone.kind = "absent"
  <1> DEFINE checks == SweetZoneChecks(raw, limit)
             sweet == raw.sweet_zone
             on == raw.handoff_enabled = "yes"
             big == ToTokens(sweet, limit) >= limit
             missing == on /\ sweet.kind = "absent"
             wrong == on /\ ThresholdError(sweet) # ""
             high == on /\ big
             unused == ~on /\ sweet.kind # "absent"
  <1>1. DOMAIN checks = 1..4
    BY DEF SweetZoneChecks
  <1>2. /\ checks[1] = Check(missing, "missing_sweet_zone")
        /\ checks[2] = Check(wrong, ThresholdError(sweet))
        /\ checks[3] = Check(high, "threshold_at_or_above_context_limit")
        /\ checks[4] = Check(unused, "disabled_policy_has_threshold")
    BY DEF SweetZoneChecks
  <1>3. missing \in BOOLEAN /\ wrong \in BOOLEAN /\ high \in BOOLEAN /\ unused \in BOOLEAN
    OBVIOUS
  <1>4. wrong => ThresholdError(sweet) # ""
    OBVIOUS
  <1> HIDE DEF checks, missing, wrong, high, unused
  <1>5. /\ (checks[1].fails <=> missing) /\ checks[1].code # ""
        /\ (checks[2].fails <=> wrong) /\ checks[2].code = ThresholdError(sweet)
        /\ (checks[3].fails <=> high) /\ checks[3].code # ""
        /\ (checks[4].fails <=> unused) /\ checks[4].code # ""
    <2>1. (checks[1].fails <=> missing) /\ checks[1].code # ""
      BY <1>2, <1>3 DEF Check
    <2>2. (checks[2].fails <=> wrong) /\ checks[2].code = ThresholdError(sweet)
      BY <1>2, <1>3 DEF Check
    <2>3. (checks[3].fails <=> high) /\ checks[3].code # ""
      BY <1>2, <1>3 DEF Check
    <2>4. (checks[4].fails <=> unused) /\ checks[4].code # ""
      BY <1>2, <1>3 DEF Check
    <2> QED  BY <2>1, <2>2, <2>3, <2>4
  <1>6. Failed(checks) = {i \in {1, 2, 3, 4} : checks[i].fails}
    BY <1>1 DEF Failed
  <1>7. \A i \in Failed(checks) : checks[i].code # ""
    BY <1>4, <1>5, <1>6
  <1>8. Failed(checks) = {} <=> ~missing /\ ~wrong /\ ~high /\ ~unused
    BY <1>5, <1>6, Zenon
  <1> QED  BY <1>7, <1>8, Zenon DEF checks, missing, wrong, high, unused

LEMMA EmergencyPasses ==
    ASSUME NEW raw, NEW limit
    PROVE  /\ \A i \in Failed(EmergencyChecks(raw, limit)) :
                 EmergencyChecks(raw, limit)[i].code # ""
           /\ Failed(EmergencyChecks(raw, limit)) = {}
              <=> /\ raw.emergency_enabled # "invalid"
                  /\ ~(raw.emergency.kind = "absent" /\ raw.emergency_enabled = "yes")
                  /\ raw.emergency.kind # "other"
                  /\ raw.emergency.kind # "extra_key"
                  /\ raw.emergency.kind # "absent" =>
                        /\ IsBoolean(raw.emergency.enabled)
                        /\ raw.emergency_enabled \in {"absent", raw.emergency.enabled}
                        /\ EmergencyOn(raw) \/ raw.emergency.threshold.kind = "absent"
                  /\ EmergencyOn(raw) =>
                        /\ ThresholdError(raw.emergency.threshold) = ""
                        /\ ~(ToTokens(raw.emergency.threshold, limit) >= limit)
  <1> DEFINE checks == EmergencyChecks(raw, limit)
             given == raw.emergency.kind # "absent"
             alias == raw.emergency_enabled
             enabled == raw.emergency.enabled
             limitOf == raw.emergency.threshold
             on == EmergencyOn(raw)
             invalid == alias = "invalid"
             missing == ~given /\ alias = "yes"
             other == raw.emergency.kind = "other"
             extra == raw.emergency.kind = "extra_key"
             loose == given /\ ~IsBoolean(enabled)
             apart == given /\ alias # "absent" /\ alias # enabled
             unused == given /\ ~on /\ limitOf.kind # "absent"
             wrong == on /\ ThresholdError(limitOf) # ""
             high == on /\ ToTokens(limitOf, limit) >= limit
  <1>1. DOMAIN checks = 1..9
    BY DEF EmergencyChecks
  <1>2. /\ checks[1] = Check(invalid, "invalid_emergency_enabled")
        /\ checks[2] = Check(missing, "missing_emergency_policy")
        /\ checks[3] = Check(other, "invalid_emergency_policy")
        /\ checks[4] = Check(extra, "unknown_emergency_key")
        /\ checks[5] = Check(loose, "invalid_emergency_enabled")
        /\ checks[6] = Check(apart, "conflicting_emergency_enabled")
        /\ checks[7] = Check(unused, "disabled_policy_has_threshold")
        /\ checks[8] = Check(wrong, ThresholdError(limitOf))
        /\ checks[9] = Check(high, "threshold_at_or_above_context_limit")
    BY DEF EmergencyChecks
  <1>3. /\ invalid \in BOOLEAN /\ missing \in BOOLEAN /\ other \in BOOLEAN
        /\ extra \in BOOLEAN /\ loose \in BOOLEAN /\ apart \in BOOLEAN
        /\ unused \in BOOLEAN /\ wrong \in BOOLEAN /\ high \in BOOLEAN
    OBVIOUS
  <1>4. wrong => ThresholdError(limitOf) # ""
    OBVIOUS
  <1> HIDE DEF checks, invalid, missing, other, extra, loose, apart, unused, wrong, high
  <1>5. /\ (checks[1].fails <=> invalid) /\ checks[1].code # ""
        /\ (checks[2].fails <=> missing) /\ checks[2].code # ""
        /\ (checks[3].fails <=> other) /\ checks[3].code # ""
        /\ (checks[4].fails <=> extra) /\ checks[4].code # ""
        /\ (checks[5].fails <=> loose) /\ checks[5].code # ""
        /\ (checks[6].fails <=> apart) /\ checks[6].code # ""
        /\ (checks[7].fails <=> unused) /\ checks[7].code # ""
        /\ (checks[8].fails <=> wrong) /\ checks[8].code = ThresholdError(limitOf)
        /\ (checks[9].fails <=> high) /\ checks[9].code # ""
    <2>1. (checks[1].fails <=> invalid) /\ checks[1].code # ""
      BY <1>2, <1>3 DEF Check
    <2>2. (checks[2].fails <=> missing) /\ checks[2].code # ""
      BY <1>2, <1>3 DEF Check
    <2>3. (checks[3].fails <=> other) /\ checks[3].code # ""
      BY <1>2, <1>3 DEF Check
    <2>4. (checks[4].fails <=> extra) /\ checks[4].code # ""
      BY <1>2, <1>3 DEF Check
    <2>5. (checks[5].fails <=> loose) /\ checks[5].code # ""
      BY <1>2, <1>3 DEF Check
    <2>6. (checks[6].fails <=> apart) /\ checks[6].code # ""
      BY <1>2, <1>3 DEF Check
    <2>7. (checks[7].fails <=> unused) /\ checks[7].code # ""
      BY <1>2, <1>3 DEF Check
    <2>8. (checks[8].fails <=> wrong) /\ checks[8].code = ThresholdError(limitOf)
      BY <1>2, <1>3 DEF Check
    <2>9. (checks[9].fails <=> high) /\ checks[9].code # ""
      BY <1>2, <1>3 DEF Check
    <2> QED  BY <2>1, <2>2, <2>3, <2>4, <2>5, <2>6, <2>7, <2>8, <2>9
  <1>6. Failed(checks) = {i \in {1, 2, 3, 4, 5, 6, 7, 8, 9} : checks[i].fails}
    BY <1>1 DEF Failed
  <1>7. \A i \in Failed(checks) : checks[i].code # ""
    BY <1>4, <1>5, <1>6, Zenon
  <1>8. Failed(checks) = {}
        <=> /\ ~invalid /\ ~missing /\ ~other /\ ~extra /\ ~loose
            /\ ~apart /\ ~unused /\ ~wrong /\ ~high
    BY <1>5, <1>6, Zenon
  <1>9. ~invalid /\ ~missing /\ ~other /\ ~extra /\ ~loose
            /\ ~apart /\ ~unused /\ ~wrong /\ ~high
        <=> /\ alias # "invalid"
            /\ ~(~given /\ alias = "yes")
            /\ raw.emergency.kind # "other"
            /\ raw.emergency.kind # "extra_key"
            /\ given =>
                  /\ IsBoolean(enabled)
                  /\ alias \in {"absent", enabled}
                  /\ on \/ limitOf.kind = "absent"
            /\ on =>
                  /\ ThresholdError(limitOf) = ""
                  /\ ~(ToTokens(limitOf, limit) >= limit)
    BY DEF invalid, missing, other, extra, loose, apart, unused, wrong, high
  <1> QED  BY <1>7, <1>8, <1>9, Zenon DEF checks

LEMMA OrderPasses ==
    ASSUME NEW raw, NEW limit
    PROVE  /\ \A i \in Failed(OrderCheck(raw, limit)) : OrderCheck(raw, limit)[i].code # ""
           /\ Failed(OrderCheck(raw, limit)) = {}
              <=> ~(/\ EmergencyOn(raw) /\ raw.handoff_enabled = "yes"
                    /\ ToTokens(raw.emergency.threshold, limit)
                          <= ToTokens(raw.sweet_zone, limit))
  <1> DEFINE checks == OrderCheck(raw, limit)
             wrong == /\ EmergencyOn(raw) /\ raw.handoff_enabled = "yes"
                      /\ ToTokens(raw.emergency.threshold, limit)
                            <= ToTokens(raw.sweet_zone, limit)
  <1>1. checks = << Check(wrong, "emergency_not_above_sweet_zone") >>
    BY DEF OrderCheck
  <1>2. wrong \in BOOLEAN
    OBVIOUS
  <1> HIDE DEF wrong
  <1>3. DOMAIN checks = {1} /\ checks[1] = Check(wrong, "emergency_not_above_sweet_zone")
    BY <1>1
  <1>4. (checks[1].fails <=> wrong) /\ checks[1].code # ""
    BY <1>2, <1>3, CheckFields, ZenonT(40)
  <1>5. Failed(checks) = {i \in {1} : checks[i].fails}
    BY <1>3, SMTT(30) DEF Failed
  <1>6. \A i \in Failed(checks) : checks[i].code # ""
    BY <1>4, <1>5
  <1>7. Failed(checks) = {} <=> ~wrong
    BY <1>4, <1>5, Zenon
  <1> QED  BY <1>6, <1>7 DEF wrong

LEMMA ToTokensType ==
    ASSUME NEW t \in RawThreshold, NEW limit \in Int
    PROVE  ToTokens(t, limit) \in Int
  <1>1. t.num \in Int /\ t.den \in Nat \ {0}
    BY DEF RawThreshold
  <1>2. limit * t.num \in Int
    BY <1>1
  <1>3. \A a \in Int, d \in Nat \ {0} : a \div d \in Int
    BY SMT
  <1> QED  BY <1>1, <1>2, <1>3 DEF ToTokens

(* What _parse_threshold and _validate_below_context_limit accept. *)
LEMMA GoodThresholdAccepted ==
    ASSUME NEW t \in RawThreshold, NEW limit \in Int
    PROVE  GoodThreshold(t, limit)
           <=> /\ t.kind # "absent"
               /\ ThresholdError(t) = ""
               /\ ~(ToTokens(t, limit) >= limit)
  <1>1. ToTokens(t, limit) \in Int
    BY ToTokensType
  <1>2. t.num \in Int /\ t.den \in Nat
    BY DEF RawThreshold
  <1>3. t.kind \in {"absent", "other", "extra_key", "unknown_type", "ratio", "absolute_tokens"}
    BY DEF RawThreshold
  <1>4. ThresholdError(t) = ""
        <=> /\ t.kind \in {"ratio", "absolute_tokens"}
            /\ 0 < t.num
            /\ t.kind = "ratio" => t.num < t.den
    BY <1>2, <1>3 DEF ThresholdError
  <1>5. ToTokens(t, limit) < limit <=> ~(ToTokens(t, limit) >= limit)
    BY <1>1
  <1>6. ThresholdError(t) = "" => t.kind # "absent"
    BY <1>4
  <1> QED  BY <1>4, <1>5, <1>6, Zenon DEF GoodThreshold

(* A ratio or a count that is accepted is a number of tokens. *)
LEMMA GoodThresholdTokens ==
    ASSUME NEW t \in RawThreshold, NEW limit \in Nat, GoodThreshold(t, limit)
    PROVE  ToTokens(t, limit) \in Nat /\ ToTokens(t, limit) < limit
  <1>1. t.num \in Nat /\ t.den \in Nat \ {0}
    BY DEF RawThreshold, GoodThreshold
  <1>2. limit * t.num \in Nat
    BY <1>1
  <1>3. (limit * t.num) \div t.den \in Nat
    BY <1>1, <1>2, QuotientType
  <1> QED  BY <1>1, <1>3 DEF ToTokens, GoodThreshold

(* The error is empty exactly when no check of any group fails. *)
LEMMA NoErrorNoFailure ==
    ASSUME NEW raw, NEW limit
    PROVE  PolicyErrorOf(raw, limit) = ""
           <=> /\ Failed(ShapeChecks(raw)) = {}
               /\ Failed(SweetZoneChecks(raw, limit)) = {}
               /\ Failed(EmergencyChecks(raw, limit)) = {}
               /\ Failed(OrderCheck(raw, limit)) = {}
  <1> DEFINE groups == << ShapeChecks(raw), SweetZoneChecks(raw, limit),
                          EmergencyChecks(raw, limit), OrderCheck(raw, limit) >>
             bad == {g \in DOMAIN groups : Failed(groups[g]) # {}}
             first == CHOOSE g \in bad : \A h \in bad : g <= h
  <1>1. PolicyErrorOf(raw, limit) = IF bad = {} THEN "" ELSE FirstCode(groups[first])
    BY DEF PolicyErrorOf
  <1>2. /\ DOMAIN groups = {1, 2, 3, 4}
        /\ groups[1] = ShapeChecks(raw)
        /\ groups[2] = SweetZoneChecks(raw, limit)
        /\ groups[3] = EmergencyChecks(raw, limit)
        /\ groups[4] = OrderCheck(raw, limit)
    OBVIOUS
  <1> HIDE DEF groups
  <1>3. bad = {} <=> /\ Failed(ShapeChecks(raw)) = {}
                     /\ Failed(SweetZoneChecks(raw, limit)) = {}
                     /\ Failed(EmergencyChecks(raw, limit)) = {}
                     /\ Failed(OrderCheck(raw, limit)) = {}
    BY <1>2
  <1>4. ASSUME bad # {} PROVE FirstCode(groups[first]) # ""
    <2>1. PICK g \in bad : \A h \in bad : g <= h
      <3>1. bad \subseteq Nat
        BY <1>2
      <3> HIDE DEF bad
      <3> QED  BY <1>4, <3>1, LeastNumber
    <2>2. first \in bad
      BY <2>1
    <2>3. first \in {1, 2, 3, 4} /\ Failed(groups[first]) # {}
      BY <1>2, <2>2
    <2>4. /\ DOMAIN ShapeChecks(raw) \subseteq Nat
          /\ DOMAIN SweetZoneChecks(raw, limit) \subseteq Nat
          /\ DOMAIN EmergencyChecks(raw, limit) \subseteq Nat
          /\ DOMAIN OrderCheck(raw, limit) \subseteq Nat
      BY DEF ShapeChecks, SweetZoneChecks, EmergencyChecks, OrderCheck
    <2>5. /\ DOMAIN groups[first] \subseteq Nat
          /\ \A i \in Failed(groups[first]) : groups[first][i].code # ""
      <3> HIDE DEF first
      <3>1. CASE first = 1
        <4>1. groups[first] = ShapeChecks(raw)
          BY <1>2, <3>1
        <4>2. \A i \in Failed(ShapeChecks(raw)) : ShapeChecks(raw)[i].code # ""
          BY ShapePasses, Zenon
        <4> QED  BY <2>4, <4>1, <4>2
      <3>2. CASE first = 2
        <4>1. groups[first] = SweetZoneChecks(raw, limit)
          BY <1>2, <3>2
        <4>2. \A i \in Failed(SweetZoneChecks(raw, limit)) :
                 SweetZoneChecks(raw, limit)[i].code # ""
          BY SweetZonePasses, Zenon
        <4> QED  BY <2>4, <4>1, <4>2
      <3>3. CASE first = 3
        <4>1. groups[first] = EmergencyChecks(raw, limit)
          BY <1>2, <3>3
        <4>2. \A i \in Failed(EmergencyChecks(raw, limit)) :
                 EmergencyChecks(raw, limit)[i].code # ""
          BY EmergencyPasses, Zenon
        <4> QED  BY <2>4, <4>1, <4>2
      <3>4. CASE first = 4
        <4>1. groups[first] = OrderCheck(raw, limit)
          BY <1>2, <3>4
        <4>2. \A i \in Failed(OrderCheck(raw, limit)) : OrderCheck(raw, limit)[i].code # ""
          BY OrderPasses, Zenon
        <4> QED  BY <2>4, <4>1, <4>2
      <3> QED  BY <2>3, <3>1, <3>2, <3>3, <3>4
    <2> HIDE DEF first
    <2> QED  BY <2>3, <2>5, FirstCodeGiven
  <1> HIDE DEF bad, first
  <1> QED  BY <1>1, <1>3, <1>4

(* _parse_policy accepts what is well formed, and nothing else. *)
LEMMA AcceptedIsWellFormed ==
    ASSUME NEW raw \in Entered, NEW limit \in Int
    PROVE  PolicyErrorOf(raw, limit) = "" <=> WellFormed(raw, limit)
  <1> DEFINE given == raw.emergency
             handoff == raw.handoff_enabled = "yes"
  <1>1. /\ raw.kind \in {"other", "extra_key", "mapping"}
        /\ raw.handoff_enabled \in Switch /\ raw.emergency_enabled \in Switch
        /\ raw.sweet_zone \in RawThreshold /\ given \in RawEmergency
    BY DEF Entered, RawPolicy
  <1>2. /\ given.kind \in {"absent", "other", "extra_key", "mapping"}
        /\ given.enabled \in Switch /\ given.threshold \in RawThreshold
    BY <1>1 DEF RawEmergency
  <1>3. /\ ToTokens(raw.sweet_zone, limit) \in Int
        /\ ToTokens(given.threshold, limit) \in Int
    BY <1>1, <1>2, ToTokensType
  <1>4. GoodThreshold(raw.sweet_zone, limit)
        <=> /\ raw.sweet_zone.kind # "absent"
            /\ ThresholdError(raw.sweet_zone) = ""
            /\ ~(ToTokens(raw.sweet_zone, limit) >= limit)
    BY <1>1, GoodThresholdAccepted
  <1>5. GoodThreshold(given.threshold, limit)
        <=> /\ given.threshold.kind # "absent"
            /\ ThresholdError(given.threshold) = ""
            /\ ~(ToTokens(given.threshold, limit) >= limit)
    BY <1>2, GoodThresholdAccepted
  <1>6. given.threshold.kind = "absent" => ThresholdError(given.threshold) # ""
    BY DEF ThresholdError
  <1>7. PolicyErrorOf(raw, limit) = ""
        <=> /\ Failed(ShapeChecks(raw)) = {}
            /\ Failed(SweetZoneChecks(raw, limit)) = {}
            /\ Failed(EmergencyChecks(raw, limit)) = {}
            /\ Failed(OrderCheck(raw, limit)) = {}
    BY NoErrorNoFailure
  <1>8. Failed(ShapeChecks(raw)) = {} /\ Failed(SweetZoneChecks(raw, limit)) = {}
        <=> /\ raw.kind = "mapping" /\ IsBoolean(raw.handoff_enabled)
            /\ handoff <=> raw.sweet_zone.kind # "absent"
            /\ handoff => GoodThreshold(raw.sweet_zone, limit)
    BY <1>1, <1>4, ShapePasses, SweetZonePasses
  <1> DEFINE on == EmergencyOn(raw)
             high == ToTokens(given.threshold, limit)
             low == ToTokens(raw.sweet_zone, limit)
             alias == raw.emergency_enabled
             fits == GoodThreshold(given.threshold, limit)
  <1>9. on <=> given.kind # "absent" /\ given.enabled = "yes"
    BY DEF EmergencyOn
  <1>10. Failed(EmergencyChecks(raw, limit)) = {}
         <=> /\ alias # "invalid"
             /\ ~(given.kind = "absent" /\ alias = "yes")
             /\ given.kind # "other"
             /\ given.kind # "extra_key"
             /\ given.kind # "absent" =>
                   /\ given.enabled \in {"yes", "no"}
                   /\ alias \in {"absent", given.enabled}
                   /\ on \/ given.threshold.kind = "absent"
             /\ on => fits
    <2> HIDE DEF on, fits
    <2>1. on => (fits <=> /\ ThresholdError(given.threshold) = ""
                          /\ ~(high >= limit))
      BY <1>5, <1>6 DEF fits
    <2> QED  BY <2>1, EmergencyPasses DEF IsBoolean, on
  <1>11. Failed(OrderCheck(raw, limit)) = {} <=> (on /\ handoff => low < high)
    <2>1. high <= low <=> ~(low < high)
      BY <1>3
    <2> QED  BY <2>1, OrderPasses
  <1>12. WellFormed(raw, limit)
         <=> /\ Failed(ShapeChecks(raw)) = {} /\ Failed(SweetZoneChecks(raw, limit)) = {}
             /\ \/ given.kind = "absent" /\ alias \in {"absent", "no"}
                \/ /\ given.kind = "mapping" /\ given.enabled \in {"yes", "no"}
                   /\ alias \in {"absent", given.enabled}
                   /\ given.enabled = "no" => given.threshold.kind = "absent"
                   /\ given.enabled = "yes" => fits /\ (handoff => low < high)
    <2> HIDE DEF fits, low, high
    <2> QED  BY <1>8 DEF WellFormed, IsBoolean, fits, low, high
  <1> HIDE DEF on, fits, low, high, handoff
  <1>13. given.kind = "absent" \/ given.kind \in {"other", "extra_key", "mapping"}
    BY <1>2
  <1> QED  BY <1>1, <1>2, <1>7, <1>9, <1>10, <1>11, <1>12, <1>13 DEF Switch

-----------------------------------------------------------------------------
(* Which entry applies *)

SettingsOK == config \in Config

(* The settings are those the parser accepts. *)
LEMMA SettingsAreConfig ==
    ASSUME SettingsOK
    PROVE  IsConfig(config)
  BY RuntimeAssumption DEF SettingsOK

Matching(name) == {k \in DOMAIN config.models : <<k, name>> \in Within}
PatternEntry(k) == Entry(3, Length[k], <<"pattern", k>>, config.models[k])

(* The patterns that match, and the longest of them. *)
LEMMA LongestExists ==
    ASSUME SettingsOK, NEW name
    PROVE  LET longest == LongestMatching(config, name)
           IN  /\ longest \subseteq Matching(name) /\ IsFiniteSet(longest)
               /\ Cardinality(longest) \in Nat
               /\ longest = {} => Matching(name) = {}
               /\ \A k \in Matching(name) : k \in Key /\ Length[k] \in Nat
  <1> DEFINE longest == LongestMatching(config, name)
             matching == Matching(name)
  <1>1. DOMAIN config.models \subseteq Key /\ IsFiniteSet(DOMAIN config.models)
    BY SettingsAreConfig DEF IsConfig
  <1>2. longest \subseteq matching /\ matching \subseteq DOMAIN config.models
    BY DEF LongestMatching, Matching
  <1>3. IsFiniteSet(matching) /\ IsFiniteSet(longest)
    BY <1>1, <1>2, FS_Subset
  <1>4. Cardinality(longest) \in Nat
    BY <1>3, FS_CardinalityType
  <1>5. \A k \in matching : k \in Key /\ Length[k] \in Nat
    BY <1>1, <1>2, KeyAssumption
  <1>6. ASSUME matching # {} PROVE longest # {}
    <2> DEFINE f == [k \in matching |-> Length[k]]
    <2>1. f \in [matching -> Nat]
      BY <1>5
    <2>2. PICK k \in matching : \A l \in matching : f[l] <= f[k]
      <3> HIDE DEF f, matching
      <3> QED  BY <1>3, <1>6, <2>1, GreatestMeasure
    <2>3. \A l \in matching : Length[l] <= Length[k]
      BY <2>2
    <2>4. k \in longest
      BY <2>3 DEF LongestMatching, Matching
    <2> QED  BY <2>4
  <1> QED  BY <1>2, <1>3, <1>4, <1>5, <1>6

(* What _select_candidate returns is an entry, or none. *)
LEMMA CandidateType ==
    ASSUME SettingsOK, NEW name, NEW provider
    PROVE  LET candidate == Candidate(config, name, provider)
           IN  \/ candidate.error # ""
               \/ candidate.raw.kind = "absent"
               \/ candidate.raw \in Entered
  <1> DEFINE longest == LongestMatching(config, name)
             key == CHOOSE k \in longest : TRUE
             candidate == Candidate(config, name, provider)
  <1>1. /\ \A k \in DOMAIN config.models : config.models[k] \in Entered
        /\ \A p \in DOMAIN config.providers : config.providers[p] \in Entered
        /\ config.default \in RawPolicy
    BY SettingsAreConfig DEF IsConfig
  <1>2. longest # {} => key \in DOMAIN config.models
    BY DEF LongestMatching
  <1>3. config.default.kind # "absent" => config.default \in Entered
    BY <1>1 DEF Entered
  <1> HIDE DEF longest, key
  <1>4. \/ candidate.raw = config.models[name] /\ name \in DOMAIN config.models
        \/ candidate.error = "ambiguous_model_pattern"
        \/ candidate.raw = config.models[key] /\ longest # {}
        \/ candidate.raw = config.providers[provider] /\ provider \in DOMAIN config.providers
        \/ candidate.raw = config.default /\ config.default.kind # "absent"
        \/ candidate.raw = NoPolicy
    BY DEF Candidate, longest, key
  <1>5. NoPolicy.kind = "absent" /\ "ambiguous_model_pattern" # ""
    BY DEF NoPolicy
  <1> HIDE DEF candidate
  <1> QED  BY <1>1, <1>2, <1>3, <1>4, <1>5 DEF candidate

(* What resolve returns: an accepted entry's thresholds, or none at all. *)
LEMMA ResolveShape ==
    ASSUME SettingsOK, NEW name, NEW provider, NEW limit \in Int
    PROVE  LET candidate == Candidate(config, name, provider)
               raw == candidate.raw
               resolved == Resolve(config, name, provider, limit)
           IN  \/ resolved.sweet = Unset /\ resolved.emergency = Unset
               \/ /\ raw \in Entered /\ limit \in Nat /\ WellFormed(raw, limit)
                  /\ resolved = Resolution(candidate.source, "",
                        IF raw.handoff_enabled = "yes" THEN ToTokens(raw.sweet_zone, limit)
                          ELSE Unset,
                        IF EmergencyOn(raw) THEN ToTokens(raw.emergency.threshold, limit)
                          ELSE Unset)
  <1> DEFINE candidate == Candidate(config, name, provider)
             raw == candidate.raw
             resolved == Resolve(config, name, provider, limit)
             accepted == Resolution(candidate.source, "",
                 IF raw.handoff_enabled = "yes" THEN ToTokens(raw.sweet_zone, limit) ELSE Unset,
                 IF EmergencyOn(raw) THEN ToTokens(raw.emergency.threshold, limit) ELSE Unset)
  <1>1. \/ candidate.error # "" \/ raw.kind = "absent" \/ raw \in Entered
    BY CandidateType
  <1>2. \A source, error : /\ ObservationOnly(source, error).sweet = Unset
                           /\ ObservationOnly(source, error).emergency = Unset
    BY DEF ObservationOnly, Resolution
  <1>3. \/ \E source, error : resolved = ObservationOnly(source, error)
        \/ /\ ~(limit <= 0) /\ candidate.error = "" /\ raw.kind # "absent"
           /\ PolicyErrorOf(raw, limit) = "" /\ resolved = accepted
    <2> HIDE DEF candidate, accepted
    <2> QED  BY DEF Resolve, candidate, accepted
  <1> HIDE DEF candidate, resolved, accepted
  <1>4. CASE \E source, error : resolved = ObservationOnly(source, error)
    BY <1>2, <1>4 DEF resolved
  <1>5. CASE /\ ~(limit <= 0) /\ candidate.error = "" /\ raw.kind # "absent"
             /\ PolicyErrorOf(raw, limit) = "" /\ resolved = accepted
    <2>1. raw \in Entered
      BY <1>1, <1>5, Zenon
    <2>3. ~(limit <= 0)
      BY <1>5, Zenon
    <2> limit \in Nat
      BY <2>3
    <2>2. WellFormed(raw, limit)
      BY <1>5, <2>1, AcceptedIsWellFormed
    <2> QED  BY <1>5, <2>1, <2>2 DEF candidate, resolved, accepted
  <1> QED  BY <1>3, <1>4, <1>5

(* The error of a resolution, the source and the policy it comes with, when the
   settings and the limit are usable. *)
LEMMA ResolveOutcome ==
    ASSUME SettingsOK, NEW name, NEW provider, NEW limit \in Int,
           config.root = "valid", limit > 0
    PROVE  LET candidate == Candidate(config, name, provider)
               raw == candidate.raw
               resolved == Resolve(config, name, provider, limit)
               sweet == IF raw.handoff_enabled = "yes" THEN ToTokens(raw.sweet_zone, limit)
                        ELSE Unset
               emergency == IF EmergencyOn(raw) THEN ToTokens(raw.emergency.threshold, limit)
                            ELSE Unset
           IN  /\ resolved.source = candidate.source
               /\ candidate.error = "" /\ raw.kind # "absent" =>
                     /\ resolved.error = PolicyErrorOf(raw, limit)
                     /\ resolved.error = "" =>
                           resolved.sweet = sweet /\ resolved.emergency = emergency
               /\ candidate.error # "" \/ raw.kind = "absent" \/ resolved.error # "" =>
                     resolved.sweet = Unset /\ resolved.emergency = Unset
  <1> DEFINE candidate == Candidate(config, name, provider)
             raw == candidate.raw
             resolved == Resolve(config, name, provider, limit)
             sweet == IF raw.handoff_enabled = "yes" THEN ToTokens(raw.sweet_zone, limit)
                      ELSE Unset
             emergency == IF EmergencyOn(raw) THEN ToTokens(raw.emergency.threshold, limit)
                          ELSE Unset
  <1>1. resolved = IF candidate.error # "" \/ raw.kind = "absent"
                     THEN ObservationOnly(candidate.source, candidate.error)
                   ELSE IF PolicyErrorOf(raw, limit) # ""
                     THEN ObservationOnly(candidate.source, PolicyErrorOf(raw, limit))
                   ELSE Resolution(candidate.source, "", sweet, emergency)
    <2>1. ~(limit <= 0)
      OBVIOUS
    <2> QED  BY <2>1 DEF Resolve
  <1> HIDE DEF raw, resolved, sweet, emergency
  <1>2. /\ resolved.source = candidate.source
        /\ candidate.error = "" /\ raw.kind # "absent" =>
              /\ resolved.error = PolicyErrorOf(raw, limit)
              /\ resolved.error = "" =>
                    resolved.sweet = sweet /\ resolved.emergency = emergency
        /\ candidate.error # "" \/ raw.kind = "absent" \/ resolved.error # "" =>
              resolved.sweet = Unset /\ resolved.emergency = Unset
    <2> HIDE DEF candidate
    <2>1. CASE candidate.error # "" \/ raw.kind = "absent"
      <3>1. resolved = ObservationOnly(candidate.source, candidate.error)
        BY <1>1, <2>1
      <3>2. /\ resolved.source = candidate.source
            /\ resolved.sweet = Unset /\ resolved.emergency = Unset
        BY <3>1 DEF ObservationOnly, Resolution
      <3> QED  BY <2>1, <3>2
    <2>2. CASE /\ candidate.error = "" /\ raw.kind # "absent"
               /\ PolicyErrorOf(raw, limit) # ""
      <3>1. resolved = ObservationOnly(candidate.source, PolicyErrorOf(raw, limit))
        BY <1>1, <2>2
      <3>2. /\ resolved.source = candidate.source
            /\ resolved.error = PolicyErrorOf(raw, limit)
            /\ resolved.sweet = Unset /\ resolved.emergency = Unset
        BY <3>1 DEF ObservationOnly, Resolution
      <3> QED  BY <2>2, <3>2
    <2>3. CASE /\ candidate.error = "" /\ raw.kind # "absent"
               /\ PolicyErrorOf(raw, limit) = ""
      <3>1. resolved = Resolution(candidate.source, "", sweet, emergency)
        BY <1>1, <2>3
      <3>2. /\ resolved.source = candidate.source /\ resolved.error = ""
            /\ resolved.sweet = sweet /\ resolved.emergency = emergency
        BY <3>1 DEF Resolution
      <3> QED  BY <2>3, <3>2
    <2> QED  BY <2>1, <2>2, <2>3
  <1> QED  BY <1>2, Zenon DEF raw, resolved, sweet, emergency

(* The thresholds that resolve returns fit the limit, and their order. *)
LEMMA ResolvedInOrder ==
    ASSUME SettingsOK, NEW name, NEW provider, NEW limit \in Int
    PROVE  LET resolved == Resolve(config, name, provider, limit)
               high == OrZero(resolved.emergency)
           IN  /\ resolved.sweet \in TokenCount /\ resolved.emergency \in TokenCount
               /\ high \in Nat
               /\ high > 0 => high < limit /\ resolved.sweet < high
               /\ resolved.sweet # Unset => resolved.sweet < limit
               /\ resolved.error # "" => high = 0 /\ resolved.sweet = Unset
  <1> DEFINE candidate == Candidate(config, name, provider)
             raw == candidate.raw
             resolved == Resolve(config, name, provider, limit)
             high == OrZero(resolved.emergency)
             given == raw.emergency.threshold
             sweet == IF raw.handoff_enabled = "yes" THEN ToTokens(raw.sweet_zone, limit)
                      ELSE Unset
             emergency == IF EmergencyOn(raw) THEN ToTokens(given, limit) ELSE Unset
  <1>1. CASE resolved.sweet = Unset /\ resolved.emergency = Unset
    <2> HIDE DEF resolved
    <2> QED  BY <1>1 DEF OrZero, Unset, TokenCount, resolved
  <1>2. CASE /\ raw \in Entered /\ limit \in Nat /\ WellFormed(raw, limit)
             /\ resolved = Resolution(candidate.source, "", sweet, emergency)
    <2>1. resolved.sweet = sweet /\ resolved.emergency = emergency /\ resolved.error = ""
      <3> HIDE DEF resolved, sweet, emergency, candidate
      <3> QED  BY <1>2 DEF Resolution
    <2>2. raw.sweet_zone \in RawThreshold /\ given \in RawThreshold
      BY <1>2 DEF Entered, RawPolicy, RawEmergency
    <2>3. /\ raw.handoff_enabled = "yes" => GoodThreshold(raw.sweet_zone, limit)
          /\ EmergencyOn(raw) => GoodThreshold(given, limit)
          /\ EmergencyOn(raw) /\ raw.handoff_enabled = "yes" =>
                ToTokens(raw.sweet_zone, limit) < ToTokens(given, limit)
      BY <1>2 DEF WellFormed, EmergencyOn
    <2>4. raw.handoff_enabled = "yes" =>
             ToTokens(raw.sweet_zone, limit) \in Nat /\ ToTokens(raw.sweet_zone, limit) < limit
      BY <1>2, <2>2, <2>3, GoodThresholdTokens
    <2>5. EmergencyOn(raw) => ToTokens(given, limit) \in Nat /\ ToTokens(given, limit) < limit
      BY <1>2, <2>2, <2>3, GoodThresholdTokens
    <2>6. /\ sweet \in TokenCount /\ emergency \in TokenCount
          /\ sweet # Unset => sweet < limit
          /\ emergency # Unset => emergency < limit
          /\ emergency # Unset => sweet < emergency
      <3> HIDE DEF raw, given
      <3> QED  BY <2>3, <2>4, <2>5 DEF Unset, TokenCount
    <2>7. /\ resolved.sweet \in TokenCount /\ resolved.emergency \in TokenCount
          /\ high \in Nat
          /\ high > 0 => high < limit /\ resolved.sweet < high
          /\ resolved.sweet # Unset => resolved.sweet < limit
      <3> HIDE DEF resolved, sweet, emergency
      <3>1. limit \in Nat
        BY <1>2, Zenon
      <3>2. \A a \in TokenCount, b \in TokenCount :
               /\ OrZero(b) \in Nat
               /\ OrZero(b) > 0 => b # Unset /\ OrZero(b) = b
        BY DEF OrZero, Unset, TokenCount
      <3>3. high = OrZero(emergency)
        BY <2>1
      <3> HIDE DEF high
      <3> QED  BY <2>1, <2>6, <3>1, <3>2, <3>3
    <2> HIDE DEF high, resolved
    <2> QED  BY <2>1, <2>7 DEF high, resolved
  <1> QED  BY <1>1, <1>2, ResolveShape

(* The most specific of the entries that apply. *)
Best(name, provider) ==
    {a \in Entries(name, provider) : \A b \in Entries(name, provider) : AsSpecific(a, b)}

(* The entries that apply, by their tier. *)
LEMMA EntryTiers ==
    ASSUME SettingsOK, NEW name, NEW provider, NEW a
    PROVE  a \in Entries(name, provider)
           <=> \/ /\ name \in DOMAIN config.models
                  /\ a = Entry(4, 0, <<"exact", name>>, config.models[name])
               \/ \E k \in Matching(name) : a = PatternEntry(k)
               \/ /\ provider \in DOMAIN config.providers
                  /\ a = Entry(2, 0, <<"provider", provider>>, config.providers[provider])
               \/ /\ config.default.kind # "absent"
                  /\ a = Entry(1, 0, <<"default", None>>, config.default)
  BY DEF Entries, Matching, PatternEntry

LEMMA EntryFields ==
    ASSUME NEW tier, NEW length, NEW source, NEW raw
    PROVE  /\ Entry(tier, length, source, raw).tier = tier
           /\ Entry(tier, length, source, raw).length = length
           /\ Entry(tier, length, source, raw).source = source
           /\ Entry(tier, length, source, raw).raw = raw
  BY DEF Entry

(* An entry that is strictly more specific than every other one is the best. *)
LEMMA BestAlone ==
    ASSUME NEW name, NEW provider, NEW a \in Entries(name, provider),
           a.tier \in Nat, a.length \in Nat,
           \A b \in Entries(name, provider) : b # a => b.tier \in Nat /\ b.tier < a.tier
    PROVE  Best(name, provider) = {a} /\ Cardinality(Best(name, provider)) = 1
  <1>1. \A b \in Entries(name, provider) : AsSpecific(a, b)
    BY DEF AsSpecific
  <1>2. \A b \in Entries(name, provider) : b # a => ~AsSpecific(b, a)
    BY DEF AsSpecific
  <1>3. Best(name, provider) = {a}
    BY <1>1, <1>2 DEF Best
  <1> QED  BY <1>3, FS_Singleton

(* When patterns match and no exact name does, the longest patterns are best. *)
LEMMA BestPatterns ==
    ASSUME SettingsOK, NEW name, NEW provider,
           name \notin DOMAIN config.models, Matching(name) # {}
    PROVE  LET longest == LongestMatching(config, name)
           IN  /\ Best(name, provider) = {PatternEntry(k) : k \in longest}
               /\ Cardinality(Best(name, provider)) = Cardinality(longest)
  <1> DEFINE longest == LongestMatching(config, name)
             entries == Entries(name, provider)
             best == Best(name, provider)
  <1>1. /\ longest \subseteq Matching(name) /\ IsFiniteSet(longest) /\ longest # {}
        /\ \A k \in Matching(name) : k \in Key /\ Length[k] \in Nat
    BY LongestExists
  <1>2. \A k : /\ PatternEntry(k).tier = 3 /\ PatternEntry(k).length = Length[k]
               /\ PatternEntry(k).source = <<"pattern", k>>
               /\ PatternEntry(k).raw = config.models[k]
    BY EntryFields DEF PatternEntry
  <1>3. \A k \in Matching(name) : PatternEntry(k) \in entries
    BY EntryTiers
  <1>4. ASSUME NEW a \in entries
        PROVE  (\E k \in Matching(name) : a = PatternEntry(k)) \/ a.tier \in {1, 2}
    <2>1. \/ \E k \in Matching(name) : a = PatternEntry(k)
          \/ a = Entry(2, 0, <<"provider", provider>>, config.providers[provider])
          \/ a = Entry(1, 0, <<"default", None>>, config.default)
      BY EntryTiers
    <2> QED  BY <2>1, EntryFields
  <1>5. \A k \in longest : \A l \in Matching(name) : Length[l] <= Length[k]
    BY DEF LongestMatching, Matching
  <1>6. \A k \in Matching(name) :
           (\A l \in Matching(name) : Length[l] <= Length[k]) => k \in longest
    BY DEF LongestMatching, Matching
  <1> HIDE DEF longest, entries
  <1>7. ASSUME NEW k \in longest PROVE PatternEntry(k) \in best
    <2>1. ASSUME NEW b \in entries PROVE AsSpecific(PatternEntry(k), b)
      <3>1. CASE b.tier \in {1, 2}
        BY <1>2, <3>1 DEF AsSpecific
      <3>2. ASSUME NEW l \in Matching(name), b = PatternEntry(l)
            PROVE  AsSpecific(PatternEntry(k), b)
        BY <1>1, <1>2, <1>5, <3>2 DEF AsSpecific
      <3> QED  BY <1>4, <3>1, <3>2
    <2> QED  BY <1>1, <1>3, <2>1 DEF Best, entries
  <1>8. ASSUME NEW a \in best PROVE \E k \in longest : a = PatternEntry(k)
    <2>1. a \in entries /\ \A b \in entries : AsSpecific(a, b)
      BY DEF Best, entries
    <2>2. PICK l \in longest : TRUE
      BY <1>1
    <2>3. AsSpecific(a, PatternEntry(l))
      BY <1>1, <1>3, <2>1
    <2>4. a.tier \notin {1, 2}
      BY <1>2, <2>3 DEF AsSpecific
    <2>5. PICK k \in Matching(name) : a = PatternEntry(k)
      BY <1>4, <2>1, <2>4
    <2>6. \A m \in Matching(name) : Length[m] <= Length[k]
      BY <1>1, <1>2, <1>3, <2>1, <2>5 DEF AsSpecific
    <2> QED  BY <1>6, <2>5, <2>6
  <1>9. best = {PatternEntry(k) : k \in longest}
    BY <1>7, <1>8
  <1>10. Cardinality(best) = Cardinality(longest)
    <2> DEFINE f == [k \in longest |-> PatternEntry(k)]
    <2>1. f \in Surjection(longest, best)
      BY <1>9 DEF Surjection
    <2>2. \A k, l \in longest : f[k] = f[l] => k = l
      <3>1. ASSUME NEW k \in longest, NEW l \in longest, f[k] = f[l]
            PROVE  k = l
        <4>1. PatternEntry(k).source = PatternEntry(l).source
          BY <3>1
        <4>2. <<"pattern", k>> = <<"pattern", l>>
          BY <1>2, <4>1
        <4> QED  BY <4>2
      <3> QED  BY <3>1
    <2>3. f \in Injection(longest, best)
      <3>1. f \in [longest -> best] /\ DOMAIN f = longest
        BY <2>1 DEF Surjection
      <3> QED  BY <2>2, <3>1 DEF Injection, IsInjective
    <2> HIDE DEF f, best
    <2> QED  BY <1>1, <2>1, <2>3, FS_Surjection
  <1> QED  BY <1>9, <1>10 DEF longest

(* _select_candidate takes the single most specific entry, when there is one. *)
LEMMA CandidateIsBest ==
    ASSUME SettingsOK, NEW name, NEW provider
    PROVE  LET best == Best(name, provider)
               candidate == Candidate(config, name, provider)
           IN  IF Cardinality(best) = 1
                 THEN \E a \in best :
                         /\ candidate.source = a.source /\ candidate.raw = a.raw
                         /\ candidate.error = "" /\ a.raw \in Entered
                 ELSE /\ candidate.source = <<"none", None>>
                      /\ candidate.error # "" \/ candidate.raw.kind = "absent"
  <1> DEFINE best == Best(name, provider)
             candidate == Candidate(config, name, provider)
             longest == LongestMatching(config, name)
             key == CHOOSE k \in longest : TRUE
             exact == Entry(4, 0, <<"exact", name>>, config.models[name])
             byProvider == Entry(2, 0, <<"provider", provider>>, config.providers[provider])
             byDefault == Entry(1, 0, <<"default", None>>, config.default)
             entries == Entries(name, provider)
  <1>1. /\ longest \subseteq Matching(name) /\ IsFiniteSet(longest)
        /\ Cardinality(longest) \in Nat
        /\ longest = {} => Matching(name) = {}
    BY LongestExists
  <1>2. /\ \A k \in DOMAIN config.models : config.models[k] \in Entered
        /\ \A p \in DOMAIN config.providers : config.providers[p] \in Entered
        /\ config.default.kind # "absent" => config.default \in Entered
    BY SettingsAreConfig DEF IsConfig, Entered
  <1>3. Matching(name) \subseteq DOMAIN config.models
    BY DEF Matching
  <1>4. CASE name \in DOMAIN config.models
    <2>1. exact \in entries
      BY <1>4, EntryTiers
    <2>2. ASSUME NEW b \in entries, b # exact
          PROVE  b.tier \in Nat /\ b.tier < exact.tier
      <3>1. \/ \E k \in Matching(name) : b = PatternEntry(k)
            \/ b = byProvider \/ b = byDefault
        BY <2>2, EntryTiers
      <3>2. /\ \A k : PatternEntry(k).tier = 3
            /\ byProvider.tier = 2 /\ byDefault.tier = 1 /\ exact.tier = 4
        BY EntryFields DEF PatternEntry
      <3> HIDE DEF byProvider, byDefault, exact
      <3>3. b.tier \in {1, 2, 3} /\ exact.tier = 4
        BY <3>1, <3>2
      <3> QED  BY <3>3
    <2>3. exact.tier = 4 /\ exact.length = 0
      BY EntryFields
    <2>4. best = {exact} /\ Cardinality(best) = 1
      <3> HIDE DEF exact
      <3>1. exact \in Entries(name, provider)
        BY <2>1
      <3>2. \A b \in Entries(name, provider) :
               b # exact => b.tier \in Nat /\ b.tier < exact.tier
        BY <2>2
      <3> QED  BY <2>3, <3>1, <3>2, BestAlone
    <2>5. /\ candidate.source = <<"exact", name>> /\ candidate.raw = config.models[name]
          /\ candidate.error = ""
      BY <1>4 DEF Candidate
    <2>6. exact.source = <<"exact", name>> /\ exact.raw = config.models[name]
      BY EntryFields
    <2> HIDE DEF exact, best, candidate
    <2> QED  BY <1>2, <1>4, <2>4, <2>5, <2>6 DEF best, candidate
  <1>5. CASE name \notin DOMAIN config.models /\ Matching(name) # {}
    <2>1. /\ best = {PatternEntry(k) : k \in longest}
          /\ Cardinality(best) = Cardinality(longest)
      BY <1>5, BestPatterns
    <2>2. longest # {} /\ key \in longest /\ Cardinality(longest) # 0
      BY <1>1, <1>5, FS_EmptySet
    <2>3. CASE Cardinality(longest) > 1
      <3>1. /\ candidate.source = <<"none", None>>
            /\ candidate.error = "ambiguous_model_pattern"
        BY <1>5, <2>3 DEF Candidate
      <3>2. Cardinality(best) # 1
        BY <1>1, <2>1, <2>3
      <3> HIDE DEF best, candidate
      <3> QED  BY <3>1, <3>2 DEF best, candidate
    <2>4. CASE ~(Cardinality(longest) > 1)
      <3>1. Cardinality(best) = 1
        BY <1>1, <2>1, <2>2, <2>4
      <3>2. /\ candidate.source = <<"pattern", key>> /\ candidate.raw = config.models[key]
            /\ candidate.error = ""
        BY <1>5, <2>2, <2>4 DEF Candidate
      <3>3. PatternEntry(key) \in best
        BY <2>1, <2>2
      <3>4. /\ PatternEntry(key).source = <<"pattern", key>>
            /\ PatternEntry(key).raw = config.models[key]
        BY EntryFields DEF PatternEntry
      <3>5. config.models[key] \in Entered
        BY <1>1, <1>2, <1>3, <2>2
      <3> HIDE DEF best, candidate, key
      <3> QED  BY <3>1, <3>2, <3>3, <3>4, <3>5 DEF best, candidate
    <2> QED  BY <2>3, <2>4
  <1>6. CASE name \notin DOMAIN config.models /\ Matching(name) = {}
    <2>1. longest = {} /\ Cardinality(longest) = 0
      BY <1>1, <1>6, FS_EmptySet
    <2>2. ~(Cardinality(longest) > 1)
      BY <2>1
    <2>3. CASE provider \in DOMAIN config.providers
      <3>1. byProvider \in entries /\ \A b \in entries : b # byProvider => b = byDefault
        BY <1>6, <2>3, EntryTiers
      <3>2. /\ byProvider.tier = 2 /\ byProvider.length = 0 /\ byDefault.tier = 1
            /\ byProvider.source = <<"provider", provider>>
            /\ byProvider.raw = config.providers[provider]
        BY EntryFields
      <3>3. best = {byProvider} /\ Cardinality(best) = 1
        <4> HIDE DEF byProvider, byDefault
        <4>1. byProvider \in Entries(name, provider)
          BY <3>1
        <4>2. \A b \in Entries(name, provider) :
                 b # byProvider => b.tier \in Nat /\ b.tier < byProvider.tier
          BY <3>1, <3>2
        <4> QED  BY <3>2, <4>1, <4>2, BestAlone
      <3>4. /\ candidate.source = <<"provider", provider>>
            /\ candidate.raw = config.providers[provider] /\ candidate.error = ""
        BY <1>6, <2>1, <2>2, <2>3 DEF Candidate
      <3> HIDE DEF best, candidate, byProvider
      <3> QED  BY <1>2, <2>3, <3>2, <3>3, <3>4 DEF best, candidate
    <2>4. CASE provider \notin DOMAIN config.providers /\ config.default.kind # "absent"
      <3>1. byDefault \in entries /\ \A b \in entries : b = byDefault
        BY <1>6, <2>4, EntryTiers
      <3>2. /\ byDefault.tier = 1 /\ byDefault.length = 0
            /\ byDefault.source = <<"default", None>> /\ byDefault.raw = config.default
        BY EntryFields
      <3>3. best = {byDefault} /\ Cardinality(best) = 1
        <4> HIDE DEF byDefault
        <4>1. byDefault \in Entries(name, provider)
          BY <3>1
        <4>2. \A b \in Entries(name, provider) :
                 b # byDefault => b.tier \in Nat /\ b.tier < byDefault.tier
          BY <3>1
        <4> QED  BY <3>2, <4>1, <4>2, BestAlone
      <3>4. /\ candidate.source = <<"default", None>>
            /\ candidate.raw = config.default /\ candidate.error = ""
        BY <1>6, <2>1, <2>2, <2>4 DEF Candidate
      <3> HIDE DEF best, candidate, byDefault
      <3> QED  BY <1>2, <2>4, <3>2, <3>3, <3>4 DEF best, candidate
    <2>5. CASE provider \notin DOMAIN config.providers /\ config.default.kind = "absent"
      <3>1. entries = {}
        BY <1>6, <2>5, EntryTiers
      <3>2. Cardinality(best) # 1
        <4>1. best = {}
          BY <3>1 DEF Best
        <4> QED  BY <4>1, FS_EmptySet
      <3>3. candidate.source = <<"none", None>> /\ candidate.raw = NoPolicy
        BY <1>6, <2>1, <2>2, <2>5 DEF Candidate
      <3>4. candidate.raw.kind = "absent"
        BY <3>3 DEF NoPolicy
      <3> HIDE DEF best, candidate
      <3> QED  BY <3>2, <3>3, <3>4 DEF best, candidate
    <2> QED  BY <2>3, <2>4, <2>5
  <1> QED  BY <1>4, <1>5, <1>6

-----------------------------------------------------------------------------
(* The policy in force. *)

(* The inductive invariant of the policy: what is in force is what resolve
   returns for the model in force, or nothing while Hermes has named no model.
   Only update_model writes it, and it writes all of it. *)
PolicyInv ==
    /\ SettingsOK
    /\ \/ /\ model = NoModel
          /\ resolution = ObservationOnly(<<"none", None>>, "")
          /\ threshold = 0
       \/ /\ model \in Metadata
          /\ resolution = Resolve(config, model.name, model.provider, model.limit)
          /\ threshold = OrZero(resolution.emergency)

LEMMA PolicyInvInit == StatusInit => PolicyInv
  BY DEF StatusInit, PolicyInv, SettingsOK

LEMMA PolicyInvStep == PolicyInv /\ [StatusNext]_statusVars => PolicyInv'
  <1> SUFFICES ASSUME PolicyInv, [StatusNext]_statusVars
               PROVE  PolicyInv'
    OBVIOUS
  <1>1. CASE \E new \in Metadata : UpdateModel(new)
    <2>1. PICK new \in Metadata : UpdateModel(new)
      BY <1>1
    <2>2. /\ config' = config /\ model' = new
          /\ resolution' = Resolve(config, new.name, new.provider, new.limit)
          /\ threshold' = OrZero(resolution'.emergency)
      BY <2>1 DEF UpdateModel, ResolveNow
    <2> QED  BY <2>2 DEF PolicyInv, SettingsOK
  <1>2. CASE ~(\E new \in Metadata : UpdateModel(new))
    <2>1. UNCHANGED <<config, model, resolution, threshold>>
      <3>1. CASE UNCHANGED statusVars
        BY <3>1 DEF statusVars, engineVars
      <3>2. CASE StatusNext
        BY <1>2, <3>2 DEF StatusNext, StartSession, ResetSession, SelectContext,
           SelectContextFails, UpdateFromResponse, LoseResponse, engineVars
      <3> QED  BY <3>1, <3>2
    <2> QED  BY <2>1 DEF PolicyInv, SettingsOK
  <1> QED  BY <1>1, <1>2

(* A model in force is one that Hermes reports, or the unknown one. *)
LEMMA ModelInForce ==
    ASSUME PolicyInv
    PROVE  /\ model \in Metadata \cup {NoModel} /\ model.limit \in Int
           /\ model = NoModel => model.limit = 0
  <1>1. NoModel.limit = 0
    BY DEF NoModel
  <1>2. model = NoModel \/ model \in Metadata
    BY DEF PolicyInv
  <1>3. \A m \in Metadata : m.limit \in Int
    BY RuntimeAssumption
  <1> QED  BY <1>1, <1>2, <1>3

LEMMA InOrderFromPolicy == PolicyInv => ThresholdsInOrder
  <1> SUFFICES ASSUME PolicyInv PROVE ThresholdsInOrder
    OBVIOUS
  <1>1. CASE /\ model = NoModel /\ threshold = 0
             /\ resolution = ObservationOnly(<<"none", None>>, "")
    <2>1. resolution.sweet = Unset /\ resolution.error = ""
      BY <1>1 DEF ObservationOnly, Resolution
    <2>2. threshold = 0
      BY <1>1, Zenon
    <2>3. ~(threshold > 0)
      BY <2>2
    <2> QED  BY <2>1, <2>2, <2>3, Zenon DEF ThresholdsInOrder
  <1>2. CASE /\ model \in Metadata
             /\ resolution = Resolve(config, model.name, model.provider, model.limit)
             /\ threshold = OrZero(resolution.emergency)
    <2>1. model.limit \in Int /\ SettingsOK
      BY ModelInForce DEF PolicyInv
    <2>2. /\ threshold \in Nat
          /\ threshold > 0 => threshold < model.limit /\ resolution.sweet < threshold
          /\ resolution.sweet # Unset => resolution.sweet < model.limit
          /\ resolution.error # "" => threshold = 0 /\ resolution.sweet = Unset
      BY <1>2, <2>1, ResolvedInOrder
    <2> QED  BY <2>2 DEF ThresholdsInOrder
  <1> QED  BY <1>1, <1>2 DEF PolicyInv

(* Whatever the settings, and whatever models and limits Hermes has changed to,
   the thresholds in force fit the limit in force and are in order, and with an
   error there are none (policy.py resolve, context_engine.py update_model). *)
THEOREM ThresholdsInOrderHolds == StatusSpec => []ThresholdsInOrder
  <1>1. StatusSpec => []PolicyInv
    BY PolicyInvInit, PolicyInvStep, PTL DEF StatusSpec
  <1> QED  BY <1>1, InOrderFromPolicy, PTL

LEMMA MostSpecificFromPolicy == PolicyInv => MostSpecificPolicy
  <1> SUFFICES ASSUME PolicyInv, config.root = "valid", model.limit > 0
               PROVE  MostSpecificPolicy
    BY DEF MostSpecificPolicy
  <1> DEFINE entries == Entries(model.name, model.provider)
             best == {a \in entries : \A b \in entries : AsSpecific(a, b)}
             candidate == Candidate(config, model.name, model.provider)
             enabled == resolution.sweet # Unset \/ threshold > 0
  <1>1. /\ model \in Metadata /\ model.limit \in Int /\ SettingsOK
        /\ resolution = Resolve(config, model.name, model.provider, model.limit)
        /\ threshold = OrZero(resolution.emergency)
    <2>1. model # NoModel /\ model.limit \in Int
      BY ModelInForce
    <2> QED  BY <2>1 DEF PolicyInv
  <1> DEFINE raw == candidate.raw
             sweet(r) == IF r.handoff_enabled = "yes" THEN ToTokens(r.sweet_zone, model.limit)
                         ELSE Unset
             emergency(r) ==
                 IF EmergencyOn(r) THEN ToTokens(r.emergency.threshold, model.limit) ELSE Unset
  <1>2. /\ resolution.source = candidate.source
        /\ candidate.error = "" /\ raw.kind # "absent" =>
              /\ resolution.error = PolicyErrorOf(raw, model.limit)
              /\ resolution.error = "" =>
                    resolution.sweet = sweet(raw) /\ resolution.emergency = emergency(raw)
        /\ candidate.error # "" \/ raw.kind = "absent" \/ resolution.error # "" =>
              resolution.sweet = Unset /\ resolution.emergency = Unset
    <2> DEFINE resolved == Resolve(config, model.name, model.provider, model.limit)
    <2>1. /\ resolved.source = candidate.source
          /\ candidate.error = "" /\ raw.kind # "absent" =>
                /\ resolved.error = PolicyErrorOf(raw, model.limit)
                /\ resolved.error = "" =>
                      resolved.sweet = sweet(raw) /\ resolved.emergency = emergency(raw)
          /\ candidate.error # "" \/ raw.kind = "absent" \/ resolved.error # "" =>
                resolved.sweet = Unset /\ resolved.emergency = Unset
      BY <1>1, ResolveOutcome, Zenon
    <2> HIDE DEF resolved, candidate, raw, sweet, emergency
    <2>2. resolution = resolved
      BY <1>1 DEF resolved
    <2> QED  BY <2>1, <2>2
  <1>3. IF Cardinality(best) = 1
          THEN \E a \in best :
                  /\ candidate.source = a.source /\ candidate.raw = a.raw
                  /\ candidate.error = "" /\ a.raw \in Entered
          ELSE /\ candidate.source = <<"none", None>>
               /\ candidate.error # "" \/ candidate.raw.kind = "absent"
    BY <1>1, CandidateIsBest DEF Best
  <1> HIDE DEF best, candidate, sweet, emergency
  <1>4. CASE Cardinality(best) = 1
    <2>1. PICK a \in best :
             /\ candidate.source = a.source /\ candidate.raw = a.raw
             /\ candidate.error = "" /\ a.raw \in Entered
      BY <1>3, <1>4
    <2>2. a.raw.kind # "absent"
      BY <2>1 DEF Entered
    <2>3. resolution.error = PolicyErrorOf(a.raw, model.limit)
      BY <1>2, <2>1, <2>2
    <2>4. resolution.error = "" <=> WellFormed(a.raw, model.limit)
      BY <1>1, <2>1, <2>3, AcceptedIsWellFormed
    <2>5. IF resolution.error = "" THEN InForce(a.raw, model.limit) ELSE ~enabled
      <3>1. CASE resolution.error = ""
        <4>1. resolution.sweet = sweet(a.raw) /\ resolution.emergency = emergency(a.raw)
          BY <1>2, <2>1, <2>2, <3>1
        <4>2. EmergencyOn(a.raw) => ToTokens(a.raw.emergency.threshold, model.limit) \in Nat
          <5>1. WellFormed(a.raw, model.limit)
            BY <2>4, <3>1, Zenon
          <5>4. model.limit \in Nat
            BY <1>1
          <5>2. a.raw.emergency.threshold \in RawThreshold
            BY <2>1 DEF Entered, RawPolicy, RawEmergency
          <5>3. EmergencyOn(a.raw) => GoodThreshold(a.raw.emergency.threshold, model.limit)
            BY <5>1 DEF WellFormed, EmergencyOn
          <5> QED  BY <5>2, <5>3, <5>4, GoodThresholdTokens
        <4>3. threshold = IF EmergencyOn(a.raw)
                            THEN ToTokens(a.raw.emergency.threshold, model.limit) ELSE 0
          <5>1. threshold = OrZero(emergency(a.raw))
            BY <1>1, <4>1
          <5>2. \A n \in Nat : n # Unset
            BY DEF Unset
          <5> QED  BY <4>2, <5>1, <5>2 DEF OrZero, emergency
        <4>4. InForce(a.raw, model.limit)
          BY <4>1, <4>3, Zenon DEF InForce, sweet
        <4> QED  BY <3>1, <4>4, Zenon
      <3>2. CASE resolution.error # ""
        <4>1. resolution.sweet = Unset /\ resolution.emergency = Unset
          BY <1>2, <3>2
        <4>2. threshold = 0
          BY <1>1, <4>1 DEF OrZero
        <4>3. ~enabled
          BY <4>1, <4>2
        <4> QED  BY <3>2, <4>3, Zenon
      <3> QED  BY <3>1, <3>2
    <2> HIDE DEF enabled
    <2>6. \E b \in best :
             /\ resolution.source = b.source
             /\ resolution.error = "" <=> WellFormed(b.raw, model.limit)
             /\ IF resolution.error = "" THEN InForce(b.raw, model.limit) ELSE ~enabled
      BY <1>2, <2>1, <2>4, <2>5, Zenon
    <2> QED  BY <1>4, <2>6, Zenon DEF MostSpecificPolicy, best, enabled
  <1>5. CASE Cardinality(best) # 1
    <2>1. resolution.source = <<"none", None>>
      BY <1>2, <1>3, <1>5
    <2>2. resolution.sweet = Unset /\ resolution.emergency = Unset
      BY <1>2, <1>3, <1>5
    <2>3. ~enabled
      BY <1>1, <2>2 DEF OrZero
    <2> QED  BY <1>5, <2>1, <2>3 DEF MostSpecificPolicy, best
  <1> QED  BY <1>4, <1>5

(* Of the entries that apply to a model the single most specific one decides,
   alone: accepted exactly when it is well formed, and then with its thresholds,
   and nothing enabled when it is malformed or when two are as specific (policy.py
   _select_candidate and _parse_policy). *)
THEOREM MostSpecificPolicyHolds == StatusSpec => []MostSpecificPolicy
  <1>1. StatusSpec => []PolicyInv
    BY PolicyInvInit, PolicyInvStep, PTL DEF StatusSpec
  <1> QED  BY <1>1, MostSpecificFromPolicy, PTL

-----------------------------------------------------------------------------
(* Lengths of sequences of messages *)

(* A function that holds the partial sums of the lengths. *)
PartialSums(messages, f) ==
    /\ f \in [0..Len(messages) -> Nat]
    /\ f[0] = 0
    /\ \A n \in 1..Len(messages) : f[n] = f[n - 1] + messages[n].chars

LEMMA MessageLengths ==
    ASSUME NEW messages \in Seq(Message)
    PROVE  /\ Len(messages) \in Nat
           /\ \A n \in 1..Len(messages) : messages[n].chars \in Nat
  <1>1. \A n \in 1..Len(messages) : messages[n] \in Message
    OBVIOUS
  <1>2. \A m \in Message : m.chars \in Nat
    BY DEF Message
  <1> QED  BY <1>1, <1>2

LEMMA PartialSumsExist ==
    ASSUME NEW messages \in Seq(Message)
    PROVE  \E f : PartialSums(messages, f)
  <1> DEFINE upTo(k, f) == /\ f \in [0..k -> Nat]
                           /\ f[0] = 0
                           /\ \A n \in 1..k : f[n] = f[n - 1] + messages[n].chars
             S == {k \in 0..Len(messages) : \E f : upTo(k, f)}
  <1>1. Len(messages) \in Nat /\ \A n \in 1..Len(messages) : messages[n].chars \in Nat
    BY MessageLengths
  <1>2. 0 \in S
    <2>1. upTo(0, [n \in 0..0 |-> 0])
      OBVIOUS
    <2> HIDE DEF upTo
    <2> QED  BY <1>1, <2>1
  <1>3. ASSUME NEW k \in 1..Len(messages), k - 1 \in S PROVE k \in S
    <2>1. PICK f : upTo(k - 1, f)
      BY <1>3
    <2> DEFINE g == [n \in 0..k |-> IF n = k THEN f[k - 1] + messages[k].chars ELSE f[n]]
    <2>2. k \in Nat /\ k # 0 /\ k - 1 \in 0..(k - 1) /\ f[k - 1] \in Nat
      BY <1>3, <2>1
    <2>3. g \in [0..k -> Nat]
      <3>1. ASSUME NEW n \in 0..k PROVE (IF n = k THEN f[k - 1] + messages[k].chars ELSE f[n]) \in Nat
        <4>1. CASE n = k
          BY <1>1, <2>2, <4>1
        <4>2. CASE n # k
          <5>1. n \in 0..(k - 1)
            BY <4>2
          <5> QED  BY <2>1, <4>2, <5>1
        <4> QED  BY <4>1, <4>2
      <3> QED  BY <3>1
    <2>4. g[0] = 0
      BY <2>1, <2>2
    <2>5. ASSUME NEW n \in 1..k PROVE g[n] = g[n - 1] + messages[n].chars
      <3>1. n \in 0..k /\ n - 1 \in 0..k /\ n - 1 # k
        OBVIOUS
      <3>2. g[n - 1] = f[n - 1]
        BY <3>1
      <3>3. CASE n = k
        BY <3>1, <3>2, <3>3
      <3>4. CASE n # k
        <4>1. n \in 1..(k - 1)
          BY <3>4
        <4> QED  BY <2>1, <3>1, <3>2, <3>4, <4>1
      <3> QED  BY <3>3, <3>4
    <2>6. upTo(k, g)
      BY <2>3, <2>4, <2>5
    <2> HIDE DEF upTo, g
    <2> QED  BY <1>1, <2>6
  <1> HIDE DEF S
  <1>4. Len(messages) \in S
    <2>1. \A k \in 0..Len(messages) : k \in S
      BY <1>1, <1>2, <1>3, UpTo
    <2> QED  BY <1>1, <2>1
  <1> QED  BY <1>4 DEF S, PartialSums

LEMMA PartialSumsUnique ==
    ASSUME NEW messages \in Seq(Message), NEW f, NEW g,
           PartialSums(messages, f), PartialSums(messages, g)
    PROVE  f[Len(messages)] = g[Len(messages)]
  <1> DEFINE S == {k \in 0..Len(messages) : f[k] = g[k]}
  <1>1. Len(messages) \in Nat
    OBVIOUS
  <1>2. 0 \in S
    BY <1>1 DEF PartialSums
  <1>3. ASSUME NEW k \in 1..Len(messages), k - 1 \in S PROVE k \in S
    <2>1. f[k - 1] = g[k - 1] /\ k \in 0..Len(messages)
      BY <1>1, <1>3
    <2>2. /\ f[k] = f[k - 1] + messages[k].chars
          /\ g[k] = g[k - 1] + messages[k].chars
      BY DEF PartialSums
    <2> QED  BY <2>1, <2>2
  <1> HIDE DEF S
  <1>4. Len(messages) \in S
    <2>1. \A k \in 0..Len(messages) : k \in S
      BY <1>1, <1>2, <1>3, UpTo
    <2> QED  BY <1>1, <2>1
  <1> QED  BY <1>4 DEF S

(* TotalChars is the last partial sum. *)
LEMMA TotalIsLastSum ==
    ASSUME NEW messages \in Seq(Message), NEW f, PartialSums(messages, f)
    PROVE  TotalChars(messages) = f[Len(messages)]
  <1> DEFINE next(s, n) == IF n = 0 THEN 0 ELSE s[n - 1] + messages[n].chars
             sum == CHOOSE s : s = [n \in 0..Len(messages) |-> next(s, n)]
             S == {k \in 0..Len(messages) : sum[k] \in Nat}
  <1>1. Len(messages) \in Nat /\ \A n \in 1..Len(messages) : messages[n].chars \in Nat
    BY MessageLengths
  <1>2. f = [n \in 0..Len(messages) |-> next(f, n)]
    <2>1. ASSUME NEW n \in 0..Len(messages) PROVE f[n] = next(f, n)
      BY <1>1 DEF PartialSums
    <2> QED  BY <2>1 DEF PartialSums
  <1>3. sum = [n \in 0..Len(messages) |-> next(sum, n)]
    <2> HIDE DEF next
    <2> QED  BY <1>2
  <1>4. TotalChars(messages) = sum[Len(messages)]
    BY DEF TotalChars
  <1> HIDE DEF sum
  <1>5. /\ sum[0] = 0
        /\ \A n \in 1..Len(messages) : sum[n] = sum[n - 1] + messages[n].chars
    BY <1>1, <1>3
  <1>6. \A n \in 0..Len(messages) : sum[n] \in Nat
    <2>1. 0 \in S
      BY <1>1, <1>5
    <2>2. ASSUME NEW k \in 1..Len(messages), k - 1 \in S PROVE k \in S
      <3>1. sum[k - 1] \in Nat
        BY <2>2
      <3>2. sum[k] = sum[k - 1] + messages[k].chars /\ messages[k].chars \in Nat
        BY <1>1, <1>5
      <3>3. k \in 0..Len(messages)
        BY <1>1
      <3> QED  BY <3>1, <3>2, <3>3
    <2> HIDE DEF S
    <2>3. \A n \in 0..Len(messages) : n \in S
      BY <1>1, <2>1, <2>2, UpTo
    <2> QED  BY <2>3 DEF S
  <1>7. PartialSums(messages, sum)
    BY <1>3, <1>5, <1>6 DEF PartialSums
  <1> QED  BY <1>4, <1>7, PartialSumsUnique

LEMMA TotalCharsType ==
    ASSUME NEW messages \in Seq(Message)
    PROVE  TotalChars(messages) \in Nat
  <1>1. PICK f : PartialSums(messages, f)
    BY PartialSumsExist
  <1>2. f[Len(messages)] \in Nat
    BY <1>1 DEF PartialSums
  <1> QED  BY <1>1, <1>2, TotalIsLastSum

(* A message that is added adds its length. *)
LEMMA TotalOfAppend ==
    ASSUME NEW messages \in Seq(Message), NEW m \in Message
    PROVE  TotalChars(Append(messages, m)) = TotalChars(messages) + m.chars
  <1> DEFINE n == Len(messages)
             longer == Append(messages, m)
  <1>1. PICK f : PartialSums(messages, f)
    BY PartialSumsExist
  <1> DEFINE g == [k \in 0..(n + 1) |-> IF k = n + 1 THEN f[n] + m.chars ELSE f[k]]
  <1>2. /\ n \in Nat /\ m.chars \in Nat /\ longer \in Seq(Message) /\ Len(longer) = n + 1
        /\ longer[n + 1] = m /\ \A k \in 1..n : longer[k] = messages[k]
    BY DEF Message
  <1>3. f \in [0..n -> Nat] /\ f[0] = 0 /\ \A k \in 1..n : f[k] = f[k - 1] + messages[k].chars
    BY <1>1 DEF PartialSums
  <1> HIDE DEF n, longer
  <1>4. g \in [0..(n + 1) -> Nat]
    <2>1. ASSUME NEW k \in 0..(n + 1) PROVE (IF k = n + 1 THEN f[n] + m.chars ELSE f[k]) \in Nat
      <3>1. CASE k = n + 1
        BY <1>2, <1>3, <3>1
      <3>2. CASE k # n + 1
        <4>1. k \in 0..n
          BY <1>2, <3>2
        <4> QED  BY <1>3, <3>2, <4>1
      <3> QED  BY <3>1, <3>2
    <2> QED  BY <2>1
  <1>5. g[0] = 0
    BY <1>2, <1>3
  <1>6. ASSUME NEW k \in 1..(n + 1) PROVE g[k] = g[k - 1] + longer[k].chars
    <2>1. k \in 0..(n + 1) /\ k - 1 \in 0..(n + 1) /\ k - 1 # n + 1
      BY <1>2
    <2>2. g[k - 1] = f[k - 1]
      BY <2>1
    <2>3. CASE k = n + 1
      BY <1>2, <2>1, <2>2, <2>3
    <2>4. CASE k # n + 1
      <3>1. k \in 1..n
        BY <1>2, <2>4
      <3> QED  BY <1>2, <1>3, <2>1, <2>2, <2>4, <3>1
    <2> QED  BY <2>3, <2>4
  <1>7. g[n + 1] = f[n] + m.chars
    BY <1>2
  <1> HIDE DEF g
  <1>8. PartialSums(longer, g)
    BY <1>2, <1>4, <1>5, <1>6 DEF PartialSums
  <1>9. TotalChars(longer) = g[n + 1] /\ TotalChars(messages) = f[n]
    BY <1>1, <1>2, <1>8, TotalIsLastSum DEF n
  <1> QED  BY <1>7, <1>9 DEF longer

-----------------------------------------------------------------------------
(* The estimate that settles *)

(* Quotients do not fall when the dividend grows. *)
LEMMA QuotientGrows ==
    ASSUME NEW a \in Int, NEW b \in Int, NEW d \in Nat \ {0}, a <= b
    PROVE  a \div d <= b \div d
  BY SMT

LEMMA PowersOfTenCount ==
    IsFiniteSet(PowersOfTen) /\ Cardinality(PowersOfTen) <= 9
  <1> DEFINE powers == << 10, 100, 1000, 10000, 100000, 1000000, 10000000, 100000000,
                          1000000000 >>
             f == [i \in 1..9 |-> powers[i]]
  <1>1. /\ f[1] = 10 /\ f[2] = 100 /\ f[3] = 1000 /\ f[4] = 10000 /\ f[5] = 100000
        /\ f[6] = 1000000 /\ f[7] = 10000000 /\ f[8] = 100000000 /\ f[9] = 1000000000
    OBVIOUS
  <1>2. DOMAIN f = 1..9 /\ f = [i \in 1..9 |-> f[i]]
    OBVIOUS
  <1> HIDE DEF f
  <1>3. 1..9 = {1, 2, 3, 4, 5, 6, 7, 8, 9}
    OBVIOUS
  <1>4. \A i \in 1..9 : f[i] \in PowersOfTen
    BY <1>1, <1>3 DEF PowersOfTen
  <1>5. \A p \in PowersOfTen : \E i \in 1..9 : f[i] = p
    BY <1>1, <1>3 DEF PowersOfTen
  <1>6. f \in Surjection(1..9, PowersOfTen)
    BY <1>2, <1>4, <1>5 DEF Surjection
  <1>7. IsFiniteSet(1..9) /\ ExistsSurjection(1..9, PowersOfTen)
    <2>1. \A b \in Int : IsFiniteSet(1..b)
      BY FS_Interval
    <2>2. IsFiniteSet(1..9)
      <3>1. 9 \in Int
        OBVIOUS
      <3> QED  BY <2>1, <3>1, Zenon
    <2>3. ExistsSurjection(1..9, PowersOfTen)
      BY <1>6, Zenon DEF ExistsSurjection
    <2> QED  BY <2>2, <2>3
  <1>8. IsFiniteSet(PowersOfTen)
    BY <1>6, <1>7, FS_Surjection
  <1> QED  BY <1>7, <1>8, FS_SurjCardinalityBound

(* A number has 1 to 10 digits, and a larger one no fewer. *)
LEMMA DigitsBounded ==
    ASSUME NEW n \in Int
    PROVE  Digits(n) \in 1..10
  <1> DEFINE below == {power \in PowersOfTen : n >= power}
  <1>1. below \subseteq PowersOfTen
    OBVIOUS
  <1>2. IsFiniteSet(below) /\ Cardinality(below) <= Cardinality(PowersOfTen)
    BY <1>1, PowersOfTenCount, FS_Subset
  <1>3. Cardinality(below) \in Nat /\ Cardinality(PowersOfTen) \in Nat
    BY <1>2, PowersOfTenCount, FS_CardinalityType
  <1>4. Digits(n) = 1 + Cardinality(below)
    BY DEF Digits
  <1> HIDE DEF below
  <1> QED  BY <1>2, <1>3, <1>4, PowersOfTenCount

LEMMA DigitsGrow ==
    ASSUME NEW m \in Int, NEW n \in Int, m <= n
    PROVE  Digits(m) <= Digits(n)
  <1> DEFINE below(k) == {power \in PowersOfTen : k >= power}
  <1>1. below(m) \subseteq below(n)
    BY DEF PowersOfTen
  <1>2. IsFiniteSet(below(m)) /\ IsFiniteSet(below(n))
    BY PowersOfTenCount, FS_Subset
  <1>3. Cardinality(below(m)) <= Cardinality(below(n))
    BY <1>1, <1>2, FS_Subset
  <1>4. Cardinality(below(m)) \in Nat /\ Cardinality(below(n)) \in Nat
    BY <1>2, FS_CardinalityType
  <1>5. Digits(m) = 1 + Cardinality(below(m)) /\ Digits(n) = 1 + Cardinality(below(n))
    BY DEF Digits
  <1> HIDE DEF below
  <1> QED  BY <1>3, <1>4, <1>5

(* The status takes at most 30 characters, and no fewer for a larger estimate. *)
LEMMA StatusCharsBounded ==
    ASSUME NEW e \in Nat, NEW limit \in Int
    PROVE  StatusChars(e, limit) \in Nat /\ StatusChars(e, limit) <= 30
  <1>1. Digits(e) \in 1..10
    BY DigitsBounded
  <1>2. limit > 0 => Digits((100 * e) \div limit) \in 1..10
    <2>1. limit > 0 => (100 * e) \div limit \in Nat
      <3>1. 100 * e \in Nat
        OBVIOUS
      <3> QED  BY <3>1, QuotientType
    <2> QED  BY <2>1, DigitsBounded
  <1> QED  BY <1>1, <1>2 DEF StatusChars, FixedChars

LEMMA StatusCharsGrow ==
    ASSUME NEW d \in Nat, NEW e \in Nat, NEW limit \in Int, d <= e
    PROVE  StatusChars(d, limit) <= StatusChars(e, limit)
  <1>1. Digits(d) \in 1..10 /\ Digits(e) \in 1..10 /\ Digits(d) <= Digits(e)
    BY DigitsBounded, DigitsGrow
  <1>2. CASE limit > 0
    <2> DEFINE a == (100 * d) \div limit
               b == (100 * e) \div limit
    <2>1. 100 * d \in Nat /\ 100 * e \in Nat /\ 100 * d <= 100 * e /\ limit \in Nat \ {0}
      BY <1>2
    <2>2. a \in Nat /\ b \in Nat /\ a <= b
      BY <2>1, QuotientType, QuotientGrows
    <2>3. StatusChars(d, limit) = FixedChars + Digits(d) + Digits(a)
      BY <1>2 DEF StatusChars
    <2>4. StatusChars(e, limit) = FixedChars + Digits(e) + Digits(b)
      BY <1>2 DEF StatusChars
    <2> HIDE DEF a, b
    <2>5. Digits(a) \in 1..10 /\ Digits(b) \in 1..10 /\ Digits(a) <= Digits(b)
      BY <2>2, DigitsBounded, DigitsGrow
    <2> QED  BY <1>1, <2>3, <2>4, <2>5 DEF FixedChars
  <1>3. CASE ~(limit > 0)
    BY <1>1, <1>3 DEF StatusChars, FixedChars
  <1> QED  BY <1>2, <1>3

(* One round of the loop: the estimate with a status that states e. *)
LEMMA RoundEstimate ==
    ASSUME NEW base \in Seq(Message), NEW limit \in Int, NEW e \in Nat
    PROVE  /\ StatusMessage(e, limit) \in Message
           /\ Rough(Append(base, StatusMessage(e, limit)))
                 = (TotalChars(base) + StatusChars(e, limit)) \div 2
           /\ Rough(Append(base, StatusMessage(e, limit))) \in Nat
  <1> DEFINE m == StatusMessage(e, limit)
  <1>1. StatusChars(e, limit) \in Nat
    BY StatusCharsBounded
  <1>2. m \in Message /\ m.chars = StatusChars(e, limit)
    BY <1>1 DEF StatusMessage, Message
  <1>3. TotalChars(Append(base, m)) = TotalChars(base) + StatusChars(e, limit)
    BY <1>2, TotalOfAppend
  <1>4. TotalChars(base) \in Nat
    BY TotalCharsType
  <1>5. TotalChars(base) + StatusChars(e, limit) \in Nat
    BY <1>1, <1>4
  <1> HIDE DEF m
  <1>6. Rough(Append(base, m)) = (TotalChars(base) + StatusChars(e, limit)) \div 2
    BY <1>3 DEF Rough, CharsPerToken
  <1> QED  BY <1>2, <1>5, <1>6, QuotientType DEF m

(* The rounds of the loop exist: a function that holds the estimate after each. *)
Estimates(base, limit, f) ==
    /\ f \in [0..Rounds -> Nat]
    /\ f[0] = Rough(base)
    /\ \A round \in 1..Rounds :
          f[round] = Rough(Append(base, StatusMessage(f[round - 1], limit)))

LEMMA EstimatesExist ==
    ASSUME NEW base \in Seq(Message), NEW limit \in Int
    PROVE  \E f : Estimates(base, limit, f)
  <1> DEFINE round(e) == Rough(Append(base, StatusMessage(e, limit)))
             upTo(k, f) == /\ f \in [0..k -> Nat]
                           /\ f[0] = Rough(base)
                           /\ \A n \in 1..k : f[n] = round(f[n - 1])
             S == {k \in 0..Rounds : \E f : upTo(k, f)}
  <1>1. Rough(base) \in Nat /\ \A e \in Nat : round(e) \in Nat
    <2>1. TotalChars(base) \in Nat
      BY TotalCharsType
    <2>2. Rough(base) \in Nat
      BY <2>1, QuotientType DEF Rough, CharsPerToken
    <2> QED  BY <2>2, RoundEstimate
  <1> HIDE DEF round
  <1>2. 0 \in S
    <2>1. upTo(0, [n \in 0..0 |-> Rough(base)])
      BY <1>1
    <2> HIDE DEF upTo
    <2> QED  BY <2>1 DEF Rounds
  <1>3. ASSUME NEW k \in 1..Rounds, k - 1 \in S PROVE k \in S
    <2>1. PICK f : upTo(k - 1, f)
      BY <1>3
    <2> DEFINE g == [n \in 0..k |-> IF n = k THEN round(f[k - 1]) ELSE f[n]]
    <2>2. k \in Nat /\ k # 0 /\ k - 1 \in 0..(k - 1) /\ f[k - 1] \in Nat
      BY <1>3, <2>1 DEF Rounds
    <2>3. g \in [0..k -> Nat]
      <3>1. ASSUME NEW n \in 0..k PROVE (IF n = k THEN round(f[k - 1]) ELSE f[n]) \in Nat
        <4>1. CASE n = k
          BY <1>1, <2>2, <4>1
        <4>2. CASE n # k
          <5>1. n \in 0..(k - 1)
            BY <2>2, <4>2
          <5> QED  BY <2>1, <4>2, <5>1
        <4> QED  BY <4>1, <4>2
      <3> QED  BY <3>1
    <2>4. g[0] = Rough(base)
      BY <2>1, <2>2
    <2>5. ASSUME NEW n \in 1..k PROVE g[n] = round(g[n - 1])
      <3>1. n \in 0..k /\ n - 1 \in 0..k /\ n - 1 # k
        BY <2>2
      <3>2. g[n - 1] = f[n - 1]
        BY <3>1
      <3>3. CASE n = k
        BY <3>1, <3>2, <3>3
      <3>4. CASE n # k
        <4>1. n \in 1..(k - 1)
          BY <2>2, <3>4
        <4> QED  BY <2>1, <3>1, <3>2, <3>4, <4>1
      <3> QED  BY <3>3, <3>4
    <2>6. upTo(k, g)
      BY <2>3, <2>4, <2>5
    <2> HIDE DEF upTo, g
    <2> QED  BY <2>6 DEF Rounds
  <1> HIDE DEF S
  <1>4. \A k \in 0..Rounds : k \in S
    BY <1>2, <1>3, UpTo DEF Rounds
  <1>5. Rounds \in S
    BY <1>4 DEF Rounds
  <1> QED  BY <1>5 DEF S, Estimates, round

LEMMA RoundsType ==
    /\ Rounds \in Nat /\ Rounds = 32 /\ 0 \in 0..Rounds /\ Rounds \in 0..Rounds
    /\ \A n \in 0..Rounds : n = 0 \/ n \in 1..Rounds
    /\ \A n \in 1..Rounds : /\ n \in Nat /\ n # 0 /\ n \in 0..Rounds
                             /\ n - 1 \in Nat /\ n - 1 \in 0..Rounds
  BY DEF Rounds

(* SettledEstimate is the last of them. *)
LEMMA SettledIsLast ==
    ASSUME NEW base \in Seq(Message), NEW limit \in Int
    PROVE  \E f : Estimates(base, limit, f) /\ SettledEstimate(base, limit) = f[Rounds]
  <1> DEFINE refreshed == [e \in Nat |-> Rough(Append(base, StatusMessage(e, limit)))]
             next(s, n) == IF n = 0 THEN Rough(base) ELSE refreshed[s[n - 1]]
             after == CHOOSE s : s = [n \in 0..Rounds |-> next(s, n)]
             S == {k \in 0..Rounds : after[k] \in Nat}
  <1> USE RoundsType
  <1>1. PICK f : Estimates(base, limit, f)
    BY EstimatesExist
  <1>2. f = [n \in 0..Rounds |-> next(f, n)]
    <2>1. ASSUME NEW n \in 0..Rounds PROVE f[n] = next(f, n)
      <3>1. CASE n = 0
        BY <1>1, <3>1 DEF Estimates
      <3>2. CASE n # 0
        <4>1. n \in 1..Rounds /\ f[n - 1] \in Nat
          BY <1>1, <3>2 DEF Estimates
        <4>2. f[n] = Rough(Append(base, StatusMessage(f[n - 1], limit)))
          BY <1>1, <4>1 DEF Estimates
        <4> QED  BY <3>2, <4>1, <4>2
      <3> QED  BY <3>1, <3>2
    <2> QED  BY <1>1, <2>1 DEF Estimates
  <1>3. after = [n \in 0..Rounds |-> next(after, n)]
    <2> HIDE DEF next
    <2> QED  BY <1>2
  <1>4. SettledEstimate(base, limit) = after[Rounds]
    BY DEF SettledEstimate
  <1> HIDE DEF after
  <1>5. /\ after[0] = Rough(base)
        /\ \A n \in 1..Rounds : after[n - 1] \in Nat =>
              after[n] = Rough(Append(base, StatusMessage(after[n - 1], limit)))
    <2> HIDE DEF refreshed
    <2>1. after[0] = Rough(base) /\ \A n \in 1..Rounds : after[n] = refreshed[after[n - 1]]
      BY <1>3
    <2> QED  BY <2>1 DEF refreshed
  <1> HIDE DEF refreshed
  <1>6. \A n \in 0..Rounds : after[n] \in Nat
    <2>1. 0 \in S
      BY <1>1, <1>5 DEF Estimates
    <2>2. ASSUME NEW k \in 1..Rounds, k - 1 \in S PROVE k \in S
      <3>1. after[k - 1] \in Nat
        BY <2>2
      <3>2. Rough(Append(base, StatusMessage(after[k - 1], limit))) \in Nat
        BY <3>1, RoundEstimate
      <3>3. after[k] = Rough(Append(base, StatusMessage(after[k - 1], limit)))
        BY <1>5, <3>1
      <3> QED  BY <3>2, <3>3
    <2> HIDE DEF S
    <2>3. \A n \in 0..Rounds : n \in S
      BY <2>1, <2>2, UpTo
    <2> QED  BY <2>3 DEF S
  <1>7. Estimates(base, limit, after)
    BY <1>3, <1>5, <1>6 DEF Estimates
  <1> QED  BY <1>4, <1>7

(* Each round that changes the estimate makes the status at least one character
   longer than the round before did, and it never has more than 30: so after 32
   rounds the estimate no longer changes. *)
LEMMA SettledIsOwn ==
    ASSUME NEW base \in Seq(Message), NEW limit \in Int
    PROVE  LET e == SettledEstimate(base, limit)
           IN  /\ e \in Nat
               /\ Rough(Append(base, StatusMessage(e, limit))) = e
  <1> DEFINE total == TotalChars(base)
             chars(e) == StatusChars(e, limit)
             round(e) == Rough(Append(base, StatusMessage(e, limit)))
             Growing(e, n) == \E b \in Nat : /\ e = (total + b) \div 2
                                             /\ n <= b /\ b <= chars(e)
  <1> USE RoundsType
  <1>1. PICK f : Estimates(base, limit, f) /\ SettledEstimate(base, limit) = f[Rounds]
    BY SettledIsLast
  <1> DEFINE S == {n \in 0..Rounds : round(f[n]) = f[n] \/ Growing(f[n], n)}
  <1>2. total \in Nat
    BY TotalCharsType
  <1>3. ASSUME NEW e \in Nat
        PROVE  /\ chars(e) \in Nat /\ chars(e) <= 30 /\ round(e) \in Nat
               /\ round(e) = (total + chars(e)) \div 2
    BY StatusCharsBounded, RoundEstimate
  <1>4. \A d \in Nat, e \in Nat : d <= e => chars(d) <= chars(e)
    BY StatusCharsGrow
  <1>5. /\ \A n \in 0..Rounds : f[n] \in Nat
        /\ f[0] = total \div 2
        /\ \A n \in 1..Rounds : f[n] = round(f[n - 1])
    BY <1>1 DEF Estimates, Rough, CharsPerToken
  <1> HIDE DEF total, chars, round
  <1>6. 0 \in S
    <2>1. f[0] = (total + 0) \div 2 /\ f[0] \in Nat
      BY <1>2, <1>5
    <2>2. 0 <= chars(f[0])
      BY <1>3, <2>1
    <2>3. Growing(f[0], 0)
      BY <2>1, <2>2
    <2> QED  BY <2>3
  <1>7. ASSUME NEW n \in 1..Rounds, n - 1 \in S PROVE n \in S
    <2>1. f[n - 1] \in Nat /\ f[n] \in Nat /\ f[n] = round(f[n - 1]) /\ n \in 0..Rounds
      BY <1>5
    <2>2. CASE round(f[n - 1]) = f[n - 1]
      BY <2>1, <2>2
    <2>3. CASE round(f[n - 1]) # f[n - 1] /\ Growing(f[n - 1], n - 1)
      <3>1. PICK b \in Nat : /\ f[n - 1] = (total + b) \div 2
                             /\ n - 1 <= b /\ b <= chars(f[n - 1])
        BY <2>3
      <3>2. chars(f[n - 1]) \in Nat /\ f[n] = (total + chars(f[n - 1])) \div 2
        BY <1>3, <2>1
      <3>3. chars(f[n - 1]) # b
        BY <2>1, <2>3, <3>1, <3>2
      <3>4. n <= chars(f[n - 1])
        BY <3>1, <3>2, <3>3
      <3>5. f[n - 1] <= f[n]
        <4>1. total + b <= total + chars(f[n - 1])
          BY <1>2, <3>1, <3>2
        <4>2. total + b \in Int /\ total + chars(f[n - 1]) \in Int
          BY <1>2, <3>2
        <4> HIDE DEF Growing
        <4> QED  BY <3>1, <3>2, <4>1, <4>2, QuotientGrows
      <3>6. chars(f[n - 1]) <= chars(f[n])
        BY <1>4, <2>1, <3>5
      <3>7. Growing(f[n], n)
        BY <3>2, <3>4, <3>6
      <3> HIDE DEF Growing
      <3> QED  BY <2>1, <3>7
    <2> QED  BY <1>7, <2>2, <2>3
  <1>8. Rounds \in S
    <2> HIDE DEF S
    <2>1. \A n \in 0..Rounds : n \in S
      BY <1>6, <1>7, UpTo
    <2> QED  BY <2>1
  <1>9. f[Rounds] \in Nat /\ chars(f[Rounds]) \in Nat /\ chars(f[Rounds]) <= 30
    BY <1>3, <1>5
  <1>10. round(f[Rounds]) = f[Rounds]
    BY <1>8, <1>9
  <1> QED  BY <1>1, <1>9, <1>10 DEF round

-----------------------------------------------------------------------------
(* The status message of a request *)

(* What append_runtime_status returns: the last message is a status, which
   states the estimate of them all. *)
LEMMA AppendedStatus ==
    ASSUME NEW history \in Histories, NEW limit \in Int
    PROVE  LET result == AppendRuntimeStatus(history, limit)
               all == result.messages
           IN  /\ all \in Seq(Message) /\ result.shown \in Nat /\ result.estimate \in Nat
               /\ Rough(all) = result.shown
               /\ Last(all).status
  <1> DEFINE base == WithoutStatus(history)
             shown == SettledEstimate(base, limit)
             m == StatusMessage(shown, limit)
             all == Append(base, m)
             result == AppendRuntimeStatus(history, limit)
  <1>1. history \in Seq(Message)
    BY RuntimeAssumption
  <1>2. base \in Seq(Message)
    <2>1. CASE history # <<>> /\ Last(history).status
      <3>1. base = SubSeq(history, 1, Len(history) - 1) /\ Len(history) \in Nat \ {0}
        BY <1>1, <2>1 DEF WithoutStatus, Front
      <3>2. \A n \in 1..(Len(history) - 1) : history[n] \in Message
        BY <1>1, <3>1
      <3> HIDE DEF base
      <3> QED  BY <3>1, <3>2, SubSeqProperties
    <2>2. CASE ~(history # <<>> /\ Last(history).status)
      BY <1>1, <2>2 DEF WithoutStatus
    <2> QED  BY <2>1, <2>2
  <1> HIDE DEF base
  <1>3. shown \in Nat /\ Rough(all) = shown
    BY <1>2, SettledIsOwn
  <1>4. m \in Message
    BY <1>2, <1>3, RoundEstimate
  <1>5. m.status
    BY DEF StatusMessage
  <1>6. /\ result.messages = all /\ result.shown = shown /\ result.estimate = Rough(all)
    BY DEF AppendRuntimeStatus, base
  <1> HIDE DEF shown, m, result
  <1>7. all \in Seq(Message) /\ Len(all) = Len(base) + 1 /\ all[Len(base) + 1] = m
    BY <1>2, <1>4
  <1>8. Len(base) \in Nat
    BY <1>2
  <1> HIDE DEF all
  <1>9. Last(all).status
    BY <1>5, <1>7, <1>8 DEF Last
  <1> QED  BY <1>3, <1>6, <1>7, <1>9 DEF result

-----------------------------------------------------------------------------
(* The engine's values *)

LEMMA FromMappingType ==
    ASSUME NEW raw \in Usages
    PROVE  FromMapping(raw) \in Usage
  <1>1. raw \in RawUsage
    BY RuntimeAssumption
  <1>2. /\ raw.prompt_tokens \in Int /\ raw.input_tokens \in Int
        /\ raw.completion_tokens \in Int /\ raw.output_tokens \in Int
        /\ raw.total_tokens \in Int
    BY <1>1 DEF RawUsage
  <1> DEFINE prompt == FirstCounted(raw.prompt_tokens, raw.input_tokens)
             completion == FirstCounted(raw.completion_tokens, raw.output_tokens)
             total == IF raw.total_tokens < 0 /\ prompt # Unset /\ completion # Unset
                        THEN prompt + completion ELSE Counted(raw.total_tokens)
  <1>3. prompt \in TokenCount /\ completion \in TokenCount
    BY <1>2 DEF FirstCounted, Counted, TokenCount
  <1>4. FromMapping(raw) = [prompt |-> prompt, completion |-> completion, total |-> total]
    BY DEF FromMapping
  <1> HIDE DEF prompt, completion
  <1>5. total \in TokenCount
    BY <1>2, <1>3 DEF Counted, TokenCount
  <1> HIDE DEF total
  <1> QED  BY <1>3, <1>4, <1>5 DEF Usage

CounterRecord == [prompt: Nat, completion: Nat, total: Nat]

LEMMA CountersType ==
    ASSUME NEW u \in Usage
    PROVE  Counters(u) \in CounterRecord
  <1>1. u.prompt \in TokenCount /\ u.completion \in TokenCount /\ u.total \in TokenCount
    BY DEF Usage
  <1>2. \A n \in TokenCount : OrZero(n) \in Nat
    BY DEF TokenCount, OrZero
  <1> QED  BY <1>1, <1>2 DEF Counters, CounterRecord

LEMMA NoUsageType == NoUsage \in Usage /\ NoUsage.prompt = Unset
  BY DEF NoUsage, Usage, TokenCount

(* The types of what the engine and the request hold. *)
RequestRecord ==
    [number: Nat, session: SessionId \cup {None}, model: Metadata \cup {NoModel},
     actual: TokenCount, shown: TokenCount, messages: Seq(Message), over: BOOLEAN]
MeasurementRecord ==
    [request: Nat, session: SessionId \cup {None}, by: Metadata \cup {NoModel},
     prompt: TokenCount]

EngineTypeOK ==
    /\ usage \in Usage /\ counters \in CounterRecord
    /\ estimate \in Nat /\ awaiting \in BOOLEAN
    /\ session \in SessionId \cup {None}
    /\ request \in RequestRecord /\ measured \in MeasurementRecord
    /\ lastStatus \in Nat
    /\ lastStatus <= request.number /\ measured.request <= request.number
    /\ request.number <= MaxRequests[config]

(* Why a usage that is not awaited may be shown: it is what the last answer
   reported, to this session, by this model, and no request with a status was
   made since. Clearing it keeps this, and so does everything that does not
   change session, model, answer or request. *)
UsageInv ==
    ~awaiting /\ usage.prompt # Unset =>
        /\ measured.prompt = usage.prompt
        /\ measured.session = session
        /\ SameModel(measured.by, model)
        /\ measured.request >= lastStatus

(* The estimate of EstimateIsOwn is the request's alone; together they are the
   inductive invariant of the engine. *)
RuntimeInv == PolicyInv /\ EngineTypeOK /\ UsageInv /\ EstimateIsOwn

LEMMA ModelName ==
    /\ NoModel.name = None /\ NoModel \notin Metadata
    /\ \A m \in Metadata : m.name # None
  BY RuntimeAssumption, KeyAssumption DEF NoModel

-----------------------------------------------------------------------------
(* Each operation keeps the invariant *)

LEMMA RuntimeInvInit == StatusInit => RuntimeInv
  <1> SUFFICES ASSUME StatusInit PROVE RuntimeInv
    OBVIOUS
  <1>1. PolicyInv
    BY PolicyInvInit
  <1>2. /\ config \in Config /\ model = NoModel /\ usage = NoUsage
        /\ counters = Counters(NoUsage) /\ estimate = 0 /\ awaiting = FALSE
        /\ session = None /\ lastStatus = 0
        /\ measured = [request |-> 0, session |-> None, by |-> NoModel, prompt |-> Unset]
    BY DEF StatusInit
  <1>3. request = [number |-> 0, session |-> None, model |-> NoModel, actual |-> Unset,
                   shown |-> Unset, messages |-> <<>>, over |-> TRUE]
    BY DEF StatusInit, Request
  <1>4. MaxRequests[config] \in Nat
    BY <1>2, RuntimeAssumption
  <1>5. request \in RequestRecord /\ request.number = 0 /\ request.messages = <<>>
    BY <1>3 DEF RequestRecord, TokenCount
  <1>6. measured \in MeasurementRecord /\ measured.request = 0
    BY <1>2 DEF MeasurementRecord, TokenCount
  <1>7. usage \in Usage /\ counters \in CounterRecord /\ usage.prompt = Unset
    BY <1>2, NoUsageType, CountersType
  <1>8. EngineTypeOK
    <2>1. estimate \in Nat /\ awaiting \in BOOLEAN /\ lastStatus \in Nat
      BY <1>2
    <2>2. session \in SessionId \cup {None}
      BY <1>2
    <2>3. /\ lastStatus <= request.number /\ measured.request <= request.number
          /\ request.number <= MaxRequests[config]
      <3>1. lastStatus = 0
        BY <1>2
      <3> QED  BY <1>4, <1>5, <1>6, <3>1
    <2> QED  BY <1>5, <1>6, <1>7, <2>1, <2>2, <2>3 DEF EngineTypeOK
  <1> QED  BY <1>1, <1>5, <1>7, <1>8 DEF RuntimeInv, UsageInv, EstimateIsOwn

(* What a step leaves alone keeps its part: the request, and the estimate it
   shows. *)
LEMMA EstimateKept ==
    ASSUME EstimateIsOwn, request'.messages = request.messages, request'.shown = request.shown
    PROVE  EstimateIsOwn'
  BY DEF EstimateIsOwn

LEMMA ClearedTypes ==
    ASSUME EngineTypeOK, ClearUsage,
           session' \in SessionId \cup {None}, UNCHANGED <<config, historyVars>>
    PROVE  EngineTypeOK' /\ UsageInv'
  <1>1. /\ usage' = NoUsage /\ counters' = Counters(NoUsage)
        /\ estimate' = 0 /\ awaiting' = FALSE
    BY DEF ClearUsage
  <1>2. usage' \in Usage /\ counters' \in CounterRecord /\ usage'.prompt = Unset
    BY <1>1, NoUsageType, CountersType
  <1> QED  BY <1>1, <1>2 DEF EngineTypeOK, UsageInv, historyVars

LEMMA KeptTypes ==
    ASSUME EngineTypeOK, KeepUsage, session' = session, UNCHANGED <<config, historyVars>>
    PROVE  EngineTypeOK'
  BY DEF EngineTypeOK, KeepUsage, historyVars

(* The model in force may be renamed only by clearing the usage. *)
LEMMA UpdateModelKeeps ==
    ASSUME RuntimeInv, NEW new \in Metadata, UpdateModel(new)
    PROVE  EngineTypeOK' /\ UsageInv' /\ EstimateIsOwn'
  <1>1. UNCHANGED <<config, session, historyVars>> /\ model' = new
    BY DEF UpdateModel
  <1>2. EstimateIsOwn'
    BY <1>1, EstimateKept DEF RuntimeInv, historyVars
  <1>3. session' \in SessionId \cup {None}
    BY <1>1 DEF RuntimeInv, EngineTypeOK
  <1>4. CASE model # NoModel /\ (new.name # model.name \/ new.provider # model.provider)
    <2>1. ClearUsage
      BY <1>4 DEF UpdateModel
    <2> QED  BY <1>1, <1>2, <1>3, <2>1, ClearedTypes DEF RuntimeInv
  <1>5. CASE ~(model # NoModel /\ (new.name # model.name \/ new.provider # model.provider))
    <2>1. KeepUsage
      BY <1>5 DEF UpdateModel
    <2>2. EngineTypeOK'
      BY <1>1, <2>1, KeptTypes DEF RuntimeInv
    <2>3. SameModel(measured.by, model) => SameModel(measured.by, new)
      <3>1. measured.by \in Metadata \cup {NoModel}
        BY DEF RuntimeInv, EngineTypeOK, MeasurementRecord
      <3>2. CASE model = NoModel
        BY <3>1, <3>2, ModelName DEF SameModel
      <3>3. CASE model # NoModel
        BY <1>5, <3>3 DEF SameModel
      <3> QED  BY <3>2, <3>3
    <2>4. UNCHANGED <<usage, awaiting, measured, lastStatus>>
      BY <1>1, <2>1 DEF KeepUsage, historyVars
    <2>5. UsageInv
      BY DEF RuntimeInv
    <2>6. UsageInv'
      BY <1>1, <2>3, <2>4, <2>5 DEF UsageInv
    <2> QED  BY <1>2, <2>2, <2>6
  <1> QED  BY <1>4, <1>5

LEMMA SessionKeeps ==
    ASSUME RuntimeInv, (\E s \in SessionId : StartSession(s)) \/ ResetSession
    PROVE  EngineTypeOK' /\ UsageInv' /\ EstimateIsOwn'
  <1>1. /\ UNCHANGED <<config, model, historyVars>>
        /\ session' \in SessionId \cup {None}
        /\ ClearUsage \/ (KeepUsage /\ session' = session)
    BY DEF StartSession, ResetSession
  <1>2. EstimateIsOwn'
    BY <1>1, EstimateKept DEF RuntimeInv, historyVars
  <1>3. CASE ClearUsage
    BY <1>1, <1>2, <1>3, ClearedTypes DEF RuntimeInv
  <1>4. CASE KeepUsage /\ session' = session
    <2>1. EngineTypeOK'
      BY <1>1, <1>4, KeptTypes DEF RuntimeInv
    <2>2. UNCHANGED <<usage, awaiting, measured, lastStatus, model, session>>
      BY <1>1, <1>4 DEF KeepUsage, historyVars
    <2>3. UsageInv'
      BY <2>2 DEF RuntimeInv, UsageInv
    <2> QED  BY <1>2, <2>1, <2>3
  <1> QED  BY <1>1, <1>3, <1>4

(* A request that is over is the same request. *)
LEMMA RequestOver ==
    ASSUME request \in RequestRecord, request' = [request EXCEPT !.over = TRUE]
    PROVE  /\ request' \in RequestRecord /\ request'.number = request.number
           /\ request'.messages = request.messages /\ request'.shown = request.shown
  BY DEF RequestRecord

LEMMA SelectContextKeeps ==
    ASSUME RuntimeInv, NEW history \in Histories, SelectContext(history)
    PROVE  EngineTypeOK' /\ UsageInv' /\ EstimateIsOwn'
  <1> DEFINE result == AppendRuntimeStatus(history, model.limit)
             number == request.number + 1
             actual == usage'.prompt
  <1>1. /\ CanSelect
        /\ usage' = UsageAtSelection
        /\ counters' = IF awaiting THEN Counters(NoUsage) ELSE counters
        /\ estimate' = result.estimate
        /\ awaiting' = TRUE
        /\ request' = Request(number, actual, result.shown, result.messages)
        /\ lastStatus' = number
        /\ UNCHANGED <<config, model, resolution, threshold, session, measured>>
    BY DEF SelectContext
  <1>2. /\ usage \in Usage /\ counters \in CounterRecord /\ session \in SessionId \cup {None}
        /\ request.number \in Nat /\ measured \in MeasurementRecord
        /\ measured.request \in Nat /\ measured.request <= request.number
    BY DEF RuntimeInv, EngineTypeOK, RequestRecord, MeasurementRecord
  <1>3. model \in Metadata \cup {NoModel} /\ model.limit \in Int /\ config \in Config
    BY ModelInForce DEF RuntimeInv, PolicyInv, SettingsOK
  <1>4. /\ result.messages \in Seq(Message) /\ result.shown \in Nat /\ result.estimate \in Nat
        /\ Rough(result.messages) = result.shown
        /\ Last(result.messages).status
    BY <1>3, AppendedStatus
  <1> HIDE DEF result
  <1>5. usage' \in Usage /\ counters' \in CounterRecord
    <2>1. Counters(NoUsage) \in CounterRecord
      BY NoUsageType, CountersType
    <2> QED  BY <1>1, <1>2, <2>1, NoUsageType DEF UsageAtSelection
  <1>6. actual \in TokenCount
    BY <1>5 DEF Usage
  <1> HIDE DEF actual
  <1>7. request' = [number |-> number, session |-> session, model |-> model,
                    actual |-> actual, shown |-> result.shown,
                    messages |-> result.messages, over |-> FALSE]
    BY <1>1 DEF Request
  <1>8. /\ request' \in RequestRecord /\ request'.number = number
        /\ request'.messages = result.messages /\ request'.shown = result.shown
    BY <1>2, <1>3, <1>4, <1>6, <1>7 DEF RequestRecord, TokenCount
  <1>9. number <= MaxRequests[config] /\ number \in Nat
    <2>1. MaxRequests[config] \in Nat
      BY <1>3, RuntimeAssumption
    <2>2. request.number < MaxRequests[config]
      BY <1>1 DEF CanSelect
    <2> QED  BY <1>2, <2>1, <2>2
  <1>10. EngineTypeOK'
    <2>1. /\ lastStatus' = number /\ measured' = measured /\ config' = config
          /\ session' = session /\ awaiting' = TRUE
      BY <1>1
    <2>2. estimate' \in Nat
      BY <1>1, <1>4
    <2>3. lastStatus' <= request'.number /\ measured'.request <= request'.number
      BY <1>2, <1>8, <2>1
    <2>4. request'.number <= MaxRequests[config]'
      BY <1>8, <1>9, <2>1
    <2> HIDE DEF number
    <2> QED  BY <1>2, <1>5, <1>8, <1>9, <2>1, <2>2, <2>3, <2>4 DEF EngineTypeOK
  <1>11. UsageInv'
    BY <1>1 DEF UsageInv
  <1>12. EstimateIsOwn'
    BY <1>4, <1>8 DEF EstimateIsOwn
  <1> QED  BY <1>10, <1>11, <1>12

LEMMA SelectContextFailsKeeps ==
    ASSUME RuntimeInv, SelectContextFails
    PROVE  EngineTypeOK' /\ UsageInv' /\ EstimateIsOwn'
  <1> DEFINE number == request.number + 1
  <1>1. /\ CanSelect
        /\ usage' = UsageAtSelection
        /\ counters' = IF awaiting THEN Counters(NoUsage) ELSE counters
        /\ estimate' = IF awaiting THEN 0 ELSE estimate
        /\ awaiting' = FALSE
        /\ request' = Request(number, Unset, Unset, <<>>)
        /\ UNCHANGED <<config, model, resolution, threshold, session, measured, lastStatus>>
    BY DEF SelectContextFails
  <1>2. /\ usage \in Usage /\ counters \in CounterRecord /\ session \in SessionId \cup {None}
        /\ request.number \in Nat /\ measured \in MeasurementRecord /\ estimate \in Nat
        /\ measured.request \in Nat /\ measured.request <= request.number
        /\ lastStatus \in Nat /\ lastStatus <= request.number
    BY DEF RuntimeInv, EngineTypeOK, RequestRecord, MeasurementRecord
  <1>3. model \in Metadata \cup {NoModel} /\ config \in Config
    BY ModelInForce DEF RuntimeInv, PolicyInv, SettingsOK
  <1>4. usage' \in Usage /\ counters' \in CounterRecord
    <2>1. Counters(NoUsage) \in CounterRecord
      BY NoUsageType, CountersType
    <2> QED  BY <1>1, <1>2, <2>1, NoUsageType DEF UsageAtSelection
  <1>5. request' = [number |-> number, session |-> session, model |-> model,
                    actual |-> Unset, shown |-> Unset, messages |-> <<>>, over |-> FALSE]
    BY <1>1 DEF Request
  <1>6. /\ request' \in RequestRecord /\ request'.number = number
        /\ request'.messages = <<>>
    BY <1>2, <1>3, <1>5 DEF RequestRecord, TokenCount
  <1>7. number <= MaxRequests[config] /\ number \in Nat
    <2>1. MaxRequests[config] \in Nat
      BY <1>3, RuntimeAssumption
    <2>2. request.number < MaxRequests[config]
      BY <1>1 DEF CanSelect
    <2> QED  BY <1>2, <2>1, <2>2
  <1>8. EngineTypeOK'
    <2>1. /\ lastStatus' = lastStatus /\ measured' = measured /\ config' = config
          /\ session' = session /\ awaiting' = FALSE
      BY <1>1
    <2>2. estimate' \in Nat
      BY <1>1, <1>2
    <2>3. lastStatus' <= request'.number /\ measured'.request <= request'.number
      BY <1>2, <1>6, <2>1
    <2>4. request'.number <= MaxRequests[config]'
      BY <1>6, <1>7, <2>1
    <2> HIDE DEF number
    <2> QED  BY <1>2, <1>4, <1>6, <1>7, <2>1, <2>2, <2>3, <2>4 DEF EngineTypeOK
  <1>9. UsageInv'
    <2>1. UsageInv
      BY DEF RuntimeInv
    <2>2. CASE awaiting
      <3>1. usage'.prompt = Unset
        BY <1>1, <2>2, NoUsageType DEF UsageAtSelection
      <3> QED  BY <3>1 DEF UsageInv
    <2>3. CASE ~awaiting
      <3>1. usage' = usage
        BY <1>1, <2>3 DEF UsageAtSelection
      <3> QED  BY <1>1, <2>1, <2>3, <3>1 DEF UsageInv
    <2> QED  BY <2>2, <2>3
  <1>10. EstimateIsOwn'
    BY <1>6 DEF EstimateIsOwn
  <1> QED  BY <1>8, <1>9, <1>10

LEMMA UpdateFromResponseKeeps ==
    ASSUME RuntimeInv, NEW raw \in Usages, UpdateFromResponse(raw)
    PROVE  EngineTypeOK' /\ UsageInv' /\ EstimateIsOwn'
  <1>1. /\ usage' = FromMapping(raw)
        /\ counters' = Counters(usage')
        /\ awaiting' = FALSE
        /\ request' = [request EXCEPT !.over = TRUE]
        /\ measured' = [request |-> request.number, session |-> session, by |-> model,
                        prompt |-> usage'.prompt]
        /\ UNCHANGED <<config, model, estimate, session, lastStatus>>
    BY DEF UpdateFromResponse
  <1>2. /\ request \in RequestRecord /\ request.number \in Nat /\ estimate \in Nat
        /\ session \in SessionId \cup {None}
        /\ lastStatus \in Nat /\ lastStatus <= request.number
        /\ request.number <= MaxRequests[config]
    BY DEF RuntimeInv, EngineTypeOK, RequestRecord
  <1>3. model \in Metadata \cup {NoModel}
    BY ModelInForce DEF RuntimeInv
  <1>4. usage' \in Usage
    BY <1>1, FromMappingType
  <1>5. counters' \in CounterRecord
    BY <1>1, <1>4, CountersType
  <1>6. usage'.prompt \in TokenCount
    BY <1>4 DEF Usage
  <1>7. /\ measured' \in MeasurementRecord /\ measured'.request = request.number
        /\ measured'.session = session /\ measured'.by = model
        /\ measured'.prompt = usage'.prompt
    BY <1>1, <1>2, <1>3, <1>6 DEF MeasurementRecord
  <1>8. /\ request' \in RequestRecord /\ request'.number = request.number
        /\ request'.messages = request.messages /\ request'.shown = request.shown
    BY <1>1, <1>2, RequestOver
  <1>9. EngineTypeOK'
    <2>1. /\ lastStatus' = lastStatus /\ estimate' = estimate /\ config' = config
          /\ session' = session /\ awaiting' \in BOOLEAN
      BY <1>1
    <2>2. /\ lastStatus' <= request'.number /\ measured'.request <= request'.number
          /\ request'.number <= MaxRequests[config]'
      BY <1>2, <1>7, <1>8, <2>1
    <2> QED  BY <1>2, <1>4, <1>5, <1>7, <1>8, <2>1, <2>2 DEF EngineTypeOK
  <1>10. UsageInv'
    <2>1. SameModel(measured'.by, model')
      BY <1>1, <1>7 DEF SameModel
    <2>2. measured'.request >= lastStatus'
      BY <1>1, <1>2, <1>7
    <2> QED  BY <1>1, <1>7, <2>1, <2>2 DEF UsageInv
  <1>11. EstimateIsOwn'
    BY <1>8, EstimateKept DEF RuntimeInv
  <1> QED  BY <1>9, <1>10, <1>11

LEMMA LoseResponseKeeps ==
    ASSUME RuntimeInv, LoseResponse
    PROVE  EngineTypeOK' /\ UsageInv' /\ EstimateIsOwn'
  <1>1. /\ request' = [request EXCEPT !.over = TRUE]
        /\ UNCHANGED <<config, model, usage, counters, estimate, awaiting, session,
                       measured, lastStatus>>
    BY DEF LoseResponse, engineVars
  <1>2. /\ request' \in RequestRecord /\ request'.number = request.number
        /\ request'.messages = request.messages /\ request'.shown = request.shown
    BY <1>1, RequestOver DEF RuntimeInv, EngineTypeOK
  <1>3. EngineTypeOK'
    BY <1>1, <1>2 DEF RuntimeInv, EngineTypeOK
  <1>4. UsageInv'
    BY <1>1 DEF RuntimeInv, UsageInv
  <1>5. EstimateIsOwn'
    BY <1>2, EstimateKept DEF RuntimeInv
  <1> QED  BY <1>3, <1>4, <1>5

LEMMA RuntimeInvStep == RuntimeInv /\ [StatusNext]_statusVars => RuntimeInv'
  <1> SUFFICES ASSUME RuntimeInv, [StatusNext]_statusVars
               PROVE  RuntimeInv'
    OBVIOUS
  <1>1. PolicyInv'
    BY PolicyInvStep DEF RuntimeInv
  <1>2. EngineTypeOK' /\ UsageInv' /\ EstimateIsOwn'
    <2>1. CASE \E new \in Metadata : UpdateModel(new)
      BY <2>1, UpdateModelKeeps
    <2>2. CASE (\E s \in SessionId : StartSession(s)) \/ ResetSession
      BY <2>2, SessionKeeps
    <2>3. CASE \E history \in Histories : SelectContext(history)
      BY <2>3, SelectContextKeeps
    <2>4. CASE SelectContextFails
      BY <2>4, SelectContextFailsKeeps
    <2>5. CASE \E raw \in Usages : UpdateFromResponse(raw)
      BY <2>5, UpdateFromResponseKeeps
    <2>6. CASE LoseResponse
      BY <2>6, LoseResponseKeeps
    <2>7. CASE UNCHANGED statusVars
      <3>1. UNCHANGED <<config, model, usage, counters, estimate, awaiting, session,
                        request, measured, lastStatus>>
        BY <2>7 DEF statusVars, engineVars, historyVars
      <3> QED  BY <3>1 DEF RuntimeInv, EngineTypeOK, UsageInv, EstimateIsOwn
    <2> QED  BY <2>1, <2>2, <2>3, <2>4, <2>5, <2>6, <2>7 DEF StatusNext
  <1> QED  BY <1>1, <1>2 DEF RuntimeInv

LEMMA RuntimeInvHolds == StatusSpec => []RuntimeInv
  BY RuntimeInvInit, RuntimeInvStep, PTL DEF StatusSpec

-----------------------------------------------------------------------------
(* What follows from it *)

LEMMA RuntimeTypes == RuntimeInv => RuntimeTypeOK
  <1> SUFFICES ASSUME RuntimeInv PROVE RuntimeTypeOK
    OBVIOUS
  <1>1. config \in Config /\ model \in Metadata \cup {NoModel}
    BY ModelInForce DEF RuntimeInv, PolicyInv, SettingsOK
  <1>2. threshold \in Nat /\ {resolution.sweet, resolution.emergency} \subseteq TokenCount
    <2>1. CASE /\ model = NoModel /\ threshold = 0
               /\ resolution = ObservationOnly(<<"none", None>>, "")
      <3>1. resolution.sweet = Unset /\ resolution.emergency = Unset
        BY <2>1 DEF ObservationOnly, Resolution
      <3>2. threshold = 0
        BY <2>1, Zenon
      <3> QED  BY <3>1, <3>2 DEF TokenCount
    <2>2. CASE /\ model \in Metadata
               /\ resolution = Resolve(config, model.name, model.provider, model.limit)
               /\ threshold = OrZero(resolution.emergency)
      <3>1. model.limit \in Int /\ SettingsOK
        BY ModelInForce DEF RuntimeInv, PolicyInv
      <3>2. /\ threshold \in Nat
            /\ resolution.sweet \in TokenCount /\ resolution.emergency \in TokenCount
        BY <2>2, <3>1, ResolvedInOrder
      <3> QED  BY <3>2
    <2> QED  BY <2>1, <2>2 DEF RuntimeInv, PolicyInv
  <1> QED  BY <1>1, <1>2 DEF RuntimeInv, EngineTypeOK, CounterRecord, RuntimeTypeOK

(* What the engine keeps has its type at all times: every threshold and every
   count a number, however the provider reported it, and no answer or status
   newer than the last request (context_engine.py update_from_response,
   update_model, select_context). *)
THEOREM RuntimeTypeCorrect == StatusSpec => []RuntimeTypeOK
  BY RuntimeInvHolds, RuntimeTypes, PTL

(* The last message of a request is its status, and the estimate that status
   states is that of the very request it is part of: the loop of
   append_runtime_status has come to its own estimate within its 32 rounds, for
   every limit and whatever Hermes had assembled, other statuses included
   (context_builder.py:80-112). That there is no other one is not claimed:
   an emergency summary may have kept an old one. *)
THEOREM EstimateIsOwnHolds == StatusSpec => []EstimateIsOwn
  <1>1. RuntimeInv => EstimateIsOwn
    BY DEF RuntimeInv
  <1> QED  BY <1>1, RuntimeInvHolds, PTL

(* A measurement that a request shows was reported for an earlier request of the
   same session, by the model in force, and no request with a status was made
   after that one: an answer that never came, another model or another session
   has cleared it (context_engine.py select_context, update_model,
   on_session_start). *)
THEOREM UsageIsOfLastRequestHolds == StatusSpec => UsageIsOfLastRequest
  <1> DEFINE Shown ==
               request'.number # request.number /\ request'.actual # Unset =>
                   /\ measured.prompt = request'.actual
                   /\ measured.session = request'.session
                   /\ SameModel(measured.by, request'.model)
                   /\ measured.request >= lastStatus
  <1>1. RuntimeInv /\ [StatusNext]_statusVars => [Shown]_statusVars
    <2> SUFFICES ASSUME RuntimeInv, StatusNext,
                        request'.number # request.number, request'.actual # Unset
                 PROVE  /\ measured.prompt = request'.actual
                        /\ measured.session = request'.session
                        /\ SameModel(measured.by, request'.model)
                        /\ measured.request >= lastStatus
      OBVIOUS
    <2>1. CASE \E history \in Histories : SelectContext(history)
      <3>1. PICK history \in Histories : SelectContext(history)
        BY <2>1
      <3>2. /\ request'.actual = usage'.prompt /\ request'.session = session
            /\ request'.model = model /\ usage' = UsageAtSelection
        BY <3>1 DEF SelectContext, Request
      <3>3. ~awaiting /\ usage' = usage
        BY <3>2, NoUsageType DEF UsageAtSelection
      <3> QED  BY <3>2, <3>3 DEF RuntimeInv, UsageInv
    <2>2. CASE SelectContextFails
      BY <2>2 DEF SelectContextFails, Request
    <2>3. CASE (\E raw \in Usages : UpdateFromResponse(raw)) \/ LoseResponse
      <3>1. request' = [request EXCEPT !.over = TRUE]
        BY <2>3 DEF UpdateFromResponse, LoseResponse
      <3> QED  BY <3>1, RequestOver DEF RuntimeInv, EngineTypeOK
    <2>4. CASE \/ \E new \in Metadata : UpdateModel(new)
               \/ \E s \in SessionId : StartSession(s)
               \/ ResetSession
      BY <2>4 DEF UpdateModel, StartSession, ResetSession, historyVars
    <2> QED  BY <2>1, <2>2, <2>3, <2>4 DEF StatusNext
  <1> QED  BY <1>1, RuntimeInvHolds, PTL DEF StatusSpec, UsageIsOfLastRequest

=============================================================================
