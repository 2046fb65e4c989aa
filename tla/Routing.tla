------------------------------- MODULE Routing -------------------------------
(***************************************************************************)
(* The routing core (wayfinder-routing-core/src/lib.rs): structural        *)
(* features of a text, the weighted score, the tier or the classifier that *)
(* turns a score into a model, and the hard constraints a destination must *)
(* meet.  A text is a sequence of lines; a line keeps only what a feature  *)
(* counts: its kind (the first of the line patterns that matches), its     *)
(* heading depth, its words, its links, its math symbols, its question     *)
(* marks and its lexical tokens.                                           *)
(*                                                                         *)
(* Scores are exact hundredths.  The code computes them in f64; a feature  *)
(* over its saturation is a multiple of 1/1200 and a weight a multiple of  *)
(* 1/2 (the defaults and the configured ones used here), so only a value   *)
(* exactly between two hundredths could round differently.                 *)
(*                                                                         *)
(* The last part is the calibration of a threshold from labelled prompts   *)
(* (calibration.rs, cli/calibrate_command.rs).                             *)
(***************************************************************************)
EXTENDS Integers, Sequences, FiniteSets, SequencesExt

FEATURE_ORDER == <<"word_count", "heading_count", "max_heading_depth",
  "list_item_count", "link_count", "code_block_count", "table_row_count",
  "reasoning_term_count", "math_symbol_count", "constraint_term_count",
  "question_count">>

FeatureNames == ToSet(FEATURE_ORDER)

\* A value per feature, listed in FEATURE_ORDER.
InFeatureOrder(values) ==
  [f \in FeatureNames |->
     values[CHOOSE i \in 1 .. Len(FEATURE_ORDER) : FEATURE_ORDER[i] = f]]

SATURATION == InFeatureOrder(<<400, 8, 4, 15, 10, 4, 12, 2, 6, 3, 3>>)

\* Default weights, in halves.
DefaultWeights == InFeatureOrder(<<6, 3, 2, 4, 2, 3, 2, 0, 0, 0, 0>>)

Unit == 1200

Total(F(_), text) == FoldSeq(LAMBDA line, sum : sum + F(line), 0, text)

(***************************************************************************)
(* Features.                                                               *)
(***************************************************************************)

\* Leading metadata between a "---" line and the next "---" or "..." line
\* is not scored; an unclosed block is ordinary text.
strip_frontmatter(text) ==
  LET closing == {i \in 2 .. Len(text) : text[i].kind \in {"rule", "dots"}}
      first == CHOOSE i \in closing : \A j \in closing : i <= j
  IN IF text = <<>> THEN text
     ELSE IF text[1].kind # "rule" \/ closing = {} THEN text
     ELSE SubSeq(text, first + 1, Len(text))

FencesBefore(body, i) == Cardinality({j \in 1 .. i - 1 : body[j].kind = "fence"})

\* The lines whose structure counts: neither a fence nor inside one.
Outside(body) ==
  {i \in 1 .. Len(body) : body[i].kind # "fence" /\ FencesBefore(body, i) % 2 = 0}

OfKind(body, kind) == {i \in Outside(body) : body[i].kind = kind}

TokensIn(line, terms) == Len(SelectSeq(line.tokens, LAMBDA t : t \in terms))

extract_features_with_lexicon(text, lexicon) ==
  LET body == strip_frontmatter(text)
      headings == OfKind(body, "heading")
      shown == [i \in 1 .. Len(body) |-> IF i \in Outside(body) THEN body[i].links ELSE 0]
  IN InFeatureOrder(<<
       Total(LAMBDA l : l.words, body),
       Cardinality(headings),
       IF headings = {} THEN 0
       ELSE CHOOSE d \in {body[i].depth : i \in headings} :
              \A i \in headings : body[i].depth <= d,
       Cardinality(OfKind(body, "list")),
       FoldSeq(+, 0, shown),
       Cardinality({i \in 1 .. Len(body) :
          body[i].kind = "fence" /\ FencesBefore(body, i) % 2 = 0}),
       Cardinality(OfKind(body, "table")),
       Total(LAMBDA l : TokensIn(l, lexicon.reasoning), body),
       Total(LAMBDA l : l.math, body),
       Total(LAMBDA l : TokensIn(l, lexicon.constraint), body),
       Total(LAMBDA l : l.questions, body)>>)

\* raw / saturation, at most 1, in units of 1/1200.
normalized_features(features) ==
  [f \in FeatureNames |->
     IF features[f] >= SATURATION[f] THEN Unit
     ELSE features[f] * (Unit \div SATURATION[f])]

(***************************************************************************)
(* Score and recommendation.                                               *)
(***************************************************************************)

SumOver(F(_)) == FoldSeq(LAMBDA f, sum : sum + F(f), 0, FEATURE_ORDER)

\* n / d rounded half to even.
python_round(n, d) ==
  LET q == n \div d
      r == n % d
  IN IF 2 * r > d \/ (2 * r = d /\ q % 2 = 1) THEN q + 1 ELSE q

scalar_score(features, weights) ==
  LET normalized == normalized_features(features)
      total == SumOver(LAMBDA f : weights[f])
  IN IF total = 0 THEN 0
     ELSE python_round(100 * SumOver(LAMBDA f : weights[f] * normalized[f]), Unit * total)

\* How much each feature contributes, in ten-thousandths of the score's 1.0.
explain_score(features, weights) ==
  LET normalized == normalized_features(features)
      total == SumOver(LAMBDA f : weights[f])
  IN [f \in FeatureNames |->
        IF total = 0 THEN 0
        ELSE python_round(10000 * weights[f] * normalized[f], Unit * total)]

\* The last tier of the leading run of tiers whose threshold is met.
recommend_tier(score, tiers) ==
  LET unmet == {i \in 1 .. Len(tiers) : score < tiers[i].min_score}
      first == CHOOSE i \in unmet : \A j \in unmet : i <= j
  IN IF unmet = {} THEN tiers[Len(tiers)].model
     ELSE tiers[IF first = 1 THEN 1 ELSE first - 1].model

binary_tiers(threshold) ==
  <<[min_score |-> 0, model |-> "local"], [min_score |-> threshold, model |-> "cloud"]>>

\* Logits over the normalised features; the first of the largest wins.
logits(classifier, features) ==
  LET normalized == normalized_features(features)
  IN [m \in 1 .. Len(classifier.models) |->
        classifier.intercepts[m] * Unit
        + SumOver(LAMBDA f : classifier.weights[f][m] * normalized[f])]

predict(classifier, features) ==
  LET values == logits(classifier, features)
  IN classifier.models[CHOOSE m \in DOMAIN values :
       /\ \A k \in DOMAIN values : values[k] <= values[m]
       /\ \A k \in 1 .. m - 1 : values[k] < values[m]]

HasClassifier(routing) == routing.classifier.models # <<>>

\* A classifier decides when there is one, and no tiers are reported then.
score_complexity(text, routing) ==
  LET features == extract_features_with_lexicon(text, routing.lexicon)
      score == scalar_score(features, routing.weights)
  IN [score |-> score, features |-> features,
      recommendation |-> IF HasClassifier(routing)
                         THEN predict(routing.classifier, features)
                         ELSE recommend_tier(score, routing.tiers),
      tiers |-> IF HasClassifier(routing) THEN <<>> ELSE routing.tiers]

(***************************************************************************)
(* Hard constraints on a destination.                                      *)
(***************************************************************************)

\* A posture permits its own boundary and every nearer one.
permits(posture, boundary) ==
  CASE posture = "on-device-only" -> boundary = "on-device"
    [] posture = "local-devices" -> boundary \in {"on-device", "local-network"}
    [] posture = "hosted-allowed" -> TRUE

\* The reasons that exclude a destination.  Context tokens or a window of
\* 0 stand for "not given".
assess_destination(request, destination) ==
  {reason \in {"provider-not-ready", "privacy-boundary-denied",
               "context-window-too-small", "context-window-unknown",
               "image-input-unsupported", "tools-unsupported"} :
     CASE reason = "provider-not-ready" -> ~destination.ready
       [] reason = "privacy-boundary-denied" ->
            ~permits(request.posture, destination.boundary)
       [] reason = "context-window-too-small" ->
            request.context # 0 /\ destination.window \in 1 .. request.context - 1
       [] reason = "context-window-unknown" ->
            request.context # 0 /\ destination.window = 0
       [] reason = "image-input-unsupported" -> request.image /\ ~destination.image
       [] reason = "tools-unsupported" -> request.tools /\ ~destination.tools}

(***************************************************************************)
(* Calibration.  Costs are integers; the mean costs and losses of the code *)
(* are sums here, over the same number of samples.  A lexical term is its  *)
(* place in the alphabet.                                                  *)
(***************************************************************************)

MAX_DISTILLED_TERMS == 128
MIN_DISTILL_ROWS_PER_ARM == 4

\* In twentieths, which is what the candidates need.
SEMANTIC_WEIGHT_CANDIDATES == <<0, 1, 2, 5, 10, 20, 40>>
InTwentieths(weights) == [f \in FeatureNames |-> 10 * weights[f]]

Where(samples, Test(_)) == {i \in 1 .. Len(samples) : Test(samples[i])}

\* A sample at or above the threshold pays for the high arm; one below it
\* that needed the high arm costs the penalty as well.
metrics_at(samples, threshold, arms) ==
  LET high == Where(samples, LAMBDA s : s.score >= threshold)
      needed == Where(samples, LAMBDA s : s.requires_high)
      money == arms.high_cost * Cardinality(high)
               + arms.low_cost * (Len(samples) - Cardinality(high))
  IN [threshold |-> threshold, money |-> money, recovered |-> Cardinality(high \cap needed),
      loss |-> money + arms.penalty * Cardinality(needed \ high)]

\* The upper median of the best cuts among 0, 1 and the observed scores.
calibrate_min_cost(samples, arms) ==
  LET cuts == {0, 100} \cup {samples[i].score : i \in 1 .. Len(samples)}
      Loss(t) == metrics_at(samples, t, arms).loss
      best == {t \in cuts : \A u \in cuts : Loss(t) <= Loss(u)}
      chosen == CHOOSE t \in best :
                  Cardinality({u \in best : u < t}) = Cardinality(best) \div 2
  IN metrics_at(samples, chosen, arms)

Samples(prompts, high_label, routing) ==
  [i \in 1 .. Len(prompts) |->
     [score |-> score_complexity(prompts[i].text, routing).score,
      requires_high |-> prompts[i].label = high_label]]

calibrate_config(prompts, arms, routing) ==
  calibrate_min_cost(Samples(prompts, arms.high_label, routing), arms)

WithSemantic(routing, weight) ==
  [routing EXCEPT !.weights =
     [InTwentieths(routing.weights) EXCEPT !["reasoning_term_count"] = weight]]

\* The first weight of the least loss, and of those of the best recovery.
select_semantic_weight(prompts, arms, routing) ==
  LET results == [w \in ToSet(SEMANTIC_WEIGHT_CANDIDATES) |->
                    calibrate_config(prompts, arms, WithSemantic(routing, w))]
  IN FoldLeft(LAMBDA best, w :
               IF \/ results[w].loss < results[best].loss
                  \/ results[w].loss = results[best].loss
                     /\ results[w].recovered > results[best].recovered
               THEN w ELSE best,
             0, SEMANTIC_WEIGHT_CANDIDATES)

lexical_terms(text) ==
  LET body == strip_frontmatter(text)
  IN UNION {ToSet(body[i].tokens) : i \in 1 .. Len(body)}

\* Terms of at least two high prompts and of no low one, the most frequent
\* first.  Stop words are not among the terms of the instances.
distill_reasoning_lexicon(prompts, high_label) ==
  LET rows == 1 .. Len(prompts)
      high == {i \in rows : prompts[i].label = high_label}
      terms == [i \in rows |-> lexical_terms(prompts[i].text)]
      In(t) == {i \in high : t \in terms[i]}
      candidates == {t \in UNION {terms[i] : i \in high} :
                       Cardinality(In(t)) >= 2 /\ \A i \in rows \ high : t \notin terms[i]}
      Before(t, u) == \/ Cardinality(In(t)) > Cardinality(In(u))
                      \/ Cardinality(In(t)) = Cardinality(In(u)) /\ t < u
  IN IF Cardinality(high) < MIN_DISTILL_ROWS_PER_ARM
        \/ Cardinality(rows \ high) < MIN_DISTILL_ROWS_PER_ARM
     THEN {}
     ELSE {t \in candidates : Cardinality({u \in candidates : Before(u, t)}) < MAX_DISTILLED_TERMS}

\* The cheaper label is the low arm; a penalty that is not given is the
\* high arm's cost.
ordered_arms(costs, penalty) ==
  LET low == CHOOSE l \in DOMAIN costs : \A m \in DOMAIN costs : costs[l] <= costs[m]
      high == CHOOSE l \in DOMAIN costs : l # low
  IN [low_label |-> low, low_cost |-> costs[low], high_label |-> high, high_cost |-> costs[high],
      penalty |-> IF penalty = -1 THEN costs[high] ELSE penalty]

\* A routing that sends nothing to the low arm has one tier.
CalibratedTiers(threshold, arms) ==
  IF threshold = 0
  THEN <<[min_score |-> 0, model |-> arms.high_label, cost |-> arms.high_cost]>>
  ELSE <<[min_score |-> 0, model |-> arms.low_label, cost |-> arms.low_cost],
         [min_score |-> threshold, model |-> arms.high_label, cost |-> arms.high_cost]>>

NotCalibrated == [ok |-> FALSE]

\* What is written: the routing the prompts were scored with, in new tiers.
Written(routing, arms, result) ==
  [ok |-> TRUE, result |-> result, arms |-> arms,
   routing |-> [routing EXCEPT !.tiers = CalibratedTiers(result.threshold, arms),
                               !.classifier = [models |-> <<>>]]]

Calibrated(prompts, arms, routing) ==
  Written(routing, arms, calibrate_config(prompts, arms, routing))

\* With the terms the high prompts share, at the weight that serves best.
Distilled(prompts, arms, routing) ==
  IF routing.lexicon.reasoning = {} THEN NotCalibrated
  ELSE Calibrated(prompts, arms,
                  WithSemantic(routing, select_semantic_weight(prompts, arms, routing)))

CalibratedFor(d, arms) ==
  IF d.distill
  THEN Distilled(d.prompts, arms,
                 [d.routing EXCEPT !.lexicon.reasoning =
                    distill_reasoning_lexicon(d.prompts, arms.high_label)])
  ELSE Calibrated(d.prompts, arms, d.routing)

\* The command: two labels, each with its own cost, or nothing is written.
run_calibrate(d) ==
  IF {d.prompts[i].label : i \in 1 .. Len(d.prompts)} # DOMAIN d.costs
     \/ Cardinality({d.costs[l] : l \in DOMAIN d.costs}) # 2
  THEN NotCalibrated ELSE CalibratedFor(d, ordered_arms(d.costs, d.penalty))

\* What `calibrate` writes is, of all thresholds, one of least loss on its
\* own prompts, and no worse with a distilled lexicon than with the one it
\* replaces, where that had no weight (as by default); and the router that
\* reads it sends each prompt where the calibration counted it
\* (calibration.rs:74, calibrate_command.rs:162-184).
CalibrationIsBest(d, out) ==
  out.ok =>
    LET samples == Samples(d.prompts, out.arms.high_label, out.routing)
        rows == 1 .. Len(d.prompts)
        Routed(i) == score_complexity(d.prompts[i].text, out.routing).recommendation
        Paid(i) == d.costs[Routed(i)]
    IN /\ \A t \in 0 .. 100 : metrics_at(samples, t, out.arms).loss >= out.result.loss
       /\ out.result.loss <= calibrate_config(d.prompts, out.arms, d.routing).loss
       /\ FoldSeq(+, 0, [i \in rows |-> Paid(i)]) = out.result.money
       /\ \A i \in rows : samples[i].score >= out.result.threshold <=> Routed(i) = out.arms.high_label
==============================================================================
