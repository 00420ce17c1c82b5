-------------------------------- MODULE Pricing --------------------------------
(***************************************************************************)
(* From a catalogue document to the cost of one upstream attempt: the      *)
(* models.dev snapshot (crates/provider-usage/src/catalog.rs), context     *)
(* tiers (price.rs), the observed cost and the pre-dispatch maximum        *)
(* (cost.rs), and which rule prices an attempt (tracking.rs).              *)
(* A unit price is a natural number, Absent, or negative for a literal     *)
(* parse_unit_price refuses.                                               *)
(***************************************************************************)
EXTENDS Metering, Sequences, SequencesExt

CONSTANTS LegacyTier,        \* the threshold of context_over_200k
          AtomMax,           \* the largest amount the calculator represents
          OfficialProvider   \* [model name -> its official provider, or Absent]

Components == {"uncached", "read", "write", "output", "reasoning", "audio"}
Unpriced == [f \in Components |-> Absent]

\* component_prices: one unreadable rate invalidates the whole block.
Readable(prices) == \A f \in Components : prices[f] = Absent \/ prices[f] >= 0

Tier(at, prices) == [at |-> at, prices |-> prices]

\* parse_model_pricing_tiers: Absent when the encoding cannot be trusted.
ExplicitTiers(tiers) ==
  IF \E i \in DOMAIN tiers :
        \/ tiers[i].kind # "context"
        \/ ~Readable(tiers[i].prices)
        \/ tiers[i].prices = Unpriced
        \/ \E j \in DOMAIN tiers : i # j /\ tiers[i].at = tiers[j].at
  THEN Absent
  ELSE SortSeq([i \in DOMAIN tiers |-> Tier(tiers[i].at, tiers[i].prices)],
               LAMBDA x, y : x.at < y.at)

LegacyTiers(prices) ==
  IF prices = Absent THEN <<>>
  ELSE IF ~Readable(prices) \/ prices = Unpriced THEN Absent
  ELSE <<Tier(LegacyTier, prices)>>

ParseTiers(cost) == IF cost.tiers # Absent THEN ExplicitTiers(cost.tiers) ELSE LegacyTiers(cost.legacy)

\* CatalogSnapshot::parse of one model's cost: its pricing, or Absent.
EntryPricing(cost) ==
  IF cost = Absent \/ ~Readable(cost.base) \/ ParseTiers(cost) = Absent THEN Absent
  ELSE [prices |-> cost.base, tiers |-> ParseTiers(cost)]

PricedModels(body) == {e \in body.entries : EntryPricing(e.cost) # Absent}

\* The official provider's word, or one every listing agrees on.
ExactModelPricing(body, model) ==
  LET named == {e \in body.entries : e.model = model}
      own == {e \in named : OfficialProvider[model] # Absent /\ e.provider = OfficialProvider[model]}
      found == {EntryPricing(e.cost) : e \in IF own # {} THEN own ELSE named}
  IN IF Cardinality(found) = 1 THEN CHOOSE p \in found : TRUE ELSE Absent

ExactProviderModelPricing(body, provider, model) ==
  LET own == {e \in body.entries : e.provider = provider /\ e.model = model}
  IN IF own = {} THEN Absent ELSE EntryPricing((CHOOSE e \in own : TRUE).cost)

\* component_prices_from_model_pricing, context_price_tiers_from_model_pricing
\* and model_price_resolution.
UsablePricing(p) ==
  /\ \E f \in Components : p.prices[f] # Absent
  /\ Readable(p.prices)
  /\ \A i \in DOMAIN p.tiers : Readable(p.tiers[i].prices) /\ p.tiers[i].prices # Unpriced
  /\ \A i \in 1..Len(p.tiers) - 1 : p.tiers[i].at < p.tiers[i + 1].at

Resolution(kind, p) == [kind |-> kind, pricing |-> p]
MappingMissing == Resolution("model_mapping_missing", Absent)
ModelPriceResolution(p) ==
  CASE p = Absent -> MappingMissing
    [] ~UsablePricing(p) -> Resolution("catalog_entry_invalid", Absent)
    [] OTHER -> Resolution("resolved", p)

\* resolve_pricing_alias: the model's configured alias, never a reported price.
ResolvePricingAlias(alias, own, body) ==
  IF alias = Absent THEN MappingMissing
  ELSE IF own[alias] # Absent THEN ModelPriceResolution(own[alias])
  ELSE IF body = Absent THEN MappingMissing
  ELSE ModelPriceResolution(ExactModelPricing(body, alias))

\* resolve_attempt_price: the route's own price stands; only a route without one
\* is priced by the model the provider named, then by the alias. own is what the
\* account's models say, body the catalogue the request froze.
PricedByReport(route, reported, own, body) ==
  /\ route.kind = "model_mapping_missing"
  /\ reported # Absent
  /\ own[reported] # Absent \/ (body # Absent /\ ExactModelPricing(body, reported) # Absent)

ResolveAttemptPrice(route, reported, alias, own, body) ==
  CASE route.kind # "model_mapping_missing" -> route
    [] PricedByReport(route, reported, own, body) ->
         ModelPriceResolution(IF own[reported] # Absent THEN own[reported]
                              ELSE ExactModelPricing(body, reported))
    [] OTHER -> ResolvePricingAlias(alias, own, body)

\* prices_for_context: the last tier the context is strictly above.
PricesForContext(p, context) ==
  LET above == {i \in DOMAIN p.tiers : IsKnown(context) /\ context.n > p.tiers[i].at}
  IN IF above = {} THEN p.prices ELSE p.tiers[Cardinality(above)].prices

\* price_component: an amount, or why there is none.
PriceComponent(m, price) ==
  CASE IsKnown(m) /\ m.n = 0 -> [k |-> "priced", atoms |-> 0]
    [] IsKnown(m) /\ m.n > 0 ->
         IF price = Absent THEN [k |-> "component_price_missing", atoms |-> 0]
         ELSE IF m.n * price > AtomMax THEN [k |-> "arithmetic_overflow", atoms |-> 0]
         ELSE [k |-> "priced", atoms |-> m.n * price]
    [] ~IsKnown(m) /\ m.k # "not_applicable" /\ price # Absent ->
         [k |-> "usage_component_missing", atoms |-> 0]
    [] OTHER -> [k |-> "skip", atoms |-> 0]

Cost(status, atoms, reasons) == [status |-> status, atoms |-> atoms, reasons |-> reasons]
Unavailable(reason) == Cost("unavailable", 0, {reason})
NotDispatched == Unavailable("not_dispatched")

\* Reasoning the contract counts inside the output is not priced again.
Quantities(o, c) ==
  [uncached |-> o.uncached, read |-> o.read, write |-> o.write, output |-> o.output,
   reasoning |-> IF c.reasoningInside THEN NotApplicable ELSE o.reasoning, audio |-> o.audio]

\* The reasons an amount that could be computed is not the whole cost.
Shortfalls(o, p) ==
  UNION {IF o.billable THEN {"unmodeled_billable_component"} ELSE {},
         IF p.tiers # <<>> /\ ~IsKnown(o.context) THEN {"tier_basis_unavailable"} ELSE {},
         IF "model_mismatch" \in o.warnings THEN {"model_mismatch"} ELSE {},
         IF "field_conflict" \in o.warnings THEN {"usage_field_conflict"} ELSE {}}

ObservedCost(o, c, res) ==
  IF res.kind # "resolved" THEN Unavailable(res.kind)
  ELSE LET prices == PricesForContext(res.pricing, o.context)
           part == [f \in Components |-> PriceComponent(Quantities(o, c)[f], prices[f])]
           total == FoldSet(LAMBDA f, n : n + part[f].atoms, 0, Components)
           missing == {part[f].k : f \in Components} \ {"priced", "skip"}
           reasons == missing \union Shortfalls(o, res.pricing)
       IN IF "arithmetic_overflow" \in missing \/ total > AtomMax
          THEN Unavailable("arithmetic_overflow")
          ELSE Cost(IF reasons = {} THEN "complete" ELSE "partial", total, reasons)

\* storable_cost: an amount the column cannot hold becomes unavailable.
StorableCost(cost) ==
  IF cost.status = "unavailable" THEN cost
  ELSE IF cost.atoms > StoreMax
       THEN Cost("unavailable", 0, cost.reasons \union {"arithmetic_overflow"})
       ELSE cost
================================================================================
