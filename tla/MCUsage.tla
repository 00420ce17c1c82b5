------------------------------- MODULE MCUsage -------------------------------
(* Instances of Usage for TLC. *)
EXTENDS Usage

MCModels == {"g", "v", "gb"}
MCOfficial == "g" :> "lab" @@ "v" :> Absent @@ "gb" :> Absent

Rates(u, r, o) == [Unpriced EXCEPT !.uncached = u, !.read = r, !.output = o]
Plain(prices) == [base |-> prices, tiers |-> Absent, legacy |-> Absent]
Tiered(prices, tiers) == [base |-> prices, tiers |-> tiers, legacy |-> Absent]
At(n, prices) == [kind |-> "context", at |-> n, prices |-> prices]
Lists(provider, model, cost) == [provider |-> provider, model |-> model, cost |-> cost]
Doc(entries) == [parses |-> TRUE, entries |-> entries]

MCDocument ==
     "low"    :> Doc({Lists("lab", "g", Plain(Rates(2, 1, 3))), Lists("go", "g", Plain(Rates(1, 1, 1))),
                      Lists("shop", "v", Plain(Rates(5, 5, 5))), Lists("mall", "v", Plain(Rates(5, 5, 5)))})
  @@ "high"   :> Doc({Lists("lab", "g", Plain(Rates(4, 1, 6))), Lists("go", "g", Plain(Rates(1, 2, 3))),
                      Lists("shop", "v", Plain(Rates(5, 5, 5))), Lists("mall", "v", Plain(Rates(6, 5, 5)))})
  @@ "bare"   :> Doc({Lists("shop", "v", Plain(Rates(1, 1, 1)))})
  @@ "none"   :> Doc({Lists("lab", "g", Absent)})
  @@ "broken" :> [parses |-> FALSE, entries |-> {}]
  @@ "hollow" :> Doc({Lists("lab", "g", Plain(Unpriced))})
  @@ "tiers"  :> Doc({Lists("lab", "g", Tiered(Rates(1, 0, 2), <<At(3, Rates(4, 3, 5)), At(2, Rates(2, 1, 2))>>)),
                      Lists("go", "g", [base |-> Rates(1, Absent, 2), tiers |-> Absent,
                                        legacy |-> Rates(3, 3, 3)])})
  @@ "partly" :> Doc({Lists("lab", "g", Plain(Rates(2, Absent, 3))),
                      Lists("go", "g", Plain([Rates(1, 0, 1) EXCEPT !.audio = 2, !.write = 1]))})
  @@ "input"  :> Doc({Lists("lab", "g", Plain(Rates(2, 3, Absent))), Lists("go", "g", Plain(Rates(9, 9, 9)))})
  @@ "odd"    :> Doc({Lists("lab", "g", Tiered(Rates(1, 1, 1), <<[At(2, Rates(2, 1, 2)) EXCEPT !.kind = "other"]>>)),
                      Lists("go", "g", Plain(Rates(-1, 1, 1)))})

Account(model, alias, build, provider, manual, contract) ==
  [model |-> model, alias |-> alias, build |-> build, provider |-> provider, manual |-> manual,
   contract |-> contract]
MCListing ==
     "grok"   :> Account("g", Absent, "gb", Absent, Absent, GrokContract)
  @@ "gravity" :> Account("v", "g", Absent, Absent, Absent, AntigravityContract)
  @@ "relay"  :> Account("g", Absent, Absent, "go", Absent, OpenAiCompatibleContract)
  @@ "pinned" :> Account("g", Absent, Absent, Absent, [prices |-> Rates(7, 7, 7), tiers |-> <<>>],
                         CodexContract)
MCAccounts == DOMAIN MCListing

Raw(i, r, w, o, t, a, im) ==
  [input |-> i, read |-> r, write |-> w, output |-> o, reasoning |-> Absent, audio |-> a,
   image |-> im, total |-> t]
MCUsages ==
     "all" :> {Absent} \union
       {Raw(i, r, Absent, o, t, Absent, Absent) :
          i \in {Absent, -1, 0, 2, 3, 9}, r \in {Absent, 0, 1, 5}, o \in {Absent, 0, 2},
          t \in {Absent, 2, 4, 5}} \union
       {Raw(i, r, w, 2, t, a, im) :
          i \in {0, 2, 3}, r \in {Absent, 1}, t \in {Absent, 5},
          <<w, a, im>> \in {<<1, Absent, Absent>>, <<Absent, 2, Absent>>, <<Absent, 0, 1>>}}
  @@ "few" :> {Absent, Raw(3, 1, Absent, 2, 5, Absent, Absent)}
  @@ "one" :> {Raw(3, 1, Absent, 2, 5, Absent, Absent)}
  @@ "cached" :> {Raw(3, 1, Absent, 2, 5, Absent, Absent), Raw(1, 3, Absent, 1, 2, Absent, Absent)}

Quiet == [sync |-> FALSE, warm |-> TRUE, bodies |-> {}, first |-> "low", publish |-> 1, fault |-> 0,
          restart |-> 0, accounts |-> {"grok"}, requests |-> {1}, attempts |-> 1, answered |-> {FALSE},
          streams |-> TRUE, drops |-> FALSE, priced |-> {TRUE}, usages |-> "one", reported |-> {"g"}, sent |-> {TRUE},
          verdicts |-> {"yes"}, time |-> 1, window |-> 1, batch |-> 1, limit |-> 0]
\* The whole metering chain: any usage, under every kind of price.
Meter(first) == [Quiet EXCEPT !.first = first, !.accounts = {"grok", "gravity", "relay"}, !.usages = "all"]
MCMenu ==
     "low"    :> Meter("low")
  @@ "tiers"  :> Meter("tiers")
  @@ "partly" :> Meter("partly")
  @@ "input"  :> Meter("input")
  @@ "odd"    :> Meter("odd")
  \* Which rule prices an attempt, whatever model the upstream names.
  @@ "models" :> [Quiet EXCEPT !.accounts = MCAccounts, !.priced = BOOLEAN, !.usages = "few",
                               !.reported = {Absent, "g", "v", "gb"}]
  \* The life of a request: cut short anywhere, lost writes, a restart.
  @@ "life"   :> [Quiet EXCEPT !.fault = 1, !.restart = 1, !.attempts = 2, !.answered = BOOLEAN, !.drops = TRUE,
                               !.verdicts = {"none", "yes", "no"}, !.sent = BOOLEAN]
  \* Two attempts while the catalogue moves from one document to another.
  @@ "moving" :> [Quiet EXCEPT !.sync = TRUE, !.bodies = {"high"}, !.publish = 2, !.attempts = 2,
                               !.accounts = {"grok", "gravity"}, !.priced = BOOLEAN]
  \* The catalogue alone, from the first start.
  @@ "catalog" :> [Quiet EXCEPT !.sync = TRUE, !.warm = FALSE, !.bodies = {"high", "none", "broken"},
                               !.publish = 2, !.fault = 1, !.restart = 1, !.requests = {},
                               !.accounts = {"gravity", "pinned"}]
  \* Sync turned off: what is stored is applied until it succeeds.
  @@ "frozen" :> [Quiet EXCEPT !.fault = 2, !.restart = 2, !.requests = {},
                               !.accounts = {"gravity", "pinned"}]
  \* Walking the list while requests complete and expire.
  @@ "pages"  :> [Quiet EXCEPT !.requests = {1, 2, 3}, !.streams = FALSE, !.time = 2, !.window = 0,
                               !.limit = 1]
  \* Two requests counted together.
  @@ "totals" :> [Quiet EXCEPT !.requests = {1, 2}, !.usages = "cached"]

\* A document whose costs carry no rate at all.
MCHollowMenu == "hollow" :> [MCMenu["catalog"] EXCEPT !.bodies = {"hollow"}, !.accounts = {"grok"},
                                                      !.fault = 0, !.publish = 2]
==============================================================================
