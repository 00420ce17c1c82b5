---------------------------- MODULE CatalogRefresh ----------------------------
(***************************************************************************)
(* How the price catalogue reaches the routed models: the refresher        *)
(* (crates/provider-usage/src/refresh.rs) keeps one document in storage    *)
(* and in memory, and the server's two background jobs                     *)
(* (crates/provider-server/src/app.rs) write the prices found in memory    *)
(* into every enabled account's models: one once at startup, one after     *)
(* every document that was installed.                                      *)
(***************************************************************************)
EXTENDS Pricing

CONSTANTS Accounts,   \* the accounts, each with one model
          Listing,    \* [Accounts -> [model, alias, build, provider, manual, contract]]
          Models,
          Document,   \* what each revision of the catalogue says: [parses, entries]
          Menu        \* [name -> what a behaviour may meet, and its bounds]

VARIABLES menu,       \* the name of the behaviour's bounds
          published,  \* [body, tag]: the revision upstream and its validator
          stored,     \* usage_catalog: [body, tag, error], or Absent
          memory,     \* CatalogPrices: the installed document, or Absent
          routed,     \* [Accounts -> pricing of its model, or Absent]
          ref,        \* the refresher: [at, held, body, tag]
          job,        \* [Jobs -> [at, todo, acct, price, failed]]
          pending,    \* CatalogApplyState
          count       \* how often each bounded event has happened

catalogVars == <<menu, published, stored, memory, routed, ref, job, pending, count>>

Bound == Menu[menu]
Enabled == Bound.accounts
Parsed(body) == IF body = Absent THEN Absent ELSE Document[body]

Jobs == {"startup", "periodic"}
NoJob == [at |-> "idle", todo |-> {}, acct |-> Absent, price |-> Absent, failed |-> FALSE]
Boot == [at |-> "boot", held |-> Absent, body |-> Absent, tag |-> Absent]

\* attach_catalog: the exact price of the model, else of its pricing alias.
ExactPricing(body, provider, model) ==
  IF provider = Absent THEN ExactModelPricing(body, model)
  ELSE ExactProviderModelPricing(body, provider, model)

PriceIn(body, a) ==
  LET own == Listing[a]
      exact(model) == IF body = Absent \/ model = Absent THEN Absent
                      ELSE ExactPricing(Parsed(body), own.provider, model)
  IN IF exact(own.model) # Absent THEN exact(own.model) ELSE exact(own.alias)
CatalogPrice(a) == PriceIn(memory, a)

\* What the row holds once this price is committed: a manual price stands.
RowPrice(a, price) == IF Listing[a].manual # Absent THEN Listing[a].manual ELSE price

\* A first start, or a server that has been up and has applied its catalogue.
CatalogInit ==
  /\ published = [body |-> Bound.first, tag |-> 1]
  /\ stored = IF Bound.warm THEN [body |-> Bound.first, tag |-> 1, error |-> Absent] ELSE Absent
  /\ memory = IF Bound.warm THEN Bound.first ELSE Absent
  /\ routed = [a \in Accounts |-> RowPrice(a, PriceIn(memory, a))]
  /\ ref = IF Bound.warm THEN [Boot EXCEPT !.at = IF Bound.sync THEN "tick" ELSE "off"] ELSE Boot
  /\ job = [p \in Jobs |-> IF Bound.warm /\ p = "startup" THEN [NoJob EXCEPT !.at = "done"] ELSE NoJob]
  /\ pending = FALSE
  /\ count = [publish |-> 1, fault |-> 0, restart |-> 0]

Counted(event) == count[event] < Bound[event] /\ count' = [count EXCEPT ![event] = @ + 1]
\* A call that may fail: ok is TRUE, or the fault budget pays for FALSE.
Outcome(ok) == IF ok THEN UNCHANGED count ELSE Counted("fault")

(***************************************************************************)
(* models.dev: a new document, or the same one under another validator, or *)
(* under none.                                                             *)
(***************************************************************************)
Publish(body, tagged) ==
  /\ Counted("publish")
  /\ published' = [body |-> body, tag |-> IF tagged THEN count.publish + 1 ELSE Absent]
  /\ UNCHANGED <<menu, stored, memory, routed, ref, job, pending>>

(***************************************************************************)
(* CatalogRefresher.                                                       *)
(***************************************************************************)
\* install_stored; without a document, and with sync on, refresh_once follows.
InstallStored(ok) ==
  /\ ref.at = "boot"
  /\ Outcome(ok)
  /\ memory' = IF ok /\ stored # Absent THEN stored.body ELSE Absent
  /\ ref' = [ref EXCEPT !.at = IF memory' = Absent /\ Bound.sync THEN "initial" ELSE "serve"]
  /\ UNCHANGED <<menu, published, stored, routed, job, pending>>

\* app::run goes on to spawn the startup job and, by catalog_run_mode, the other.
Serve ==
  /\ ref.at = "serve"
  /\ ref' = [ref EXCEPT !.at = IF Bound.sync THEN "tick" ELSE "off"]
  /\ job' = [p \in Jobs |->
               IF p = "startup" \/ (~Bound.sync /\ memory # Absent)
               THEN [NoJob EXCEPT !.at = "next", !.todo = Enabled] ELSE NoJob]
  /\ UNCHANGED <<menu, published, stored, memory, routed, pending, count>>

\* refresh_once, up to the fetch: what is held decides the validators sent.
LoadHeld(ok) ==
  /\ ref.at \in {"initial", "tick"}
  /\ Outcome(ok)
  /\ ref' = [ref EXCEPT !.at = IF @ = "initial" THEN "fetch_initial" ELSE "fetch",
                        !.held = IF ok THEN stored ELSE Absent]
  /\ UNCHANGED <<menu, published, stored, memory, routed, job, pending>>

Initial == ref.at \in {"fetch_initial", "store_initial", "install_initial"}

\* Mutant of Settle: whatever the refresh said, nothing is left to apply.
SettleForgets(outcome) ==
  /\ pending' = (~Initial /\ outcome = "installed")
  /\ ref' = [ref EXCEPT !.at = IF Initial THEN "serve" ELSE IF pending' THEN "apply" ELSE "tick",
                        !.body = Absent, !.tag = Absent, !.held = Absent]
  /\ job' = IF pending' THEN [job EXCEPT !["periodic"] = [NoJob EXCEPT !.at = "next", !.todo = Enabled]]
            ELSE job

\* Mutant of Settle: only a tick that installed a document applies one.
SettleWaits(outcome) ==
  /\ pending' = (pending \/ (~Initial /\ outcome = "installed"))
  /\ ref' = [ref EXCEPT !.at = IF Initial THEN "serve" ELSE IF outcome = "installed" THEN "apply" ELSE "tick",
                        !.body = Absent, !.tag = Absent, !.held = Absent]
  /\ job' = IF outcome = "installed" /\ ~Initial
            THEN [job EXCEPT !["periodic"] = [NoJob EXCEPT !.at = "next", !.todo = Enabled]]
            ELSE job

\* observe_fetch, and the tick that goes on to apply what is pending.
Settle(outcome) ==
  /\ pending' = (pending \/ (~Initial /\ outcome = "installed"))
  /\ ref' = [ref EXCEPT !.at = IF Initial THEN "serve" ELSE IF pending' THEN "apply" ELSE "tick",
                        !.body = Absent, !.tag = Absent, !.held = Absent]
  /\ job' = IF pending' THEN [job EXCEPT !["periodic"] = [NoJob EXCEPT !.at = "next", !.todo = Enabled]]
            ELSE job

\* note_check: never the body, never the validators.
NoteCheck(error) == stored' = IF stored = Absent THEN Absent ELSE [stored EXCEPT !.error = error]

Fresh == ~(ref.held # Absent /\ ref.held.tag # Absent /\ ref.held.tag = published.tag)

\* What a fetched body is good for.
Verdict(body) ==
  CASE ref.held # Absent /\ ref.held.body = body -> "already_current"
    [] ~Document[body].parses -> "malformed"
    [] PricedModels(Document[body]) = {} -> "empty"
    [] OTHER -> "store"

\* The conditional fetch and the early returns after it.
Fetch(ok) ==
  /\ ref.at \in {"fetch", "fetch_initial"}
  /\ Outcome(ok)
  /\ IF ok /\ Fresh /\ Verdict(published.body) = "store"
     THEN /\ ref' = [ref EXCEPT !.at = IF Initial THEN "store_initial" ELSE "store",
                                !.body = published.body, !.tag = published.tag]
          /\ UNCHANGED <<stored, pending, job>>
     ELSE LET error == CASE ~ok -> "request_failed"
                         [] ok /\ Fresh /\ Verdict(published.body) # "already_current" ->
                              Verdict(published.body)
                         [] OTHER -> Absent
          IN NoteCheck(error) /\ Settle(error)
  /\ UNCHANGED <<menu, published, memory, routed>>

StoreCatalog(ok) ==
  /\ ref.at \in {"store", "store_initial"}
  /\ Outcome(ok)
  /\ IF ok
     THEN /\ stored' = [body |-> ref.body, tag |-> ref.tag, error |-> Absent]
          /\ ref' = [ref EXCEPT !.at = IF Initial THEN "install_initial" ELSE "install"]
          /\ UNCHANGED <<pending, job>>
     ELSE Settle("store_failed") /\ UNCHANGED stored
  /\ UNCHANGED <<menu, published, memory, routed>>

Install ==
  /\ ref.at \in {"install", "install_initial"}
  /\ memory' = ref.body
  /\ Settle("installed")
  /\ UNCHANGED <<menu, published, stored, routed, count>>

(***************************************************************************)
(* refresh_enabled_model_catalogs, one account at a time under its gate.   *)
(***************************************************************************)
Gated(a) == \E p \in Jobs : job[p].at = "commit" /\ job[p].acct = a

\* The gate is taken, the models are discovered and the catalogue is read.
Discover(p, a, ok) ==
  /\ job[p].at = "next" /\ a \in job[p].todo
  /\ ~Gated(a)
  /\ Outcome(ok)
  /\ job' = [job EXCEPT ![p].todo = @ \ {a},
                        ![p].at = IF ok THEN "commit" ELSE "next",
                        ![p].acct = IF ok THEN a ELSE Absent,
                        ![p].price = IF ok THEN CatalogPrice(a) ELSE Absent,
                        ![p].failed = @ \/ ~ok]
  /\ UNCHANGED <<menu, published, stored, memory, routed, ref, pending>>

\* The transaction reads the rows back, and a price that cannot be used undoes it.
CommitModels(p, ok) ==
  /\ job[p].at = "commit"
  /\ Outcome(ok)
  /\ LET a == job[p].acct
         kept == RowPrice(a, job[p].price)
         good == ok /\ (kept = Absent \/ UsablePricing(kept))
     IN /\ routed' = IF good THEN [routed EXCEPT ![a] = kept] ELSE routed
        /\ job' = [job EXCEPT ![p] = [@ EXCEPT !.at = "next", !.acct = Absent, !.price = Absent,
                                               !.failed = @ \/ ~good]]
  /\ UNCHANGED <<menu, published, stored, memory, ref, pending>>

\* The last account is done. A failure is retried at the next tick, except at startup.
JobDone(p) ==
  /\ job[p].at = "next" /\ job[p].todo = {}
  /\ job' = [job EXCEPT ![p] =
               IF p = "periodic" /\ ~Bound.sync /\ job[p].failed
               THEN [NoJob EXCEPT !.at = "next", !.todo = Enabled]
               ELSE [NoJob EXCEPT !.at = "done", !.failed = job[p].failed]]
  /\ pending' = IF p = "periodic" /\ ~job[p].failed THEN FALSE ELSE pending
  /\ ref' = IF p = "periodic" /\ Bound.sync THEN [ref EXCEPT !.at = "tick"] ELSE ref
  /\ UNCHANGED <<menu, published, stored, memory, routed, count>>

\* The process ends and starts again: only what is stored survives.
RestartCatalog ==
  /\ Counted("restart")
  /\ memory' = Absent
  /\ ref' = Boot
  /\ job' = [p \in Jobs |-> NoJob]
  /\ pending' = FALSE
  /\ UNCHANGED <<menu, published, stored, routed>>

RefresherStep ==
  \/ \E ok \in BOOLEAN : InstallStored(ok) \/ LoadHeld(ok) \/ Fetch(ok) \/ StoreCatalog(ok)
  \/ Serve \/ Install
JobStep(p) ==
  \/ \E a \in Enabled, ok \in BOOLEAN : Discover(p, a, ok)
  \/ \E ok \in BOOLEAN : CommitModels(p, ok)
  \/ JobDone(p)

(***************************************************************************)
(* Properties.                                                             *)
(***************************************************************************)
\* What a restart would install is what is installed: memory and storage agree
\* but for the moment between the commit of a document and its installation, so
\* a restart never changes what requests are priced from (refresh.rs,
\* refresh_once; repository.rs, store_catalog and record_catalog_check).
MemoryIsStored ==
  memory # Absent =>
    \/ stored # Absent /\ stored.body = memory
    \/ ref.at = "install" /\ stored.body = ref.body

\* Once the jobs of this process are done, and the last of them succeeded for
\* every account, each account's model carries the price the installed document
\* gives it, whatever order the two jobs and the installation came in; a manual
\* price is never touched (app.rs, the startup and periodic jobs; manager.rs,
\* refresh_enabled_model_catalogs).
RoutedFollowsCatalog ==
  /\ \A a \in Accounts : Listing[a].manual # Absent => routed[a] = Listing[a].manual
  /\ (/\ \A p \in Jobs : job[p].at \in {"idle", "done"}
      /\ ref.at \in {"tick", "off"}
      /\ ~pending
      /\ job["startup"].at = "done"
      /\ \E p \in Jobs : job[p].at = "done" /\ ~job[p].failed)
     => \A a \in Enabled : routed[a] = RowPrice(a, CatalogPrice(a))

\* Memory follows the database and the routes follow memory.
CatalogFollowed == MemoryIsStored /\ RoutedFollowsCatalog

\* A document that was installed is applied to every account sooner or later, or
\* the process restarts: a failed account keeps it pending (app.rs,
\* CatalogApplyState).
PendingIsApplied == pending ~> ~pending

\* A document in use prices at least one model (refresh.rs, the priced_model_count
\* check: "Valid JSON that prices nothing is not an improvement on what we hold,
\* and installing it would silently stop pricing everything").
InstalledPrices ==
  memory # Absent => \E e \in PricedModels(Parsed(memory)) : UsablePricing(EntryPricing(e.cost))
===============================================================================
