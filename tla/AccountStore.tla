----------------------------- MODULE AccountStore -----------------------------
(***************************************************************************)
(* The rows of one provider account: what the repository's statements do   *)
(* to the account, its credential and its models. A revision counts the    *)
(* credentials written, identity the logins; models is a function from the *)
(* upstream models that have a row.                                        *)
(***************************************************************************)
EXTENDS Naturals

NoRow == [present |-> FALSE]
NoModels == [m \in {} |-> NoRow]

\* An inserted model, and one the discovery did not report.
NewModel == [enabled |-> TRUE, available |-> TRUE, price |-> "catalog"]

\* The upsert of a discovery: a manual price and the enabled flag are kept.
Upserted(model) ==
  [model EXCEPT !.available = TRUE, !.price = IF @ = "manual" THEN @ ELSE "catalog"]

\* The model part of commit_provider_snapshot.
WriteModels(models, found, write, reset) ==
  IF ~write THEN models
  ELSE LET old == IF reset THEN NoModels
                  ELSE [m \in DOMAIN models |-> [models[m] EXCEPT !.available = FALSE]]
       IN [m \in DOMAIN old \cup found |->
             IF m \notin DOMAIN old THEN NewModel
             ELSE IF m \in found THEN Upserted(old[m]) ELSE old[m]]

\* write_provider_model_update, of a model that has a row.
WriteOverride(row, model, enabled, price) ==
  LET old == row.models[model]
      new == [old EXCEPT !.enabled = enabled, !.price = IF price = "same" THEN @ ELSE price]
  IN [row EXCEPT !.models = [row.models EXCEPT ![model] = new]]

\* create_account's candidate.
NewAccount(patch) ==
  [present |-> TRUE, revision |-> 0, identity |-> 0, auth |-> "active", enabled |-> TRUE,
   visibility |-> patch.visibility, priority |-> patch.priority, config |-> patch.config,
   models |-> NoModels]

PatchOf(row) ==
  [visibility |-> row.visibility, priority |-> row.priority, config |-> row.config]

Patched(row, patch) ==
  [row EXCEPT !.visibility = patch.visibility, !.priority = patch.priority,
              !.config = patch.config]

\* replacement_credential, and the authentication state that goes with it.
ReplacementCredential(row) ==
  [row EXCEPT !.revision = @ + 1, !.identity = @ + 1, !.auth = "active"]

\* commit_provider_snapshot of an existing account: nothing is written when the
\* account is gone or its credential is not the expected one; the authentication
\* state is written only with a newer credential.
Commits(row, expected) == row.present /\ row.revision = expected
Committed(row, candidate, expected, found, write, reset) ==
  [candidate EXCEPT
     !.auth = IF candidate.revision > expected THEN @ ELSE row.auth,
     !.models = WriteModels(row.models, found, write, reset)]

\* update_provider_account.
WriteAccount(row, patch) == IF row.present THEN Patched(row, patch) ELSE row

\* compare_and_swap_credential and update_auth_state, by an account object.
Swapped(row) == [row EXCEPT !.revision = @ + 1, !.auth = "active"]
Marked(row) == [row EXCEPT !.auth = "reauth"]
===============================================================================
