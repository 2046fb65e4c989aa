--------------------------- MODULE PolicyLifecycle ---------------------------
(***************************************************************************)
(* The managed policy lifecycle (wayfinder-gateway/src/control_plane.rs):  *)
(* documents are validated, activated as immutable snapshots, and rolled   *)
(* back to the activation before.  Every mutation is audited first.        *)
(*                                                                         *)
(* A document is its profiles in order, its default and its bindings; the  *)
(* routing text of a profile is canonical or not.  Versions are content    *)
(* hashes: a policy is identified with its document.                       *)
(***************************************************************************)
EXTENDS ConfigReload

CONSTANTS
  Documents,     \* policy documents offered for activation
  Subjects,      \* client, workspace and key identities
  MAX_ACTIVATION_HISTORY,
  MAX_PROFILES,
  MAX_BINDINGS,
  MaxMutations   \* bound: receipts made in a behaviour

VARIABLES
  active,     \* the active receipt
  history,    \* receipts of the preceding activations, oldest first
  runtimes,   \* runtimes_by_snapshot
  lifecycle   \* the mutation in progress and its candidate

lifeVars == <<active, history, runtimes, lifecycle>>

NoReceipt == [policy |-> NoSnapshot, snapshot |-> 0]

BindingKinds == {"client", "workspace", "key"}

profile_ids(doc) == {doc.profiles[i].id : i \in DOMAIN doc.profiles}

(* default_profile_id: explicit, or the only profile.                      *)
HasDefault(doc) == doc.default # "none" \/ Len(doc.profiles) = 1
default_profile_id(doc) == IF doc.default # "none" THEN doc.default ELSE doc.profiles[1].id

(* Mutant: bindings are not checked against the profiles.                  *)
BUG_validate_shape(doc) ==
  /\ Len(doc.profiles) \in 1..MAX_PROFILES
  /\ Cardinality(profile_ids(doc)) = Len(doc.profiles)
  /\ HasDefault(doc) /\ default_profile_id(doc) \in profile_ids(doc)

(* validate_shape: 1 to MAX_PROFILES distinct profiles, a default among    *)
(* them, every binding to a known profile, one binding per target.         *)
validate_shape(doc) ==
  /\ Len(doc.profiles) \in 1..MAX_PROFILES
  /\ Len(doc.bindings) <= MAX_BINDINGS
  /\ Cardinality(profile_ids(doc)) = Len(doc.profiles)
  /\ HasDefault(doc) /\ default_profile_id(doc) \in profile_ids(doc)
  /\ \A i \in DOMAIN doc.bindings : doc.bindings[i].profile \in profile_ids(doc)
  /\ \A i, k \in DOMAIN doc.bindings :
       doc.bindings[i].kind = doc.bindings[k].kind /\ doc.bindings[i].subject = doc.bindings[k].subject
       => i = k

(* DraftPolicyVersion::validate: every profile parses as canonical text.   *)
validate(doc) ==
  validate_shape(doc) /\ \A i \in DOMAIN doc.profiles : doc.profiles[i].canonical

(* resolve: the key's binding, then the workspace's, then the client's,    *)
(* then the default profile.                                               *)
resolve(doc, context) ==
  LET Bound(kind) == {i \in DOMAIN doc.bindings :
                        doc.bindings[i].kind = kind /\ doc.bindings[i].subject = context[kind]}
      First(kind) == doc.bindings[CHOOSE i \in Bound(kind) : TRUE].profile
  IN  IF Bound("key") # {} THEN First("key")
      ELSE IF Bound("workspace") # {} THEN First("workspace")
      ELSE IF Bound("client") # {} THEN First("client")
      ELSE default_profile_id(doc)

Contexts == [BindingKinds -> Subjects \cup {"none"}]

LifeInit ==
  /\ active = NoReceipt /\ history = <<>> /\ runtimes = <<>>
  /\ lifecycle = [at |-> "boot", receipt |-> NoReceipt, receipts |-> 0]

new_receipt(policy) == [policy |-> policy, snapshot |-> lifecycle.receipts + 1]

Runtime(receipt) ==
  [edit |-> receipt.snapshot, version |-> receipt.snapshot,
   policy |-> receipt.policy, shadow |-> receipt.policy.shadow]

Restored(receipt) ==
  [runtimes[Last(history).snapshot] EXCEPT !.edit = receipt.snapshot,
                                           !.version = receipt.snapshot]

(* A mutation makes its receipt, adopts the runtime state of the current   *)
(* snapshot, and records its event before it installs anything.            *)
Mutate(step, action, receipt) ==
  /\ lifecycle.receipts < MaxMutations
  /\ lifecycle' = [at |-> step, receipt |-> receipt, receipts |-> lifecycle.receipts + 1]
  /\ record("lifecycle", action, receipt.snapshot)
  /\ UNCHANGED <<active, history, runtimes, holder>> /\ UNCHANGED shadowVars

bootstrap(doc) ==
  /\ lifecycle.at = "boot" /\ validate(doc)
  /\ Mutate("booting", "policy.activate", new_receipt(doc))
  /\ with_runtime_state_from(Runtime(new_receipt(doc)))

activate(doc) ==
  /\ lifecycle.at = "idle" /\ validate(doc)
  /\ Mutate("activating", "policy.activate", new_receipt(doc))
  /\ with_runtime_state_from(Runtime(new_receipt(doc)))

(* prepare fails: the failure is audited, the active policy stays.         *)
activate_failed(doc) ==
  /\ lifecycle.at = "idle" /\ validate(doc)
  /\ Mutate("reporting", "policy.activate_failed", new_receipt(doc))
  /\ UNCHANGED <<shadowActive, setBy>>

(* rollback: a target without a runtime is MissingRuntime.                 *)
rollback ==
  /\ lifecycle.at = "idle" /\ history # <<>>
  /\ Last(history).snapshot \in DOMAIN runtimes
  /\ LET receipt == new_receipt(Last(history).policy) IN
       /\ Mutate("rolling", "policy.rollback", receipt)
       /\ with_runtime_state_from(Restored(receipt))

Store(receipt, runtime) ==
  [s \in DOMAIN runtimes \cup {receipt.snapshot} |->
     IF s = receipt.snapshot THEN runtime ELSE runtimes[s]]

Acknowledged(step) == lifecycle.at = step /\ Answered("lifecycle", "ok")

Done ==
  /\ lifecycle' = [lifecycle EXCEPT !.at = "idle"]
  /\ TakeReply("lifecycle")
  /\ UNCHANGED <<queue, closing, worker, localLog, sharedLog, issued, acked, faults>>
  /\ UNCHANGED <<shadowActive, setBy>> /\ UNCHANGED shadowVars

BootInstalls ==
  /\ Acknowledged("booting")
  /\ holder' = Fresh(lifecycle.receipt.snapshot, Runtime(lifecycle.receipt))
  /\ active' = lifecycle.receipt /\ history' = <<>>
  /\ runtimes' = Store(lifecycle.receipt, Runtime(lifecycle.receipt))
  /\ Done

(* Mutant: a rollback keeps its target in the history.                     *)
BUG_RollbackInstalls ==
  /\ Acknowledged("rolling")
  /\ LET receipt == lifecycle.receipt
         runtime == Restored(receipt)
     IN /\ holder' = refresh(receipt.snapshot, runtime)
        /\ runtimes' = Store(receipt, runtime)
        /\ active' = receipt /\ history' = history
  /\ Done

(* refresh installs; a full history forgets its oldest entry and runtime.  *)
ActivateInstalls ==
  /\ Acknowledged("activating")
  /\ LET receipt == lifecycle.receipt
         full == Len(history) = MAX_ACTIVATION_HISTORY
         stored == Store(receipt, Runtime(receipt))
     IN /\ holder' = refresh(receipt.snapshot, Runtime(receipt))
        /\ runtimes' = IF full THEN Restrict(stored, DOMAIN stored \ {Head(history).snapshot})
                       ELSE stored
        /\ history' = Append(IF full THEN Tail(history) ELSE history, active)
        /\ active' = receipt
  /\ Done

RollbackInstalls ==
  /\ Acknowledged("rolling")
  /\ LET receipt == lifecycle.receipt
         runtime == Restored(receipt)
         stored == Store(receipt, runtime)
     IN /\ holder' = refresh(receipt.snapshot, runtime)
        /\ runtimes' = Restrict(stored, DOMAIN stored \ {active.snapshot})
        /\ history' = Front(history)
        /\ active' = receipt
  /\ Done

(* The audit refused or failed, the report is done, or the mutation's      *)
(* future was dropped while it waited: nothing is installed.               *)
NothingInstalled ==
  /\ lifecycle.at \in {"booting", "activating", "rolling", "reporting"}
  /\ lifecycle' = [lifecycle EXCEPT !.at = IF lifecycle.at = "booting" THEN "boot" ELSE "idle"]
  /\ TakeReply("lifecycle")
  /\ UNCHANGED <<queue, closing, worker, localLog, sharedLog, issued, acked, faults>>
  /\ UNCHANGED <<active, history, runtimes>> /\ UNCHANGED goodVars

Lifecycle ==
  \/ \E doc \in Documents : bootstrap(doc) \/ activate(doc) \/ activate_failed(doc)
  \/ rollback
  \/ BootInstalls \/ ActivateInstalls \/ RollbackInstalls \/ NothingInstalled
=============================================================================
