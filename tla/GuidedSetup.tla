----------------------------- MODULE GuidedSetup -----------------------------
(***************************************************************************)
(* The desktop's guided setup (wayfinder-cli/src/setup_command.rs): it      *)
(* connects one hosted provider by storing a key in the desktop keyring,    *)
(* writing the routing policy and restarting the user service              *)
(* (service_command.rs), and it takes all of that back.                    *)
(*                                                                         *)
(* One operation runs at a time, under an exclusive file lock, but it may   *)
(* end at any of its awaits or writes (an error, the 90-second limit,       *)
(* SIGTERM, a crash): what it has written stays.  Its journal, state.json,  *)
(* must let the next operation find everything.  The user edits the policy  *)
(* and the service whenever they like.  Texts are records: the starter      *)
(* policy, the policy that setup generates for a model and a key reference, *)
(* or anything else.                                                       *)
(***************************************************************************)
EXTENDS Integers, FiniteSets

CONSTANTS
  Models,    \* model names that the provider may list
  MaxItems   \* bound on the key references generated

\* "none" stands for no model at all.
ASSUME SetupAssumption == "none" \notin Models /\ MaxItems \in Nat

VARIABLES
  config,    \* the text of wayfinder-router.toml
  journal,   \* omarchy-setup/state.json
  keyring,   \* key references under which the keyring holds a secret
  unit,      \* the service's unit file is installed
  service,   \* the policy that the running service has loaded, or Off
  doing,     \* the operation that holds the lock
  items,     \* key references generated so far
  edited     \* the user has edited the policy

setupVars == <<config, journal, keyring, unit, service, doing, items, edited>>
disk == <<config, journal, keyring, unit, service>>

None == "none"
KeyReferences == 1 .. MaxItems
NoItem == 0
Starter == [kind |-> "starter", model |-> None, item |-> NoItem]
Custom == [kind |-> "custom", model |-> None, item |-> NoItem]
policy(model, item) == [kind |-> "policy", model |-> model, item |-> item]
Off == [kind |-> "off", model |-> None, item |-> NoItem]

\* An absent state.json loads as the empty object: no item.
NoJournal ==
  [stage |-> "provider", item |-> NoItem, model |-> None, models |-> {}, verifiedAt |-> FALSE]
Idle ==
  [name |-> None, at |-> None, model |-> None, state |-> NoJournal, current |-> Off]

\* May setup touch this text?  Only the starter or the policy its journal names.
unchanged(state, text) ==
  \/ text = Starter
  \/ state.model # None /\ state.item # NoItem /\ text = policy(state.model, state.item)

-----------------------------------------------------------------------------
(* Every operation is a sequence of steps, one per durable effect or await.  *)

At(name, step) == doing.name = name /\ doing.at = step
GoTo(step) == doing' = [doing EXCEPT !.at = step]
GoWith(step, state) == doing' = [doing EXCEPT !.at = step, !.state = state]
Done == doing' = Idle
save(state) == journal' = state
Quiet == UNCHANGED <<items, edited>>

\* load, the check that the policy is setup's own, and what an action refuses.
Begin(name, model, step) ==
  /\ doing = Idle
  /\ unchanged(journal, config)
  /\ doing' = [name |-> name, at |-> step, model |-> model, state |-> journal,
            current |-> config]
  /\ UNCHANGED <<disk, items, edited>>

\* An error, the time limit, a signal or a crash: what is written stays written.
Abort ==
  /\ doing # Idle
  /\ Done
  /\ UNCHANGED <<disk, items, edited>>

-----------------------------------------------------------------------------
(* discover: list the models with the key, note the reference, store the key. *)

discover ==
  /\ journal.item = NoItem \/ journal.stage = "saving-key"
  /\ Begin("discover", None, "list")

\* A reference left by an interrupted attempt is used again.
discover_journal ==
  /\ At("discover", "list")
  /\ \E models \in SUBSET Models \ {{}} :
       LET old == doing.state.item
           item == IF old = NoItem THEN items + 1 ELSE old
           state == [NoJournal EXCEPT !.stage = "saving-key", !.item = item, !.models = models]
       IN /\ item \in KeyReferences
          /\ items' = IF old = NoItem THEN item ELSE items
          /\ save(state)
          /\ GoWith("store", state)
  /\ UNCHANGED <<config, keyring, unit, service, edited>>

discover_store ==
  /\ At("discover", "store")
  /\ keyring' = keyring \cup {doing.state.item}
  /\ GoTo("note")
  /\ UNCHANGED <<config, journal, unit, service>> /\ Quiet

discover_done ==
  /\ At("discover", "note")
  /\ save([doing.state EXCEPT !.stage = "model"])
  /\ Done
  /\ UNCHANGED <<config, keyring, unit, service>> /\ Quiet

\* The stored key lists the provider's models anew; the verification is dropped.
refresh_models ==
  /\ journal.item # NoItem
  /\ Begin("refresh-models", None, "lookup")

refresh_done ==
  /\ At("refresh-models", "lookup")
  /\ doing.state.item \in keyring
  /\ \E models \in SUBSET Models \ {{}} :
       save([doing.state EXCEPT !.models = models, !.verifiedAt = FALSE])
  /\ Done
  /\ UNCHANGED <<config, keyring, unit, service>> /\ Quiet

-----------------------------------------------------------------------------
(* activate: journal the model, replace the policy, restart the service.     *)

activate(model) ==
  /\ journal.stage = "model" /\ model \in journal.models
  /\ Begin("activate", model, "journal")

\* The policy is compared with what was read at the start, then the journal
\* names the model before the policy does.
activate_journal ==
  /\ At("activate", "journal")
  /\ config = doing.current
  /\ LET state == [doing.state EXCEPT !.stage = "activating", !.model = doing.model]
     IN save(state) /\ GoWith("write", state)
  /\ UNCHANGED <<config, keyring, unit, service>> /\ Quiet

activate_write ==
  /\ At("activate", "write")
  /\ config' = policy(doing.model, doing.state.item)
  /\ GoTo("install")
  /\ UNCHANGED <<journal, keyring, unit, service>> /\ Quiet

activate_done ==
  /\ At("activate", "note")
  /\ save([doing.state EXCEPT !.stage = "test"])
  /\ Done
  /\ UNCHANGED <<config, keyring, unit, service>> /\ Quiet

-----------------------------------------------------------------------------
(* restart: service install (write the unit, enable --now), then restart.    *)

Restarting == {"activate", "repair", "disconnect"}

install ==
  /\ doing.name \in Restarting /\ doing.at = "install"
  /\ unit' = TRUE
  /\ service' = IF service = Off THEN config ELSE service
  /\ GoTo("restart")
  /\ UNCHANGED <<config, journal, keyring>> /\ Quiet

restart ==
  /\ doing.name \in Restarting /\ doing.at = "restart"
  /\ service' = config
  /\ IF doing.name = "activate" THEN GoTo("note") ELSE Done
  /\ UNCHANGED <<config, journal, keyring, unit>> /\ Quiet

-----------------------------------------------------------------------------
(* test: the running service must serve the selected model with the key.     *)

test ==
  /\ journal.model # None /\ config = policy(journal.model, journal.item)
  /\ Begin("test", None, "journal")

test_journal ==
  /\ At("test", "journal")
  /\ LET state == [doing.state EXCEPT !.stage = "test", !.verifiedAt = FALSE]
     IN save(state) /\ GoWith("serve", state)
  /\ UNCHANGED <<config, keyring, unit, service>> /\ Quiet

\* Health, the running model with its key, one answer and its receipt.
test_serve ==
  /\ At("test", "serve")
  /\ service = policy(doing.state.model, doing.state.item)
  /\ doing.state.item \in keyring
  /\ GoTo("note")
  /\ UNCHANGED disk /\ Quiet

test_done ==
  /\ At("test", "note")
  /\ save([doing.state EXCEPT !.stage = "verified", !.verifiedAt = TRUE])
  /\ Done
  /\ UNCHANGED <<config, keyring, unit, service>> /\ Quiet

-----------------------------------------------------------------------------
(* repair: agree with the policy that is on disk, then restart.              *)

repair == Begin("repair", None, "journal")

repair_journal ==
  /\ At("repair", "journal")
  /\ LET plain == [doing.state EXCEPT !.verifiedAt = FALSE]
     IN IF plain.model = None
        THEN UNCHANGED journal
        ELSE save(IF doing.current = policy(plain.model, plain.item)
                  THEN [plain EXCEPT !.stage = "test"]
                  ELSE [plain EXCEPT !.stage = "model", !.model = None])
  /\ GoTo("install")
  /\ UNCHANGED <<config, keyring, unit, service>> /\ Quiet

-----------------------------------------------------------------------------
(* disconnect: stop, journal, restore the starter, clear and confirm, forget. *)

disconnect ==
  /\ journal.item # NoItem
  /\ Begin("disconnect", None, "stop")

\* systemctl knows the unit only once it is installed.
disconnect_stop ==
  /\ At("disconnect", "stop") /\ unit
  /\ service' = Off
  /\ GoTo("journal")
  /\ UNCHANGED <<config, journal, keyring, unit>> /\ Quiet

disconnect_journal ==
  /\ At("disconnect", "journal")
  /\ LET state == [doing.state EXCEPT !.stage = "disconnecting", !.verifiedAt = FALSE]
     IN save(state) /\ GoWith("write", state)
  /\ UNCHANGED <<config, keyring, unit, service>> /\ Quiet

disconnect_write ==
  /\ At("disconnect", "write")
  /\ config' = Starter
  /\ GoTo("clear")
  /\ UNCHANGED <<journal, keyring, unit, service>> /\ Quiet

\* clear may report success without removing the secret; confirm looks again.
disconnect_clear ==
  /\ At("disconnect", "clear")
  /\ keyring' \in {keyring, keyring \ {doing.state.item}}
  /\ GoTo("confirm")
  /\ UNCHANGED <<config, journal, unit, service>> /\ Quiet

BUG_disconnect_forget ==
  /\ At("disconnect", "confirm")
  /\ save(NoJournal)
  /\ GoTo("install")
  /\ UNCHANGED <<config, keyring, unit, service>> /\ Quiet
disconnect_forget ==
  /\ At("disconnect", "confirm")
  /\ doing.state.item \notin keyring
  /\ save(NoJournal)
  /\ GoTo("install")
  /\ UNCHANGED <<config, keyring, unit, service>> /\ Quiet

-----------------------------------------------------------------------------
(* The user and the service, at any time.                                   *)

EditPolicy ==
  /\ edited' = TRUE
  /\ config' \in {Custom, Starter} \ {config}
  /\ UNCHANGED <<journal, keyring, unit, service, doing, items>>

\* wayfinder-router service uninstall: disable, then remove the unit.
uninstall ==
  /\ unit
  /\ unit' = FALSE /\ service' = Off
  /\ UNCHANGED <<config, journal, keyring, doing, items, edited>>

\* The running service notices a changed policy and loads it.
Reload ==
  /\ service \notin {Off, config}
  /\ service' = config
  /\ UNCHANGED <<config, journal, keyring, unit, doing, items, edited>>

SetupInit ==
  /\ config = Starter /\ journal = NoJournal /\ keyring = {}
  /\ unit \in BOOLEAN /\ service = Off
  /\ doing = Idle /\ items = 0 /\ edited = FALSE

SetupNext ==
  \/ discover \/ discover_journal \/ discover_store \/ discover_done
  \/ refresh_models \/ refresh_done
  \/ \E model \in Models : activate(model)
  \/ activate_journal \/ activate_write \/ activate_done
  \/ install \/ restart
  \/ test \/ test_journal \/ test_serve \/ test_done
  \/ repair \/ repair_journal
  \/ disconnect \/ disconnect_stop \/ disconnect_journal \/ disconnect_write
  \/ disconnect_clear \/ disconnect_forget
  \/ Abort \/ EditPolicy \/ uninstall \/ Reload

SetupSpec == SetupInit /\ [][SetupNext]_setupVars

-----------------------------------------------------------------------------

\* No interruption loses anything: every secret in the keyring is one that the
\* journal can still name and clear; a policy that only setup has written is one
\* that setup still recognises as its own; and a setup recorded as verified
\* still has its key and, if the user left the policy alone, its policy.
SetupConsistent ==
  /\ keyring \subseteq {journal.item}
  /\ ~edited => unchanged(journal, config)
  /\ journal.verifiedAt =>
       /\ journal.item \in keyring
       /\ ~edited => config = policy(journal.model, journal.item)
=============================================================================
