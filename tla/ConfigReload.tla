---------------------------- MODULE ConfigReload ----------------------------
(***************************************************************************)
(* The serve process (run_serve_process and build_serve_state of           *)
(* wayfinder-cli/src/lib.rs): the start, the one-second reload task, and   *)
(* the orderly end that drains requests, stops the task and closes the     *)
(* audit log.                                                              *)
(*                                                                         *)
(* A version is what config_source_version makes of the file's times and   *)
(* length: the number of the edit, or 0 for a missing file.  A content is  *)
(* a pair of its kind (it loads, does not load, names another shared       *)
(* state) and its shadow switch.                                           *)
(*                                                                         *)
(* The first part is the last-good snapshot holder of wayfinder-gateway/   *)
(* src/reload.rs, the runtime state a snapshot inherits                    *)
(* (AppState::with_runtime_state_from), and the off-path shadow evaluation *)
(* that the inherited flag stops (shadow.rs).  A snapshot is the edit it   *)
(* was read from, the version it was loaded for, its policy and whether    *)
(* its shadow section is enabled.  The shadow store and its flag live as   *)
(* long as the process; the job keeps the snapshot its request was given.  *)
(***************************************************************************)
EXTENDS AuditLog, FiniteSets

CONSTANTS
  Jobs,               \* shadow permits (max_in_flight)
  Routes,             \* number of candidate routes of a shadow section
  MaxSampled,         \* bound: shadow jobs in a behaviour
  NoSnapshot

VARIABLES
  holder,        \* State<T, V>: version, current, failures
  shadowActive,  \* ShadowStore.active
  setBy,         \* history: the snapshot that set the flag last
  job,           \* per permit: the evaluation that holds it
  sampled        \* shadow jobs admitted so far

goodVars == <<holder, shadowActive, setBy, job, sampled>>
shadowVars == <<job, sampled>>

NoJob == [at |-> "free"]

Fresh(version, snapshot) == [version |-> version, current |-> snapshot, failures |-> 0]

(* LastGood::refresh: an equal version loads nothing; a new one is taken   *)
(* before the load, so a version that fails is tried once.                 *)
refresh(version, loaded) ==
  IF version = holder.version THEN holder
  ELSE IF loaded # NoSnapshot
       THEN [holder EXCEPT !.version = version, !.current = loaded]
       ELSE [holder EXCEPT !.version = version, !.failures = @ + 1]

Reloaded(version, loaded) == version # holder.version /\ loaded # NoSnapshot

(* The part of with_runtime_state_from that acts on the running process.   *)
with_runtime_state_from(snapshot) ==
  /\ shadowActive' = snapshot.shadow
  /\ setBy' = snapshot

(* A request that was dispatched with some snapshot, the current one or an *)
(* earlier one, offers its shadow job: the permit is taken or it is dropped. *)
schedule_shadow(j, snapshot) ==
  /\ snapshot # NoSnapshot /\ snapshot.shadow
  /\ job[j] = NoJob /\ sampled < MaxSampled /\ sampled' = sampled + 1
  /\ job' = [job EXCEPT ![j] = [at |-> "queued", snap |-> snapshot, next |-> 1]]
  /\ UNCHANGED <<holder, shadowActive, setBy>>

(* evaluate, up to the provider call of one candidate route: the flag is   *)
(* read before every route; a comparison needs consent, a hosted posture,  *)
(* an eligible model, the sample and a slot of the provider window.  The   *)
(* bounded records and counters of the store are left out.                 *)
evaluate(j, wanted) ==
  /\ job[j].at = "queued"
  /\ job' = IF ~shadowActive \/ job[j].next > Routes THEN [job EXCEPT ![j] = NoJob]
            ELSE IF wanted THEN [job EXCEPT ![j].at = "comparing"]
            ELSE [job EXCEPT ![j].next = @ + 1]
  /\ UNCHANGED <<holder, shadowActive, setBy, sampled>>

(* evaluate, after the provider answered or failed: on to the next route.  *)
compared(j) ==
  /\ job[j].at = "comparing"
  /\ job' = [job EXCEPT ![j].at = "queued", ![j].next = @ + 1]
  /\ UNCHANGED <<holder, shadowActive, setBy, sampled>>

-----------------------------------------------------------------------------
(* The serve process and its reload task.                                  *)

CONSTANTS
  Contents,   \* what the file may hold
  MaxEdits,   \* bound: edits of the file
  MaxReads,   \* bound: events recorded by operator routes
  Local       \* the policy of locally loaded snapshots

VARIABLES
  file,      \* [edit, content]
  main,      \* where run_serve_process is
  reload,    \* the reload task: where it is, its version and what it loaded
  boot       \* history: the edit the start was built from, the version it read

serveVars == <<file, main, reload, boot>>

(* config_source_version and combined_config_source_version.               *)
config_source_version(f) == IF f.content.kind = "missing" THEN 0 ELSE f.edit

(* A snapshot of the file as it is now, loaded for an observed version.    *)
Snapshot(f, version) ==
  [edit |-> f.edit, version |-> version, policy |-> Local, shadow |-> f.content.shadow]

(* build_serve_state followed by the reload task's validation: a text that *)
(* does not load, an outage while the state is built, a data plane without *)
(* keys, and another shared state all leave nothing to install.            *)
build_serve_state(f, version, outage) ==
  IF f.content.kind \in {"good", "missing"} /\ ~outage THEN Snapshot(f, version) ELSE NoSnapshot

ServeInit ==
  /\ file \in {[edit |-> 1, content |-> c] : c \in {d \in Contents : d.kind # "moved"}}
  /\ main = "starting" /\ boot = [edit |-> 0, version |-> 0]
  /\ reload = [at |-> "off", version |-> 0, loaded |-> NoSnapshot, rejected |-> {}]

Running == main \notin {"exited", "exit_ok"}

(* Anybody edits, removes or restores the file at any time.                *)
EditFile(c) ==
  /\ file.edit < MaxEdits /\ Running
  /\ file' = [edit |-> file.edit + 1, content |-> c]
  /\ UNCHANGED <<main, reload, boot>> /\ UNCHANGED auditVars /\ UNCHANGED goodVars

(* The start builds a state, or writes an error and returns EXIT_CONFIG.   *)
StartBuild(outage) ==
  /\ main = "starting"
  /\ LET built == build_serve_state(file, 0, outage) IN
       IF built = NoSnapshot
       THEN main' = "exited" /\ UNCHANGED boot /\ UNCHANGED goodVars
       ELSE /\ main' = "built" /\ boot' = [boot EXCEPT !.edit = file.edit]
            /\ holder' = [holder EXCEPT !.current = built]
            /\ with_runtime_state_from(built)
            /\ UNCHANGED shadowVars
  /\ UNCHANGED <<file, reload>> /\ UNCHANGED auditVars

(* Only then is the file's version read, and the reload task started.      *)
StartServing ==
  /\ main = "built" /\ main' = "serving"
  /\ boot' = [boot EXCEPT !.version = config_source_version(file)]
  /\ holder' = [holder EXCEPT !.version = config_source_version(file)]
  /\ reload' = [reload EXCEPT !.at = "tick"]
  /\ UNCHANGED <<file, shadowActive, setBy>> /\ UNCHANGED shadowVars /\ UNCHANGED auditVars

(* A tick that finds another version begins to load.                       *)
ReloadTick ==
  /\ reload.at = "tick"
  /\ config_source_version(file) # holder.version
  /\ reload' = [reload EXCEPT !.at = "build", !.version = config_source_version(file), !.loaded = NoSnapshot]
  /\ UNCHANGED <<file, main, boot>> /\ UNCHANGED auditVars /\ UNCHANGED goodVars

(* The file is read now.  A loaded state inherits the runtime state and    *)
(* its event is offered to the audit log before anything is installed.     *)
ReloadBuild(outage) ==
  /\ reload.at = "build"
  /\ LET built == build_serve_state(file, reload.version, outage) IN
       IF built # NoSnapshot
       THEN /\ reload' = [reload EXCEPT !.at = "audit", !.loaded = built]
            /\ with_runtime_state_from(built)
            /\ record("reload", "config.reload", reload.version)
            /\ UNCHANGED <<holder, job, sampled>>
       ELSE /\ reload' = [reload EXCEPT !.at = "refresh"]
            /\ UNCHANGED auditVars /\ UNCHANGED goodVars
  /\ UNCHANGED <<file, main, boot>>

(* Mutants: the result of the audit is ignored; the version installed is   *)
(* read when the load has finished.                                        *)
BUG_refresh_with(version, audited) ==
  /\ \/ reload.at = "refresh"
     \/ reload.at = "audit" /\ ~Awaits("reload")
  /\ LET loaded == IF reload.at = "audit" /\ audited THEN reload.loaded ELSE NoSnapshot
     IN /\ holder' = refresh(version, loaded)
        /\ IF Reloaded(version, loaded)
           THEN /\ TakeReply("reload")
                /\ reload' = [reload EXCEPT !.at = "tick"]
                /\ UNCHANGED <<queue, closing, worker, localLog, sharedLog, issued, acked, faults>>
           ELSE /\ record("reload", "config.reload_failed", version)
                /\ reload' = [reload EXCEPT !.at = "report", !.rejected = @ \cup {version}]
  /\ UNCHANGED <<file, main, boot, shadowActive, setBy, job, sampled>>
BUG_unaudited_refresh == BUG_refresh_with(reload.version, TRUE)
BUG_late_version == BUG_refresh_with(config_source_version(file), Answered("reload", "ok"))

(* The acknowledgement arrives; a failed audit turns the load into an      *)
(* error.  refresh installs or retains, and a rejection is audited too.    *)
ReloadRefresh ==
  /\ \/ reload.at = "refresh"
     \/ reload.at = "audit" /\ ~Awaits("reload")
  /\ LET loaded == IF reload.at = "audit" /\ Answered("reload", "ok")
                   THEN reload.loaded ELSE NoSnapshot
     IN /\ holder' = refresh(reload.version, loaded)
        /\ IF Reloaded(reload.version, loaded)
           THEN /\ TakeReply("reload")
                /\ reload' = [reload EXCEPT !.at = "tick"]
                /\ UNCHANGED <<queue, closing, worker, localLog, sharedLog, issued, acked, faults>>
           ELSE /\ record("reload", "config.reload_failed", reload.version)
                /\ reload' = [reload EXCEPT !.at = "report", !.rejected = @ \cup {reload.version}]
  /\ UNCHANGED <<file, main, boot, shadowActive, setBy, job, sampled>>

(* The failure audit is awaited; its own failure is only printed.          *)
ReloadReported ==
  /\ reload.at = "report" /\ ~Awaits("reload")
  /\ TakeReply("reload")
  /\ reload' = [reload EXCEPT !.at = "tick"]
  /\ UNCHANGED <<file, main, boot, queue, closing, worker, localLog, sharedLog, issued, acked, faults>>
  /\ UNCHANGED goodVars

(* serve_with_shutdown: the signal stops the listener, connections drain or *)
(* the drain times out; then the reload task is aborted where it awaits.    *)
StopServing ==
  /\ main = "serving" /\ main' = "drained"
  /\ UNCHANGED <<file, reload, boot>> /\ UNCHANGED auditVars /\ UNCHANGED goodVars

AbortReload ==
  /\ main = "drained" /\ main' = "closing"
  /\ reload' = [reload EXCEPT !.at = "aborted"]
  /\ shutdown_close
  /\ UNCHANGED <<file, boot>> /\ UNCHANGED goodVars

SendShutdown ==
  /\ main = "closing" /\ main' = "waiting"
  /\ shutdown_send
  /\ UNCHANGED <<file, reload, boot>> /\ UNCHANGED goodVars

(* Drained, refused, or timed out: the exit code says which.               *)
Exit(code) ==
  /\ main \in {"closing", "waiting"}
  /\ code \in {"ok", "failed"} => main = "waiting" /\ Answered(Main, code)
  /\ main' = IF code = "ok" THEN "exit_ok" ELSE "exited"
  /\ UNCHANGED <<file, reload, boot>> /\ UNCHANGED auditVars /\ UNCHANGED goodVars

(* An operator route records an event and answers with its result, or its  *)
(* client leaves before.                                                   *)
HandlerRecords ==
  /\ main \in {"serving", "drained", "closing", "waiting"} /\ reply["handler"] = Idle
  /\ issued < MaxReads
  /\ record("handler", "router.read", 0)
  /\ UNCHANGED serveVars /\ UNCHANGED goodVars

HandlerLeaves ==
  /\ Running /\ reply["handler"] # Idle /\ TakeReply("handler")
  /\ UNCHANGED <<queue, closing, worker, localLog, sharedLog, issued, acked, faults>>
  /\ UNCHANGED serveVars /\ UNCHANGED goodVars

ReloadTask == ReloadTick \/ (\E o \in BOOLEAN : ReloadBuild(o)) \/ ReloadRefresh \/ ReloadReported
=============================================================================
