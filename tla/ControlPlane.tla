---------------------------- MODULE ControlPlane ----------------------------
(***************************************************************************)
(* A gateway process with its audit log, its snapshot holder, its shadow   *)
(* jobs, and the one task that installs snapshots: the reload task of      *)
(* `serve`, or the policy lifecycle of a host that manages policies.       *)
(***************************************************************************)
EXTENDS PolicyLifecycle

VARIABLE installer  \* "reload" or "lifecycle", fixed for a behaviour

Snapshots == [edit : Nat, version : Nat, policy : Documents \cup {Local}, shadow : BOOLEAN]

(* The tasks that record are apart from the one that shuts the log down;   *)
(* NoSnapshot stands for the absence of a state, never for one.            *)
ASSUME ControlAssumption ==
  /\ {"reload", "handler", "lifecycle"} \subseteq Callers /\ Main \notin Callers
  /\ MAX_ACTIVATION_HISTORY \in Nat \ {0}
  /\ \A c \in Contents : c.shadow \in BOOLEAN
  /\ \A doc \in Documents : doc.shadow \in BOOLEAN
  /\ NoSnapshot \notin Snapshots \cup Documents

vars == <<installer, auditVars, goodVars, serveVars, lifeVars>>

Init ==
  /\ installer \in {"reload", "lifecycle"}
  /\ AuditInit
  /\ holder = Fresh(0, NoSnapshot)
  /\ shadowActive = FALSE /\ setBy = NoSnapshot
  /\ job = [j \in Jobs |-> NoJob] /\ sampled = 0
  /\ ServeInit /\ LifeInit

(* Snapshots a request in flight may have been given.  Requests that are   *)
(* sampled for shadow work arrive only while the reload task installs.     *)
Given == {s \in {holder.current, setBy} : s # NoSnapshot}

Serve ==
  /\ installer = "reload"
  /\ \/ \E c \in Contents : EditFile(c)
     \/ \E o \in BOOLEAN : StartBuild(o)
     \/ StartServing \/ ReloadTask
     \/ StopServing \/ AbortReload \/ SendShutdown
     \/ \E code \in {"ok", "failed", "timeout"} : Exit(code)
     \/ HandlerRecords \/ HandlerLeaves
  /\ UNCHANGED lifeVars /\ UNCHANGED installer

Manage ==
  /\ installer = "lifecycle"
  /\ Lifecycle
  /\ UNCHANGED serveVars /\ UNCHANGED installer

Work ==
  /\ Running /\ run_audit_worker
  /\ UNCHANGED goodVars /\ UNCHANGED serveVars /\ UNCHANGED lifeVars /\ UNCHANGED installer

Observe ==
  /\ Running /\ installer = "reload"
  /\ \E j \in Jobs : \/ \E s \in Given : schedule_shadow(j, s)
                     \/ \E w \in BOOLEAN : evaluate(j, w)
                     \/ compared(j)
  /\ UNCHANGED auditVars /\ UNCHANGED serveVars /\ UNCHANGED lifeVars /\ UNCHANGED installer

Next == Serve \/ Manage \/ Work \/ Observe

(* The runtime polls every task that can run: the reload task ticks every  *)
(* second and the audit worker is a task of its own.                       *)
Fairness == WF_vars(Serve /\ (ReloadTask \/ StartServing)) /\ WF_vars(Work)

Spec == Init /\ [][Next]_vars /\ Fairness

-----------------------------------------------------------------------------
(* Every event a caller was told is stored is in the audit file, and the   *)
(* file and the shared log never disagree on the order of two events.      *)
SinksAgree ==
  /\ \A e \in acked : Holds(localLog, e.id)
  /\ \A i, k \in DOMAIN sharedLog : i < k => sharedLog[i].id < sharedLog[k].id
  /\ \A i, k \in DOMAIN localLog : i < k => localLog[i].id < localLog[k].id

(* A snapshot other than the first is current only if its event was stored *)
(* before: no reload, activation or rollback takes effect unaudited.       *)
InstalledIsAudited ==
  \/ holder.current = NoSnapshot
  \/ installer = "reload" /\ holder.current.edit = boot.edit
  \/ \E e \in acked : /\ e.action \in {"config.reload", "policy.activate", "policy.rollback"}
                      /\ e.snap = holder.current.version

(* A process that exits after an orderly shutdown of the audit log leaves  *)
(* nothing behind: every event ever accepted has been written or answered  *)
(* with its failure, and none was accepted after the shutdown.             *)
ShutdownDrains ==
  main = "exit_ok" =>
    /\ queue = <<>> /\ worker = Stopped
    /\ \A c \in Callers : ~Awaits(c)

(* Nothing the audit log acknowledged is lost: not to a destination that    *)
(* failed, and not to the end of the process.                              *)
AuditLosesNothing == SinksAgree /\ ShutdownDrains

(* A rollback always finds its target: every activation in the history     *)
(* still has its runtime, the active one too, and the holder serves the    *)
(* active receipt's snapshot and policy.                                   *)
HistoryHasRuntimes ==
  lifecycle.at \notin {"boot", "booting"} =>
    /\ \A i \in DOMAIN history : history[i].snapshot \in DOMAIN runtimes
                                 /\ runtimes[history[i].snapshot].policy = history[i].policy
    /\ active.snapshot \in DOMAIN runtimes
    /\ holder.version = active.snapshot /\ holder.current.policy = active.policy

(* Every request resolves to a profile the active policy defines: the      *)
(* indexing in resolve never fails.                                        *)
ResolvesInside ==
  active # NoReceipt =>
    \A context \in Contexts : resolve(active.policy, context) \in profile_ids(active.policy)

(* The policy a request meets is the active one, whole, and the one before  *)
(* can be restored.                                                        *)
ActivePolicyServes == HistoryHasRuntimes /\ ResolvesInside

(* The lifecycle behaves as a bounded stack of activations.                *)
Receipts == IF active = NoReceipt THEN <<>> ELSE Append(history, active)
Stack == INSTANCE PolicyStack WITH
  Policies <- Documents, MaxDepth <- MAX_ACTIVATION_HISTORY, Nothing <- NoSnapshot,
  stack <- [i \in DOMAIN Receipts |-> Receipts[i].policy],
  installed <- IF installer = "lifecycle" /\ holder.current # NoSnapshot
               THEN holder.current.policy ELSE NoSnapshot
LifecycleIsStack == Stack!StackSpec

(* No comparison is started for a request of an older snapshot once the    *)
(* reload that switched shadow work off has completed.                     *)
ShadowHonoursReload ==
  [][\A j \in Jobs : job[j].at = "queued" /\ job'[j].at = "comparing"
       /\ setBy = holder.current => holder.current.shadow]_vars

(* Once edits cease the process serves the file it has, unless that file   *)
(* was rejected, or was changed between the start's read of its text and   *)
(* its read of the version.                                                *)
Settled ==
  /\ holder.version = config_source_version(file)
  /\ \/ holder.current.edit = file.edit
     \/ holder.version \in reload.rejected
     \/ holder.version = boot.version /\ holder.current.edit = boot.edit
ReloadSettles == <>[](installer = "reload" /\ main \in {"built", "serving"} => Settled)
=============================================================================
