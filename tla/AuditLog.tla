------------------------------ MODULE AuditLog ------------------------------
(***************************************************************************)
(* The operator audit log (wayfinder-gateway/src/audit.rs).                *)
(*                                                                         *)
(* Callers put commands into one bounded queue without waiting for room;   *)
(* one worker takes them in order, appends an event to the local file and  *)
(* then to the shared log, and acknowledges the caller.  A shutdown first  *)
(* closes the queue to new commands, then waits for room, then waits until *)
(* the worker has drained everything accepted before it.                   *)
(*                                                                         *)
(* An event is its identity, its action and the snapshot it is about; the  *)
(* encoding, the digest and the size limits of its labels are left out.    *)
(* FileAuditSink never panics, so the local sink is never lost.            *)
(***************************************************************************)
EXTENDS Naturals, Sequences, SequencesExt

CONSTANTS
  Callers,          \* tasks that record events
  Main,             \* the task that shuts the log down
  QueueCapacity,    \* AUDIT_QUEUE_CAPACITY
  MaxSharedEvents,  \* MAX_SHARED_AUDIT_EVENTS
  MaxFaults         \* bound: failures of a destination

ASSUME AuditAssumption ==
  QueueCapacity \in Nat \ {0} /\ MaxSharedEvents \in Nat \ {0}

VARIABLES
  queue,      \* the mpsc channel
  closing,    \* AuditSender.closing
  worker,     \* what the worker is doing
  localLog,   \* the audit file
  sharedLog,  \* the shared, trimmed list of events
  reply,      \* per caller: the oneshot it waits on
  issued,     \* number of events made so far
  acked,      \* history: events whose caller was told they are stored
  faults      \* destinations that failed so far

auditVars == <<queue, closing, worker, localLog, sharedLog, reply, issued, acked, faults>>

Idle == [at |-> "idle", id |-> 0]
Receiving == [at |-> "recv"]
Stopped == [at |-> "stopped"]

AuditInit ==
  /\ queue = <<>> /\ closing = FALSE /\ worker = Receiving
  /\ localLog = <<>> /\ sharedLog = <<>>
  /\ reply = [c \in Callers \cup {Main} |-> Idle]
  /\ issued = 0 /\ acked = {} /\ faults = 0

AuditEvent(id, action, snap) == [id |-> id, action |-> action, snap |-> snap]

(* A caller awaits the acknowledgement of command id, or has its result.   *)
Awaits(c) == reply[c].at = "waiting"
Answered(c, result) == reply[c].at = result
Answer(r, c, id, result) ==
  IF r[c].at = "waiting" /\ r[c].id = id THEN [r EXCEPT ![c].at = result] ELSE r

(* try_send under the sender lock: refused once closing, refused when full. *)
try_send_refuses == closing \/ worker = Stopped \/ Len(queue) >= QueueCapacity

(* record: make the event, offer it to the queue; a refusal is its answer.  *)
record(c, action, snap) ==
  /\ issued' = issued + 1
  /\ LET event == AuditEvent(issued + 1, action, snap) IN
       IF try_send_refuses
       THEN /\ reply' = [reply EXCEPT ![c] = [at |-> "failed", id |-> event.id]]
            /\ queue' = queue
       ELSE /\ reply' = [reply EXCEPT ![c] = [at |-> "waiting", id |-> event.id]]
            /\ queue' = Append(queue, [kind |-> "record", caller |-> c, event |-> event])
  /\ UNCHANGED <<closing, worker, localLog, sharedLog, acked, faults>>

(* The caller goes on with its result, or is dropped while it waits: the   *)
(* command stays in the queue and its answer is lost.                      *)
TakeReply(c) == reply' = [reply EXCEPT ![c] = Idle]

WorkerTake ==
  /\ worker = Receiving /\ queue # <<>>
  /\ queue' = Tail(queue)
  /\ worker' = [at |-> IF Head(queue).kind = "record" THEN "local" ELSE "flush",
                cmd |-> Head(queue)]
  /\ UNCHANGED <<closing, localLog, sharedLog, reply, issued, acked, faults>>

(* A destination fails at most MaxFaults times in a behaviour.             *)
Fault(fails) ==
  /\ fails => faults < MaxFaults
  /\ faults' = IF fails THEN faults + 1 ELSE faults

(* append_local: the write succeeds, or fails and stores nothing.          *)
append_local(stored) ==
  /\ worker.at = "local"
  /\ localLog' = IF stored THEN Append(localLog, worker.cmd.event) ELSE localLog
  /\ worker' = [at |-> "shared", cmd |-> worker.cmd, localOk |-> stored]
  /\ Fault(~stored)
  /\ UNCHANGED <<queue, closing, sharedLog, reply, issued, acked>>

(* APPEND_AUDIT_SCRIPT: push, then keep the newest MaxSharedEvents.        *)
append_audit(log, event) ==
  LET all == Append(log, event)
      drop == IF Len(all) > MaxSharedEvents THEN Len(all) - MaxSharedEvents ELSE 0
  IN  SubSeq(all, drop + 1, Len(all))

(* Mutant: one stored copy is enough.                                      *)
BUG_combine_destination_results(localOk, sharedOk) ==
  IF localOk \/ sharedOk THEN "ok" ELSE "failed"

(* combine_destination_results: one failed destination fails the record.   *)
combine_destination_results(localOk, sharedOk) ==
  IF localOk /\ sharedOk THEN "ok" ELSE "failed"

(* write_event's second half, and the acknowledgement: the shared append   *)
(* is stored and confirmed, stored with its reply lost, or refused.        *)
append_shared(outcome) ==
  /\ worker.at = "shared"
  /\ LET cmd == worker.cmd
         result == combine_destination_results(worker.localOk, outcome = "stored")
     IN /\ sharedLog' = IF outcome = "refused" THEN sharedLog
                        ELSE append_audit(sharedLog, cmd.event)
        /\ reply' = Answer(reply, cmd.caller, cmd.event.id, result)
        /\ acked' = IF result = "ok" /\ reply' # reply THEN acked \cup {cmd.event} ELSE acked
  /\ Fault(outcome # "stored")
  /\ worker' = Receiving
  /\ UNCHANGED <<queue, closing, localLog, issued>>

(* Flush and Shutdown make the file durable; Shutdown ends the worker.     *)
WorkerFlush(result) ==
  /\ worker.at = "flush"
  /\ reply' = Answer(reply, worker.cmd.caller, 0, result)
  /\ worker' = IF worker.cmd.kind = "shutdown" THEN Stopped ELSE Receiving
  /\ Fault(result = "failed")
  /\ UNCHANGED <<queue, closing, localLog, sharedLog, issued, acked>>

(* flush: waits for its place in the queue like a record.                  *)
flush(c) ==
  /\ IF try_send_refuses
     THEN /\ reply' = [reply EXCEPT ![c] = [at |-> "failed", id |-> 0]] /\ queue' = queue
     ELSE /\ reply' = [reply EXCEPT ![c] = [at |-> "waiting", id |-> 0]]
          /\ queue' = Append(queue, [kind |-> "flush", caller |-> c])
  /\ UNCHANGED <<closing, worker, localLog, sharedLog, issued, acked, faults>>

(* shutdown, first half: close the queue under the lock.                   *)
shutdown_close ==
  /\ ~closing /\ closing' = TRUE
  /\ UNCHANGED <<queue, worker, localLog, sharedLog, reply, issued, acked, faults>>

(* shutdown, second half: send().await waits until the queue has room.     *)
shutdown_send ==
  /\ closing /\ reply[Main] = Idle
  /\ Len(queue) < QueueCapacity
  /\ queue' = Append(queue, [kind |-> "shutdown", caller |-> Main])
  /\ reply' = [reply EXCEPT ![Main] = [at |-> "waiting", id |-> 0]]
  /\ UNCHANGED <<closing, worker, localLog, sharedLog, issued, acked, faults>>

run_audit_worker ==
  \/ WorkerTake
  \/ \E stored \in BOOLEAN : append_local(stored)
  \/ \E outcome \in {"stored", "lost", "refused"} : append_shared(outcome)
  \/ \E result \in {"ok", "failed"} : WorkerFlush(result)

Ids(log) == [i \in DOMAIN log |-> log[i].id]
Holds(log, id) == id \in ToSet(Ids(log))
=============================================================================
