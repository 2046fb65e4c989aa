------------------------- MODULE ControlPlane_proofs -------------------------
(***************************************************************************)
(* What TLAPS proves about a gateway process with its audit log, reload    *)
(* task and policy lifecycle, for every queue capacity, history length,    *)
(* set of documents and number of edits.  The inductive invariant is the   *)
(* conjunction of four parts: the audit log's order, its shutdown, what    *)
(* the two installers wait for, and the receipts of the lifecycle.         *)
(***************************************************************************)
EXTENDS ControlPlane, TLAPS

Actions == {"config.reload", "config.reload_failed", "router.read",
            "policy.activate", "policy.activate_failed", "policy.rollback"}
Events == [id : Nat, action : Actions, snap : Nat]
RecordCommands == [kind : {"record"}, caller : Callers, event : Events]
ShutdownCommand == [kind |-> "shutdown", caller |-> Main]

(* The worker holds an event it has not answered yet.                      *)
Writing == worker.at \in {"local", "shared"}

AuditType ==
  /\ queue \in Seq(RecordCommands \cup {ShutdownCommand})
  /\ closing \in BOOLEAN
  /\ worker.at \in {"recv", "stopped", "local", "shared", "flush"}
  /\ worker.at = "stopped" => worker = Stopped
  /\ Writing => worker.cmd \in RecordCommands
  /\ worker.at = "shared" => worker.localOk \in BOOLEAN
  /\ worker.at = "flush" => worker.cmd = ShutdownCommand
  /\ localLog \in Seq(Events) /\ sharedLog \in Seq(Events)
  /\ reply \in [Callers \cup {Main} -> [at : {"idle", "waiting", "ok", "failed"}, id : Nat]]
  /\ issued \in Nat /\ acked \subseteq Events

(* An identity older than everything still in the queue.                   *)
BeforeQueue(id) ==
  /\ id <= issued
  /\ \A i \in DOMAIN queue : queue[i].kind = "record" => id < queue[i].event.id

(* Identities only grow from the logs through the worker to the queue's    *)
(* end, and an event whose local copy is confirmed is in the file.         *)
QueueOrder ==
  /\ \A i, k \in DOMAIN queue : i < k /\ queue[i].kind = "record" /\ queue[k].kind = "record"
                                => queue[i].event.id < queue[k].event.id
  /\ \A i \in DOMAIN queue : queue[i].kind = "record" => queue[i].event.id <= issued
  /\ Writing => BeforeQueue(worker.cmd.event.id)

LocalOrder ==
  /\ \A i \in DOMAIN localLog :
       /\ BeforeQueue(localLog[i].id)
       /\ worker.at = "local" => localLog[i].id < worker.cmd.event.id
       /\ worker.at = "shared" => localLog[i].id <= worker.cmd.event.id
  /\ \A i, k \in DOMAIN localLog : i < k => localLog[i].id < localLog[k].id

SharedOrder ==
  /\ \A i \in DOMAIN sharedLog :
       /\ BeforeQueue(sharedLog[i].id)
       /\ Writing => sharedLog[i].id < worker.cmd.event.id
  /\ \A i, k \in DOMAIN sharedLog : i < k => sharedLog[i].id < sharedLog[k].id

InFile(id) == \E i \in DOMAIN localLog : localLog[i].id = id

AckedStored ==
  /\ worker.at = "shared" /\ worker.localOk => InFile(worker.cmd.event.id)
  /\ \A e \in acked : InFile(e.id)

AuditOrder == QueueOrder /\ LocalOrder /\ SharedOrder /\ AckedStored

(* A waiting caller's event is in the queue or with the worker.            *)
WaitersArePending ==
  \A c \in Callers : reply[c].at = "waiting" =>
    \/ \E i \in DOMAIN queue : /\ queue[i].kind = "record" /\ queue[i].caller = c
                               /\ queue[i].event.id = reply[c].id
    \/ Writing /\ worker.cmd.caller = c /\ worker.cmd.event.id = reply[c].id

(* The shutdown command is sent once, after the queue was closed, and      *)
(* nothing is behind it; Main is answered when the worker stops.           *)
ShutdownIsLast ==
  /\ \A i \in DOMAIN queue : queue[i].kind = "shutdown" => i = Len(queue)
  /\ worker.at \in {"flush", "stopped"} => queue = <<>>
  /\ (worker.at \in {"flush", "stopped"} \/ \E i \in DOMAIN queue : queue[i].kind = "shutdown")
       => closing /\ main \in {"waiting", "exited", "exit_ok"}
  /\ main \in {"closing", "waiting", "exit_ok"} => closing
  /\ reply[Main].at = "ok" => worker.at = "stopped"
  /\ main = "exit_ok" => worker.at = "stopped"

AuditInv == AuditType /\ AuditOrder /\ WaitersArePending /\ ShutdownIsLast

-----------------------------------------------------------------------------
(* An installing task that waits for the audit of snapshot snap.           *)
Installs(e, snap) ==
  e.action \in {"config.reload", "policy.activate", "policy.rollback"} /\ e.snap = snap

Asked(c, snap) ==
  /\ reply[c].id <= issued
  /\ reply[c].at = "waiting" =>
       /\ \A i \in DOMAIN queue : queue[i].kind = "record" /\ queue[i].event.id = reply[c].id
                                  => Installs(queue[i].event, snap)
       /\ Writing /\ worker.cmd.event.id = reply[c].id => Installs(worker.cmd.event, snap)
  /\ reply[c].at = "ok" => \E e \in acked : Installs(e, snap)

Mutating == lifecycle.at \in {"booting", "activating", "rolling"}

AskedInv ==
  /\ reload.at = "audit" => Asked("reload", reload.version)
  /\ Mutating => Asked("lifecycle", lifecycle.receipt.snapshot)
  /\ InstalledIsAudited

-----------------------------------------------------------------------------
(* The snapshots, receipts and files of the control plane.                 *)
ReceiptSet == [policy : Documents, snapshot : Nat \ {0}]

ServeType ==
  /\ installer \in {"reload", "lifecycle"}
  /\ holder \in [version : Nat, current : Snapshots \cup {NoSnapshot}, failures : Nat]
  /\ file \in [edit : Nat, content : Contents]
  /\ main \in {"starting", "built", "serving", "drained", "closing", "waiting", "exited", "exit_ok"}
  /\ boot \in [edit : Nat, version : Nat]
  /\ reload \in [at : {"off", "tick", "build", "audit", "refresh", "report", "aborted"},
                 version : Nat, loaded : Snapshots \cup {NoSnapshot}, rejected : SUBSET Nat]
  /\ installer = "lifecycle" => reload.at = "off" /\ main = "starting"
  /\ reload.at = "audit" => reload.loaded # NoSnapshot /\ reload.loaded.version = reload.version

LifeType ==
  /\ lifecycle \in [at : {"boot", "booting", "idle", "activating", "rolling", "reporting"},
                    receipt : ReceiptSet \cup {NoReceipt}, receipts : Nat]
  /\ active \in ReceiptSet \cup {NoReceipt}
  /\ history \in Seq(ReceiptSet)
  /\ DOMAIN runtimes \subseteq 1..lifecycle.receipts
  /\ runtimes \in [DOMAIN runtimes -> Snapshots]

ControlType == ServeType /\ LifeType

Booted == lifecycle.at \notin {"boot", "booting"}

(* Receipts are numbered in the order they were made; the history ends     *)
(* before the active one, and a rollback restores the history's last.      *)
LifeInv ==
  /\ Booted <=> active # NoReceipt
  /\ ~Booted => history = <<>> /\ (installer = "lifecycle" => holder.current = NoSnapshot)
  /\ installer = "reload" => ~Booted /\ ~Mutating
  /\ Booted => active.snapshot <= lifecycle.receipts /\ validate(active.policy)
               /\ holder.current # NoSnapshot
               /\ runtimes[active.snapshot].policy = active.policy
  /\ \A i \in DOMAIN history : history[i].snapshot < active.snapshot /\ validate(history[i].policy)
  /\ \A i, k \in DOMAIN history : i < k => history[i].snapshot < history[k].snapshot
  /\ Len(history) <= MAX_ACTIVATION_HISTORY
  /\ Mutating =>
       /\ lifecycle.receipt # NoReceipt /\ lifecycle.receipt.snapshot = lifecycle.receipts
       /\ lifecycle.receipts \notin DOMAIN runtimes
       /\ Booted => active.snapshot < lifecycle.receipts
       /\ validate(lifecycle.receipt.policy)
  /\ lifecycle.at = "rolling" => history # <<>> /\ lifecycle.receipt.policy = Last(history).policy
  /\ HistoryHasRuntimes

IInv == AuditInv /\ ControlType /\ AskedInv /\ LifeInv

-----------------------------------------------------------------------------
(* The audit log's own steps.                                              *)

(* The identities and positions the order speaks of are numbers.           *)
LEMMA AuditTyped ==
  ASSUME AuditType
  PROVE  /\ issued \in Nat
         /\ Len(queue) \in Nat /\ DOMAIN queue = 1..Len(queue)
         /\ \A i \in DOMAIN queue :
              /\ queue[i].kind \in {"record", "shutdown"}
              /\ queue[i].kind = "record" => queue[i] \in RecordCommands
              /\ queue[i].kind = "record" => queue[i].event \in Events /\ queue[i].event.id \in Nat
              /\ queue[i].kind = "shutdown" => queue[i] = ShutdownCommand
         /\ Writing => worker.cmd.event \in Events /\ worker.cmd.event.id \in Nat
                       /\ worker.cmd.caller \in Callers
         /\ Len(localLog) \in Nat /\ DOMAIN localLog = 1..Len(localLog)
         /\ \A i \in DOMAIN localLog : localLog[i].id \in Nat
         /\ Len(sharedLog) \in Nat /\ DOMAIN sharedLog = 1..Len(sharedLog)
         /\ \A i \in DOMAIN sharedLog : sharedLog[i].id \in Nat
         /\ \A e \in acked : e.id \in Nat
         /\ \A c \in Callers \cup {Main} : reply[c].id \in Nat
PROOF
<1>1. \A i \in DOMAIN queue : queue[i] \in RecordCommands \cup {ShutdownCommand}
  BY DEF AuditType
<1>2. \A i \in DOMAIN queue :
         /\ queue[i].kind \in {"record", "shutdown"}
         /\ queue[i].kind = "record" => queue[i] \in RecordCommands
         /\ queue[i].kind = "record" => queue[i].event \in Events /\ queue[i].event.id \in Nat
         /\ queue[i].kind = "shutdown" => queue[i] = ShutdownCommand
  BY <1>1 DEF RecordCommands, ShutdownCommand, Events
<1>3. Writing => worker.cmd.event \in Events /\ worker.cmd.event.id \in Nat /\ worker.cmd.caller \in Callers
  BY DEF AuditType, RecordCommands, Events
<1>4. /\ \A i \in DOMAIN localLog : localLog[i].id \in Nat
      /\ \A i \in DOMAIN sharedLog : sharedLog[i].id \in Nat
      /\ \A e \in acked : e.id \in Nat
  <2>1. /\ \A i \in DOMAIN localLog : localLog[i] \in Events
        /\ \A i \in DOMAIN sharedLog : sharedLog[i] \in Events
        /\ \A e \in acked : e \in Events
    BY DEF AuditType
  <2>2. QED BY <2>1 DEF Events
<1>5. \A c \in Callers \cup {Main} : reply[c].id \in Nat
  BY DEF AuditType
<1>6. QED BY <1>2, <1>3, <1>4, <1>5 DEF AuditType

(* An identity more leaves the order of what is already there as it is.    *)
LEMMA OrderFrame ==
  ASSUME AuditType, AuditOrder, issued' \in Nat, issued <= issued',
         UNCHANGED <<queue, worker, localLog, sharedLog, acked>>
  PROVE  AuditOrder'
PROOF
<1>1. \A id \in Nat : BeforeQueue(id) => BeforeQueue(id)'
  BY AuditTyped DEF BeforeQueue
<1>2. QueueOrder'
  BY <1>1, AuditTyped DEF AuditOrder, QueueOrder, Writing
<1>3. LocalOrder'
  BY <1>1, AuditTyped DEF AuditOrder, LocalOrder
<1>4. SharedOrder'
  BY <1>1, AuditTyped DEF AuditOrder, SharedOrder, Writing
<1>5. AckedStored'
  BY DEF AuditOrder, AckedStored, InFile
<1> QED BY <1>2, <1>3, <1>4, <1>5 DEF AuditOrder

(* A command put at the queue's end carries the newest identity, if any.   *)
LEMMA OrderAppend ==
  ASSUME AuditType, AuditOrder, NEW cmd \in RecordCommands \cup {ShutdownCommand},
         queue' = Append(queue, cmd), issued' \in Nat, issued <= issued',
         cmd.kind = "record" => cmd.event.id = issued' /\ issued < issued',
         UNCHANGED <<worker, localLog, sharedLog, acked>>
  PROVE  AuditOrder'
PROOF
<1>0. /\ Len(queue') = Len(queue) + 1 /\ queue'[Len(queue) + 1] = cmd
      /\ \A i \in DOMAIN queue : queue'[i] = queue[i]
      /\ DOMAIN queue' = DOMAIN queue \cup {Len(queue) + 1}
      /\ DOMAIN queue = 1..Len(queue) /\ Len(queue) \in Nat
  BY DEF AuditType
<1>1. \A id \in Nat : BeforeQueue(id) => BeforeQueue(id)'
  BY <1>0, AuditTyped DEF BeforeQueue
<1>2. QueueOrder'
  <2>1. (Writing => BeforeQueue(worker.cmd.event.id))'
    BY <1>1, AuditTyped DEF AuditOrder, QueueOrder, Writing
  <2>2. \A i \in DOMAIN queue' : queue'[i].kind = "record" => queue'[i].event.id <= issued'
    BY <1>0, AuditTyped DEF AuditOrder, QueueOrder
  <2>3. \A i, k \in DOMAIN queue' : i < k /\ queue'[i].kind = "record" /\ queue'[k].kind = "record"
                                    => queue'[i].event.id < queue'[k].event.id
    BY <1>0, AuditTyped DEF AuditOrder, QueueOrder
  <2> QED BY <2>1, <2>2, <2>3 DEF QueueOrder
<1>3. LocalOrder'
  BY <1>1, AuditTyped DEF AuditOrder, LocalOrder
<1>4. SharedOrder'
  BY <1>1, AuditTyped DEF AuditOrder, SharedOrder, Writing
<1>5. AckedStored'
  BY DEF AuditOrder, AckedStored, InFile
<1> QED BY <1>2, <1>3, <1>4, <1>5 DEF AuditOrder

(* Making an event and offering it to the queue keeps the log's invariant, *)
(* whether the queue takes or refuses it.                                  *)
LEMMA RecordKeepsAudit ==
  ASSUME AuditInv, NEW c \in Callers, NEW action \in Actions, NEW snap \in Nat,
         record(c, action, snap), UNCHANGED main
  PROVE  AuditInv'
PROOF
<1> DEFINE event == AuditEvent(issued + 1, action, snap)
           cmd == [kind |-> "record", caller |-> c, event |-> event]
<1>0. /\ AuditType /\ AuditOrder /\ WaitersArePending /\ ShutdownIsLast
      /\ issued \in Nat
      /\ \A i \in DOMAIN queue : queue[i].kind = "record" => queue[i].event.id \in Nat
      /\ \A i \in DOMAIN localLog : localLog[i].id \in Nat
      /\ \A i \in DOMAIN sharedLog : sharedLog[i].id \in Nat
      /\ (Writing => worker.cmd.event.id \in Nat)
  BY AuditTyped DEF AuditInv
<1>1. event \in Events /\ cmd \in RecordCommands /\ event.id = issued + 1
      /\ cmd.kind = "record" /\ cmd.event = event /\ cmd.caller = c
  BY DEF AuditInv, AuditType, AuditEvent, Events, RecordCommands
<1>2. CASE try_send_refuses
  <2>1. /\ reply' = [reply EXCEPT ![c] = [at |-> "failed", id |-> issued + 1]]
        /\ queue' = queue /\ issued' = issued + 1
        /\ UNCHANGED <<closing, worker, localLog, sharedLog, acked, main>>
    BY <1>2 DEF record, AuditEvent
  <2>2. AuditType'
    BY <2>1 DEF AuditInv, AuditType, Writing
  <2>3. AuditOrder'
    BY <1>0, <2>1, OrderFrame
  <2>4. WaitersArePending'
    BY <2>1 DEF AuditInv, AuditType, WaitersArePending, Writing
  <2>5. ShutdownIsLast'
    BY <2>1 DEF AuditInv, AuditType, ShutdownIsLast
  <2> QED BY <2>2, <2>3, <2>4, <2>5 DEF AuditInv
<1>3. CASE ~try_send_refuses
  <2>1. /\ reply' = [reply EXCEPT ![c] = [at |-> "waiting", id |-> issued + 1]]
        /\ queue' = Append(queue, cmd) /\ issued' = issued + 1
        /\ UNCHANGED <<closing, worker, localLog, sharedLog, acked, main>>
    BY <1>3 DEF record, AuditEvent
  <2>2. AuditType'
    BY <1>1, <2>1 DEF AuditInv, AuditType, Writing
  <2>3. /\ Len(queue') = Len(queue) + 1 /\ queue'[Len(queue) + 1] = cmd
        /\ \A i \in DOMAIN queue : queue'[i] = queue[i]
        /\ DOMAIN queue' = DOMAIN queue \cup {Len(queue) + 1}
        /\ DOMAIN queue = 1..Len(queue) /\ Len(queue) \in Nat
    BY <1>1, <2>1 DEF AuditInv, AuditType
  <2>4. AuditOrder'
    BY <1>0, <1>1, <2>1, OrderAppend
  <2>5. WaitersArePending'
    BY <1>1, <2>1, <2>3 DEF AuditInv, AuditType, WaitersArePending, Writing
  <2>6. ShutdownIsLast'
    BY <1>1, <1>3, <2>1, <2>3 DEF AuditInv, AuditType, ShutdownIsLast, try_send_refuses
  <2> QED BY <2>2, <2>4, <2>5, <2>6 DEF AuditInv
<1> QED BY <1>2, <1>3

(* A caller takes its result, or leaves: only its own reply is forgotten.  *)
LEMMA TakeReplyKeepsAudit ==
  ASSUME AuditInv, NEW c \in Callers, TakeReply(c), UNCHANGED main,
         UNCHANGED <<queue, closing, worker, localLog, sharedLog, issued, acked>>
  PROVE  AuditInv'
PROOF
<1>0. AuditType /\ AuditOrder /\ WaitersArePending /\ ShutdownIsLast /\ issued \in Nat
  BY DEF AuditInv, AuditType
<1>1. reply' = [reply EXCEPT ![c] = [at |-> "idle", id |-> 0]]
  BY DEF TakeReply, Idle
<1>2. AuditType'
  BY <1>0, <1>1 DEF AuditType, Writing
<1>3. AuditOrder'
  BY <1>0, OrderFrame
<1>4. WaitersArePending'
  BY <1>0, <1>1 DEF AuditType, WaitersArePending, Writing
<1>5. ShutdownIsLast'
  BY <1>0, <1>1, ControlAssumption DEF AuditType, ShutdownIsLast
<1> QED BY <1>2, <1>3, <1>4, <1>5 DEF AuditInv

(* The worker takes the oldest command.                                    *)
LEMMA TakeKeepsAudit ==
  ASSUME AuditInv, WorkerTake, UNCHANGED main
  PROVE  AuditInv'
PROOF
<1>0. AuditType /\ AuditOrder /\ WaitersArePending /\ ShutdownIsLast
  BY DEF AuditInv
<1> DEFINE head == queue[1]
<1>1. /\ worker.at = "recv" /\ queue # <<>> /\ queue' = Tail(queue) /\ head = Head(queue)
      /\ worker' = [at |-> IF head.kind = "record" THEN "local" ELSE "flush", cmd |-> head]
      /\ UNCHANGED <<closing, localLog, sharedLog, reply, issued, acked, main>>
  BY <1>0 DEF WorkerTake, Receiving, AuditType
<1>2. /\ Len(queue) >= 1 /\ 1 \in DOMAIN queue /\ Len(queue') = Len(queue) - 1
      /\ DOMAIN queue' = 1..(Len(queue) - 1)
      /\ \A i \in DOMAIN queue' : i + 1 \in DOMAIN queue /\ queue'[i] = queue[i + 1]
      /\ queue' \in Seq(RecordCommands \cup {ShutdownCommand})
      /\ DOMAIN queue = 1..Len(queue) /\ Len(queue) \in Nat
  BY <1>0, <1>1 DEF AuditType
<1>3. AuditType'
  <2>1. CASE head.kind = "record"
    BY <1>0, <1>1, <1>2, <2>1, AuditTyped DEF AuditType, Writing
  <2>2. CASE head.kind = "shutdown"
    BY <1>0, <1>1, <1>2, <2>2, AuditTyped DEF AuditType, Writing
  <2> QED BY <1>0, <1>2, <2>1, <2>2, AuditTyped
<1>4. \A id \in Nat : BeforeQueue(id) => /\ BeforeQueue(id)'
                                         /\ head.kind = "record" => id < head.event.id
  BY <1>0, <1>1, <1>2, AuditTyped DEF BeforeQueue
<1>5. Writing' => head.kind = "record" /\ worker'.at = "local" /\ worker'.cmd = head
  BY <1>1 DEF Writing
<1>6. AuditOrder'
  <2>1. QueueOrder'
    <3>1. \A i, k \in DOMAIN queue' : i < k /\ queue'[i].kind = "record" /\ queue'[k].kind = "record"
                                      => queue'[i].event.id < queue'[k].event.id
      BY <1>0, <1>2 DEF AuditOrder, QueueOrder
    <3>2. \A i \in DOMAIN queue' : queue'[i].kind = "record" => queue'[i].event.id <= issued'
      BY <1>0, <1>1, <1>2 DEF AuditOrder, QueueOrder
    <3>3. ASSUME head.kind = "record"
          PROVE  /\ head.event.id <= issued'
                 /\ \A i \in DOMAIN queue' : queue'[i].kind = "record" => head.event.id < queue'[i].event.id
      BY <1>0, <1>1, <1>2, <3>3 DEF AuditOrder, QueueOrder
    <3>4. (Writing => BeforeQueue(worker.cmd.event.id))'
      BY <1>5, <3>3 DEF BeforeQueue
    <3> QED BY <3>1, <3>2, <3>4 DEF QueueOrder
  <2>2. LocalOrder'
    BY <1>0, <1>1, <1>4, <1>5, AuditTyped DEF AuditOrder, LocalOrder, Writing
  <2>3. SharedOrder'
    BY <1>0, <1>1, <1>4, <1>5, AuditTyped DEF AuditOrder, SharedOrder
  <2>4. AckedStored'
    BY <1>0, <1>1 DEF AuditOrder, AckedStored, InFile
  <2> QED BY <2>1, <2>2, <2>3, <2>4 DEF AuditOrder
<1>7. WaitersArePending'
  <2> SUFFICES ASSUME NEW c \in Callers, reply[c].at = "waiting"
               PROVE  \/ \E i \in DOMAIN queue' : /\ queue'[i].kind = "record" /\ queue'[i].caller = c
                                                  /\ queue'[i].event.id = reply[c].id
                      \/ Writing' /\ worker'.cmd.caller = c /\ worker'.cmd.event.id = reply[c].id
    BY <1>1 DEF WaitersArePending
  <2>1. PICK i \in DOMAIN queue : /\ queue[i].kind = "record" /\ queue[i].caller = c
                                  /\ queue[i].event.id = reply[c].id
    BY <1>0, <1>1 DEF WaitersArePending, Writing
  <2>2. CASE i = 1
    BY <1>1, <2>1, <2>2 DEF Writing
  <2>3. CASE i # 1
    <3>1. i - 1 \in DOMAIN queue' /\ queue'[i - 1] = queue[i]
      BY <1>2, <2>3
    <3> QED BY <2>1, <3>1
  <2> QED BY <2>2, <2>3
<1>8. ShutdownIsLast'
  <2>0. /\ \A i \in DOMAIN queue : queue[i].kind = "shutdown" => i = Len(queue)
        /\ (\E i \in DOMAIN queue : queue[i].kind = "shutdown")
             => closing /\ main \in {"waiting", "exited", "exit_ok"}
    BY <1>0 DEF ShutdownIsLast
  <2>1. \A i \in DOMAIN queue' : queue'[i].kind = "shutdown" => i = Len(queue')
    <3> SUFFICES ASSUME NEW i \in DOMAIN queue', queue'[i].kind = "shutdown"
                 PROVE  i = Len(queue')
      OBVIOUS
    <3>1. i + 1 \in DOMAIN queue /\ queue[i + 1].kind = "shutdown" /\ i \in Nat
      BY <1>2
    <3>2. i + 1 = Len(queue)
      BY <2>0, <3>1
    <3> QED BY <1>2, <3>1, <3>2
  <2>2. worker'.at \in {"flush", "stopped"} => head.kind = "shutdown"
    BY <1>0, <1>1, <1>2, AuditTyped
  <2>3. head.kind = "shutdown" => queue' = <<>>
    <3> SUFFICES ASSUME head.kind = "shutdown" PROVE queue' = <<>>
      OBVIOUS
    <3>1. Len(queue) = 1
      BY <1>2, <2>0
    <3>2. Len(queue') = 0
      BY <1>2, <3>1
    <3> QED BY <1>2, <3>2
  <2>4. (head.kind = "shutdown" \/ \E i \in DOMAIN queue' : queue'[i].kind = "shutdown")
          => closing /\ main \in {"waiting", "exited", "exit_ok"}
    BY <1>2, <2>0
  <2> QED BY <1>0, <1>1, <2>1, <2>2, <2>3, <2>4 DEF ShutdownIsLast
<1> QED BY <1>3, <1>6, <1>7, <1>8 DEF AuditInv

(* The local append adds the newest identity to the file, or nothing.      *)
LEMMA AppendLocalKeepsAudit ==
  ASSUME AuditInv, NEW stored \in BOOLEAN, append_local(stored), UNCHANGED main
  PROVE  AuditInv'
PROOF
<1>0. AuditType /\ AuditOrder /\ WaitersArePending /\ ShutdownIsLast
  BY DEF AuditInv
<1> DEFINE event == worker.cmd.event
<1>1. /\ worker.at = "local" /\ Writing
      /\ localLog' = IF stored THEN Append(localLog, event) ELSE localLog
      /\ worker' = [at |-> "shared", cmd |-> worker.cmd, localOk |-> stored]
      /\ UNCHANGED <<queue, closing, sharedLog, reply, issued, acked, main>>
  BY DEF append_local, Writing
<1>2. event \in Events /\ event.id \in Nat /\ worker.cmd \in RecordCommands
  BY <1>0, <1>1, AuditTyped DEF AuditType
<1>3. /\ worker'.at = "shared" /\ worker'.cmd = worker.cmd /\ worker'.localOk = stored /\ Writing'
  BY <1>1 DEF Writing
<1>4. AuditType'
  BY <1>0, <1>1, <1>2, <1>3 DEF AuditType
<1>5. \A id \in Nat : BeforeQueue(id) => BeforeQueue(id)'
  BY <1>1 DEF BeforeQueue
<1>6. BeforeQueue(event.id) /\ \A i \in DOMAIN localLog : localLog[i].id < event.id /\ localLog[i].id \in Nat
  BY <1>0, <1>1, AuditTyped DEF AuditOrder, QueueOrder, LocalOrder
<1>7. AuditOrder'
  <2>1. QueueOrder'
    BY <1>0, <1>1, <1>2, <1>3, <1>5 DEF AuditOrder, QueueOrder
  <2>2. (LocalOrder' /\ InFile(worker.cmd.event.id)' /\ (\A e \in acked : InFile(e.id))') \/ ~stored
    <3> SUFFICES ASSUME stored
                 PROVE  LocalOrder' /\ InFile(worker.cmd.event.id)' /\ (\A e \in acked : InFile(e.id))'
      OBVIOUS
    <3>1. /\ DOMAIN localLog' = DOMAIN localLog \cup {Len(localLog) + 1}
          /\ localLog'[Len(localLog) + 1] = event
          /\ \A i \in DOMAIN localLog : localLog'[i] = localLog[i] /\ i < Len(localLog) + 1
      BY <1>0, <1>1, <1>2 DEF AuditType
    <3>2. LocalOrder'
      <4>1. \A i \in DOMAIN localLog' : localLog'[i].id \in Nat /\ localLog'[i].id <= event.id
                                        /\ (localLog'[i].id # event.id => i \in DOMAIN localLog)
        BY <1>2, <1>6, <3>1
      <4>2. \A i \in DOMAIN localLog' : BeforeQueue(localLog'[i].id)
        BY <1>0, <1>6, <3>1 DEF AuditOrder, LocalOrder
      <4>3. \A i, k \in DOMAIN localLog' : i < k => localLog'[i].id < localLog'[k].id
        BY <1>0, <1>6, <3>1, AuditTyped DEF AuditOrder, LocalOrder
      <4> QED BY <1>1, <1>3, <4>1, <4>2, <4>3 DEF LocalOrder, BeforeQueue
    <3>3. InFile(worker.cmd.event.id)'
      BY <1>3, <3>1 DEF InFile
    <3>4. (\A e \in acked : InFile(e.id))'
      BY <1>0, <1>1, <3>1 DEF AuditOrder, AckedStored, InFile
    <3> QED BY <3>2, <3>3, <3>4
  <2>3. ~stored => LocalOrder' /\ (\A e \in acked : InFile(e.id))'
    BY <1>0, <1>1, <1>3, <1>5, <1>6, AuditTyped DEF AuditOrder, LocalOrder, AckedStored, InFile
  <2>4. SharedOrder'
    BY <1>0, <1>1, <1>3, <1>5, AuditTyped DEF AuditOrder, SharedOrder
  <2>5. AckedStored'
    BY <1>3, <2>2, <2>3 DEF AckedStored
  <2> QED BY <2>1, <2>2, <2>3, <2>4, <2>5 DEF AuditOrder
<1>8. WaitersArePending'
  BY <1>0, <1>1, <1>3 DEF WaitersArePending
<1>9. ShutdownIsLast'
  BY <1>0, <1>1, <1>3 DEF ShutdownIsLast
<1> QED BY <1>4, <1>7, <1>8, <1>9 DEF AuditInv

(* Trimming keeps a suffix: what remains of the shared log is the end of   *)
(* the log with the new event, in order.                                   *)
LEMMA AppendAudit ==
  ASSUME NEW log \in Seq(Events), NEW event \in Events
  PROVE  /\ append_audit(log, event) \in Seq(Events)
         /\ \E drop \in Nat : \A i \in DOMAIN append_audit(log, event) :
              /\ i + drop \in DOMAIN Append(log, event)
              /\ append_audit(log, event)[i] = Append(log, event)[i + drop]
PROOF
<1> DEFINE all == Append(log, event)
           d == IF Len(all) > MaxSharedEvents THEN Len(all) - MaxSharedEvents ELSE 0
<1>1. all \in Seq(Events) /\ Len(all) \in Nat
  OBVIOUS
<1>2. d \in Nat /\ d <= Len(all)
  BY <1>1, AuditAssumption
<1>3. append_audit(log, event) = SubSeq(all, d + 1, Len(all))
  BY DEF append_audit
<1> HIDE DEF all, d
<1>4. SubSeq(all, d + 1, Len(all)) \in Seq(Events)
  BY <1>1, <1>2
<1>5. \A i \in DOMAIN SubSeq(all, d + 1, Len(all)) :
        i + d \in DOMAIN all /\ SubSeq(all, d + 1, Len(all))[i] = all[i + d]
  BY <1>1, <1>2
<1> QED BY <1>2, <1>3, <1>4, <1>5 DEF all

(* The shared append and the acknowledgement: an event is acknowledged     *)
(* only when the file has it, and only its own caller is answered.         *)
LEMMA AppendSharedKeepsAudit ==
  ASSUME AuditInv, NEW outcome \in {"stored", "lost", "refused"}, append_shared(outcome), UNCHANGED main
  PROVE  AuditInv'
PROOF
<1>0. AuditType /\ AuditOrder /\ WaitersArePending /\ ShutdownIsLast
  BY DEF AuditInv
<1> DEFINE cmd == worker.cmd
           result == combine_destination_results(worker.localOk, outcome = "stored")
<1>1. /\ worker.at = "shared" /\ Writing
      /\ sharedLog' = IF outcome = "refused" THEN sharedLog ELSE append_audit(sharedLog, cmd.event)
      /\ reply' = Answer(reply, cmd.caller, cmd.event.id, result)
      /\ acked' = IF result = "ok" /\ reply' # reply THEN acked \cup {cmd.event} ELSE acked
      /\ worker' = Receiving
      /\ UNCHANGED <<queue, closing, localLog, issued, main>>
  BY DEF append_shared, Writing
<1>2. cmd \in RecordCommands /\ cmd.event \in Events /\ cmd.event.id \in Nat /\ cmd.caller \in Callers
  BY <1>0, <1>1, AuditTyped DEF AuditType
<1>3. worker'.at = "recv" /\ ~Writing'
  BY <1>1 DEF Receiving, Writing
<1>4. result \in {"ok", "failed"} /\ (result = "ok" => worker.localOk)
  BY <1>0, <1>1 DEF AuditType, combine_destination_results
<1> HIDE DEF result
<1>5. /\ reply' \in [Callers \cup {Main} -> [at : {"idle", "waiting", "ok", "failed"}, id : Nat]]
      /\ \A x \in Callers \cup {Main} :
           /\ reply'[x].id = reply[x].id
           /\ IF x = cmd.caller /\ reply[x].at = "waiting" /\ reply[x].id = cmd.event.id
              THEN reply'[x].at = result ELSE reply'[x] = reply[x]
  <2>1. /\ AuditType /\ cmd.caller \in Callers \cup {Main} /\ cmd.event.id \in Nat
        /\ result \in {"ok", "failed"} /\ reply' = Answer(reply, cmd.caller, cmd.event.id, result)
    BY <1>0, <1>1, <1>2, <1>4
  <2> HIDE DEF cmd
  <2> QED BY <2>1 DEF Answer, AuditType
<1>6. sharedLog' \in Seq(Events)
  BY <1>0, <1>1, <1>2, AppendAudit DEF AuditType
<1>7. AuditType'
  BY <1>0, <1>1, <1>2, <1>3, <1>5, <1>6 DEF AuditType
<1>8. \A id \in Nat : BeforeQueue(id) => BeforeQueue(id)'
  BY <1>1 DEF BeforeQueue
<1>9. AuditOrder'
  <2>1. QueueOrder'
    BY <1>0, <1>1, <1>3 DEF AuditOrder, QueueOrder
  <2>2. LocalOrder'
    BY <1>0, <1>1, <1>3, <1>8, AuditTyped DEF AuditOrder, LocalOrder
  <2>3. SharedOrder'
    <3>1. CASE outcome = "refused"
      BY <1>0, <1>1, <1>3, <1>8, <3>1, AuditTyped DEF AuditOrder, SharedOrder
    <3>2. CASE outcome # "refused"
      <4> DEFINE all == Append(sharedLog, cmd.event)
      <4>1. PICK drop \in Nat : \A i \in DOMAIN sharedLog' :
              i + drop \in DOMAIN all /\ sharedLog'[i] = all[i + drop]
        <5>1. sharedLog \in Seq(Events) /\ cmd.event \in Events /\ sharedLog' = append_audit(sharedLog, cmd.event)
          BY <1>0, <1>1, <1>2, <3>2 DEF AuditType
        <5> HIDE DEF cmd
        <5> QED BY <5>1, AppendAudit
      <4>2. /\ DOMAIN all = DOMAIN sharedLog \cup {Len(sharedLog) + 1}
            /\ all[Len(sharedLog) + 1] = cmd.event
            /\ \A i \in DOMAIN sharedLog : all[i] = sharedLog[i] /\ i < Len(sharedLog) + 1
            /\ DOMAIN all \subseteq Nat
        BY <1>0, <1>2 DEF AuditType
      <4> HIDE DEF all
      <4>3. \A i \in DOMAIN all : all[i].id \in Nat /\ BeforeQueue(all[i].id)
        BY <1>0, <1>1, <1>2, <4>2, AuditTyped DEF AuditOrder, QueueOrder, SharedOrder
      <4>4. \A i, k \in DOMAIN all : i < k => all[i].id < all[k].id
        BY <1>0, <1>1, <1>2, <4>2, AuditTyped DEF AuditOrder, SharedOrder
      <4>5. \A i \in DOMAIN sharedLog' : BeforeQueue(sharedLog'[i].id) /\ i \in Nat
        BY <1>6, <4>1, <4>3
      <4>6. \A i, k \in DOMAIN sharedLog' : i < k => sharedLog'[i].id < sharedLog'[k].id
        BY <4>1, <4>4, <4>5
      <4> QED BY <1>1, <1>3, <4>5, <4>6 DEF SharedOrder, BeforeQueue
    <3> QED BY <3>1, <3>2
  <2>4. AckedStored'
    BY <1>0, <1>1, <1>2, <1>3, <1>4 DEF AuditOrder, AckedStored, InFile
  <2> QED BY <2>1, <2>2, <2>3, <2>4 DEF AuditOrder
<1>10. WaitersArePending'
  BY <1>0, <1>1, <1>4, <1>5 DEF WaitersArePending
<1>11. ShutdownIsLast'
  BY <1>0, <1>1, <1>2, <1>3, <1>5, ControlAssumption DEF ShutdownIsLast
<1> QED BY <1>7, <1>9, <1>10, <1>11 DEF AuditInv

(* The worker ends after the shutdown command and answers Main.            *)
LEMMA FlushKeepsAudit ==
  ASSUME AuditInv, NEW result \in {"ok", "failed"}, WorkerFlush(result), UNCHANGED main
  PROVE  AuditInv'
PROOF
<1>0. AuditType /\ AuditOrder /\ WaitersArePending /\ ShutdownIsLast
  BY DEF AuditInv
<1>1. /\ worker.at = "flush" /\ worker.cmd = ShutdownCommand /\ ~Writing
      /\ reply' = Answer(reply, Main, 0, result)
      /\ worker' = Stopped
      /\ UNCHANGED <<queue, closing, localLog, sharedLog, issued, acked, main>>
  BY <1>0 DEF WorkerFlush, AuditType, ShutdownCommand, Writing
<1>2. worker'.at = "stopped" /\ ~Writing'
  BY <1>1 DEF Stopped, Writing
<1>3. /\ reply' \in [Callers \cup {Main} -> [at : {"idle", "waiting", "ok", "failed"}, id : Nat]]
      /\ \A c \in Callers : reply'[c] = reply[c]
  <2>1. Main \in Callers \cup {Main} /\ 0 \in Nat /\ \A c \in Callers : c # Main
    BY ControlAssumption
  <2> QED BY <1>0, <1>1, <2>1 DEF Answer, AuditType
<1>4. AuditType'
  BY <1>0, <1>1, <1>2, <1>3 DEF AuditType
<1>5. \A id \in Nat : BeforeQueue(id) => BeforeQueue(id)'
  BY <1>1 DEF BeforeQueue
<1>6. AuditOrder'
  <2>1. QueueOrder'
    BY <1>0, <1>1, <1>2 DEF AuditOrder, QueueOrder
  <2>2. LocalOrder' /\ AckedStored'
    BY <1>0, <1>1, <1>2, <1>5, AuditTyped DEF AuditOrder, LocalOrder, AckedStored, InFile
  <2>3. SharedOrder'
    BY <1>0, <1>1, <1>2, <1>5, AuditTyped DEF AuditOrder, SharedOrder
  <2> QED BY <2>1, <2>2, <2>3 DEF AuditOrder
<1>7. WaitersArePending'
  BY <1>0, <1>1, <1>3 DEF WaitersArePending
<1>8. ShutdownIsLast'
  BY <1>0, <1>1, <1>2 DEF ShutdownIsLast
<1> QED BY <1>4, <1>6, <1>7, <1>8 DEF AuditInv

(* No step of the worker loses an event or its answer.                     *)
LEMMA WorkerKeepsAudit ==
  ASSUME AuditInv, run_audit_worker, UNCHANGED main
  PROVE  AuditInv'
PROOF
  BY TakeKeepsAudit, AppendLocalKeepsAudit, AppendSharedKeepsAudit, FlushKeepsAudit
     DEF run_audit_worker

(* Sending the shutdown command: the closed queue takes nothing after it.  *)
LEMMA SendKeepsAudit ==
  ASSUME AuditInv, shutdown_send, main = "closing", main' = "waiting"
  PROVE  AuditInv'
PROOF
<1>0. AuditType /\ AuditOrder /\ WaitersArePending /\ ShutdownIsLast /\ issued \in Nat
  BY DEF AuditInv, AuditType
<1>1. /\ closing /\ queue' = Append(queue, ShutdownCommand)
      /\ reply' = [reply EXCEPT ![Main] = [at |-> "waiting", id |-> 0]]
      /\ UNCHANGED <<closing, worker, localLog, sharedLog, issued, acked>>
  BY DEF shutdown_send, ShutdownCommand
<1>2. AuditType'
  BY <1>0, <1>1 DEF AuditType, Writing
<1>3. /\ Len(queue') = Len(queue) + 1 /\ queue'[Len(queue) + 1] = ShutdownCommand
      /\ \A i \in DOMAIN queue : queue'[i] = queue[i]
      /\ DOMAIN queue' = DOMAIN queue \cup {Len(queue) + 1}
  BY <1>0, <1>1 DEF AuditType
<1>4. AuditOrder'
  BY <1>0, <1>1, OrderAppend DEF ShutdownCommand
<1>5. WaitersArePending'
  BY <1>0, <1>1, <1>3, ControlAssumption DEF AuditType, WaitersArePending, Writing
<1>6. ShutdownIsLast'
  BY <1>0, <1>1, <1>3 DEF AuditType, ShutdownIsLast
<1> QED BY <1>2, <1>4, <1>5, <1>6 DEF AuditInv

(* Every identity is at most itself.                                       *)
LEMMA NatLeqReflexive == \A n \in Nat : n <= n
PROOF
  OBVIOUS

(* The process moves on; the log stays, closed once the end has begun.     *)
LEMMA MainKeepsAudit ==
  ASSUME AuditInv, UNCHANGED <<queue, worker, localLog, sharedLog, reply, issued, acked>>,
         closing' = closing \/ closing' = TRUE,
         main' \in {"closing", "waiting", "exit_ok"} => closing' = TRUE,
         main' = "exit_ok" => main = "exit_ok" \/ reply[Main].at = "ok",
         main \in {"waiting", "exited", "exit_ok"} => main' \in {"waiting", "exited", "exit_ok"}
  PROVE  AuditInv'
PROOF
<1>0. AuditType /\ AuditOrder /\ WaitersArePending /\ ShutdownIsLast /\ issued \in Nat
  BY DEF AuditInv, AuditType
<1>1. AuditType'
  BY <1>0 DEF AuditType, Writing
<1>2. AuditOrder'
  <2>1. issued' = issued /\ UNCHANGED <<queue, worker, localLog, sharedLog, acked>>
    OBVIOUS
  <2>2. issued' \in Nat
    BY <1>0, <2>1
  <2>3. issued <= issued'
    BY <1>0, <2>1, NatLeqReflexive
  <2> QED BY <1>0, <2>1, <2>2, <2>3, OrderFrame
<1>3. WaitersArePending'
  BY <1>0 DEF WaitersArePending, Writing
<1>4. ShutdownIsLast'
  BY <1>0 DEF ShutdownIsLast
<1> QED BY <1>1, <1>2, <1>3, <1>4 DEF AuditInv

(* Nothing the audit log knows of has changed.                             *)
LEMMA AuditFrame ==
  ASSUME AuditInv, UNCHANGED <<queue, closing, worker, localLog, sharedLog, reply, issued, acked, main>>
  PROVE  AuditInv'
PROOF
<1>0. AuditType /\ AuditOrder /\ WaitersArePending /\ ShutdownIsLast /\ issued \in Nat
  BY DEF AuditInv, AuditType
<1>1. AuditType'
  BY <1>0 DEF AuditType, Writing
<1>2. AuditOrder'
  BY <1>0, NatLeqReflexive, OrderFrame
<1>3. WaitersArePending'
  BY <1>0 DEF WaitersArePending, Writing
<1>4. ShutdownIsLast'
  BY <1>0 DEF ShutdownIsLast
<1> QED BY <1>1, <1>2, <1>3, <1>4 DEF AuditInv

(* The callers and actions the tasks use.                                  *)
LEMMA CallerNames ==
  /\ "reload" \in Callers /\ "handler" \in Callers /\ "lifecycle" \in Callers
  /\ "config.reload" \in Actions /\ "config.reload_failed" \in Actions /\ "router.read" \in Actions
  /\ "policy.activate" \in Actions /\ "policy.activate_failed" \in Actions
  /\ "policy.rollback" \in Actions
PROOF
  BY ControlAssumption DEF Actions

-----------------------------------------------------------------------------
(* What an installing task waits for.                                      *)

InstallActions == {"config.reload", "policy.activate", "policy.rollback"}

(* Recording an installation makes its task wait for exactly that event.   *)
LEMMA RecordAsks ==
  ASSUME AuditInv, NEW c \in Callers, NEW action \in Actions, action \in InstallActions,
         NEW snap \in Nat, record(c, action, snap)
  PROVE  Asked(c, snap)'
PROOF
<1>0. AuditType /\ QueueOrder /\ issued \in Nat
  BY DEF AuditInv, AuditOrder, AuditType
<1>1. /\ \A i \in DOMAIN queue : queue[i].kind = "record" => queue[i].event.id < issued + 1 /\ queue[i].event.id \in Nat
      /\ Writing => worker.cmd.event.id < issued + 1 /\ worker.cmd.event.id \in Nat
  BY <1>0, AuditTyped DEF QueueOrder, BeforeQueue
<1>2. CASE try_send_refuses
  BY <1>0, <1>2 DEF record, AuditEvent, Asked, AuditType
<1>3. CASE ~try_send_refuses
  <2> DEFINE event == AuditEvent(issued + 1, action, snap)
             cmd == [kind |-> "record", caller |-> c, event |-> event]
  <2>1. /\ reply' = [reply EXCEPT ![c] = [at |-> "waiting", id |-> issued + 1]]
        /\ queue' = Append(queue, cmd) /\ issued' = issued + 1
        /\ UNCHANGED <<worker, acked>>
    BY <1>3 DEF record, AuditEvent
  <2>2. /\ reply'[c].at = "waiting" /\ reply'[c].id = issued + 1
    BY <1>0, <2>1 DEF AuditType
  <2>3. cmd.event = event /\ Installs(event, snap)
    BY DEF Installs, AuditEvent, InstallActions
  <2>4. cmd \in RecordCommands
    BY <1>0 DEF RecordCommands, Events, AuditEvent
  <2> HIDE DEF cmd, event
  <2>5. \A i \in DOMAIN queue' : (i \in DOMAIN queue /\ queue'[i] = queue[i]) \/ queue'[i] = cmd
    BY <1>0, <2>1, <2>4 DEF AuditType
  <2>6. \A i \in DOMAIN queue' : queue'[i].kind = "record" /\ queue'[i].event.id = issued + 1
                                  => Installs(queue'[i].event, snap)
    BY <1>0, <1>1, <2>3, <2>5
  <2> QED BY <1>0, <1>1, <2>1, <2>2, <2>6 DEF Asked, Writing, Installs
<1> QED BY <1>2, <1>3

(* Events of others, and the worker's steps, leave what a task waits for.  *)
LEMMA OthersRecordKeepsAsked ==
  ASSUME AuditInv, NEW c \in Callers, NEW snap, Asked(c, snap),
         NEW d \in Callers, d # c, NEW action \in Actions, NEW s \in Nat, record(d, action, s)
  PROVE  Asked(c, snap)'
PROOF
<1>0. AuditType /\ issued \in Nat /\ reply[c].id \in Nat /\ reply'[c] = reply[c] /\ reply[c].id <= issued
  BY AuditTyped DEF AuditInv, record, AuditType, Asked
<1>1. issued' = issued + 1 /\ UNCHANGED <<worker, acked>>
  BY DEF record
<1>2. \A i \in DOMAIN queue' : \/ i \in DOMAIN queue /\ queue'[i] = queue[i]
                               \/ queue'[i].event.id = issued + 1
  <2>1. CASE try_send_refuses
    BY <2>1 DEF record
  <2>2. CASE ~try_send_refuses
    <3> DEFINE cmd == [kind |-> "record", caller |-> d, event |-> AuditEvent(issued + 1, action, s)]
    <3>1. queue' = Append(queue, cmd)
      BY <2>2 DEF record, AuditEvent
    <3>2. cmd \in RecordCommands /\ cmd.event.id = issued + 1
      BY <1>0 DEF RecordCommands, Events, AuditEvent
    <3> HIDE DEF cmd
    <3> QED BY <1>0, <3>1, <3>2 DEF AuditType
  <2> QED BY <2>1, <2>2
<1> QED BY <1>0, <1>1, <1>2 DEF Asked, Writing, Installs

(* The worker answers ok only for the event the task asked about.          *)
LEMMA WorkerKeepsAsked ==
  ASSUME AuditInv, NEW c \in Callers, NEW snap, Asked(c, snap), run_audit_worker
  PROVE  Asked(c, snap)'
PROOF
<1>0. AuditType /\ issued \in Nat /\ reply[c].id \in Nat /\ reply[c].id <= issued /\ c # Main
  BY AuditTyped, ControlAssumption DEF AuditInv, Asked
<1>1. CASE WorkerTake
  <2>1. /\ queue # <<>> /\ queue' = Tail(queue) /\ worker'.cmd = queue[1]
        /\ worker'.at = IF queue[1].kind = "record" THEN "local" ELSE "flush"
        /\ UNCHANGED <<reply, issued, acked>>
    BY <1>0, <1>1 DEF WorkerTake, AuditType
  <2>2. 1 \in DOMAIN queue /\ \A i \in DOMAIN queue' : i + 1 \in DOMAIN queue /\ queue'[i] = queue[i + 1]
    BY <1>0, <2>1 DEF AuditType
  <2> QED BY <1>0, <2>1, <2>2 DEF Asked, Writing, Installs
<1>2. ASSUME NEW stored \in BOOLEAN, append_local(stored) PROVE Asked(c, snap)'
  BY <1>0, <1>2 DEF append_local, Asked, Writing, Installs
<1>3. ASSUME NEW outcome \in {"stored", "lost", "refused"}, append_shared(outcome) PROVE Asked(c, snap)'
  <2> DEFINE cmd == worker.cmd
             result == combine_destination_results(worker.localOk, outcome = "stored")
  <2>1. /\ Writing /\ worker' = Receiving /\ UNCHANGED <<queue, issued>>
        /\ reply' = Answer(reply, cmd.caller, cmd.event.id, result)
        /\ acked' = IF result = "ok" /\ reply' # reply THEN acked \cup {cmd.event} ELSE acked
    BY <1>3 DEF append_shared, Writing
  <2>2. cmd.caller \in Callers /\ cmd.event.id \in Nat /\ ~Writing'
    BY <1>0, <2>1, AuditTyped DEF Receiving, Writing
  <2>3. result \in {"ok", "failed"}
    BY DEF combine_destination_results
  <2> HIDE DEF cmd, result
  <2>4. CASE c = cmd.caller /\ reply[c].at = "waiting" /\ reply[c].id = cmd.event.id
    <3>1. reply'[c].at = result /\ reply'[c].id = reply[c].id /\ reply'[c].at # reply[c].at
      BY <1>0, <2>1, <2>2, <2>3, <2>4 DEF Answer, AuditType
    <3>2. Installs(cmd.event, snap)
      BY <2>1, <2>4 DEF Asked, cmd
    <3>3. result = "ok" => cmd.event \in acked'
      BY <2>1, <3>1
    <3> QED BY <1>0, <2>1, <2>3, <3>1, <3>2, <3>3 DEF Asked, Installs
  <2>5. CASE ~(c = cmd.caller /\ reply[c].at = "waiting" /\ reply[c].id = cmd.event.id)
    <3>1. reply'[c] = reply[c]
      BY <1>0, <2>1, <2>2, <2>3, <2>5 DEF Answer, AuditType
    <3> QED BY <1>0, <2>1, <2>2, <3>1 DEF Asked, Installs
  <2> QED BY <2>4, <2>5
<1>4. ASSUME NEW result \in {"ok", "failed"}, WorkerFlush(result) PROVE Asked(c, snap)'
  <2>1. /\ worker' = Stopped /\ UNCHANGED <<queue, issued, acked>> /\ reply' = Answer(reply, Main, 0, result)
    BY <1>0, <1>4 DEF WorkerFlush, AuditType, ShutdownCommand
  <2>2. reply'[c] = reply[c] /\ ~Writing'
    BY <1>0, <2>1 DEF Answer, AuditType, Stopped, Writing
  <2> QED BY <1>0, <2>1, <2>2 DEF Asked, Installs
<1> QED BY <1>1, <1>2, <1>3, <1>4 DEF run_audit_worker

(* A task keeps what it asked while the log is untouched.                  *)
LEMMA FrameKeepsAsked ==
  ASSUME AuditInv, NEW c \in Callers, NEW snap, Asked(c, snap),
         UNCHANGED <<queue, worker, issued, acked>>, reply'[c] = reply[c]
  PROVE  Asked(c, snap)'
PROOF
  BY DEF Asked, Writing, Installs

(* The shutdown command is no event: no task takes it for its own.         *)
LEMMA SendKeepsAsked ==
  ASSUME AuditInv, NEW c \in Callers, NEW snap, Asked(c, snap), shutdown_send
  PROVE  Asked(c, snap)'
PROOF
<1>0. AuditType /\ c # Main
  BY ControlAssumption DEF AuditInv
<1>1. /\ queue' = Append(queue, ShutdownCommand) /\ UNCHANGED <<worker, issued, acked>>
      /\ reply' = [reply EXCEPT ![Main] = [at |-> "waiting", id |-> 0]]
  BY DEF shutdown_send, ShutdownCommand
<1>2. reply'[c] = reply[c]
  BY <1>0, <1>1 DEF AuditType
<1>3. \A i \in DOMAIN queue' : \/ i \in DOMAIN queue /\ queue'[i] = queue[i]
                               \/ queue'[i].kind = "shutdown"
  BY <1>0, <1>1 DEF AuditType, ShutdownCommand
<1> QED BY <1>1, <1>2, <1>3 DEF Asked, Writing, Installs

-----------------------------------------------------------------------------
(* The serve process.                                                      *)

(* A state that was built is a snapshot of the file for the version asked. *)
LEMMA BuildTyped ==
  ASSUME ControlType, NEW v \in Nat, NEW outage \in BOOLEAN
  PROVE  /\ config_source_version(file) \in Nat
         /\ build_serve_state(file, v, outage) \in Snapshots \cup {NoSnapshot}
         /\ build_serve_state(file, v, outage) # NoSnapshot =>
              /\ build_serve_state(file, v, outage).version = v
              /\ build_serve_state(file, v, outage).edit = file.edit
PROOF
<1>1. file.edit \in Nat /\ file.content \in Contents /\ file.content.shadow \in BOOLEAN
  BY ControlAssumption DEF ControlType, ServeType
<1>2. Snapshot(file, v) \in Snapshots /\ Snapshot(file, v).version = v /\ Snapshot(file, v).edit = file.edit
  BY <1>1 DEF Snapshot, Snapshots
<1> QED BY <1>1, <1>2 DEF build_serve_state, config_source_version

(* With the reload task as installer the lifecycle never leaves its start. *)
LEMMA ServeKeepsLife ==
  ASSUME LifeInv, installer = "reload", UNCHANGED <<lifeVars, installer>>
  PROVE  LifeInv' /\ ~Mutating /\ ~Mutating'
PROOF
<1>1. UNCHANGED <<active, history, runtimes, lifecycle, installer>> /\ installer # "lifecycle"
  BY DEF lifeVars
<1>2. ~Booted /\ ~Mutating /\ active = NoReceipt /\ history = <<>>
  BY <1>1 DEF LifeInv
<1>3. ~Booted' /\ ~Mutating'
  BY <1>1, <1>2 DEF Booted, Mutating
<1>4. HistoryHasRuntimes'
  BY <1>3 DEF HistoryHasRuntimes, Booted
<1>5. lifecycle'.at # "rolling"
  BY <1>3 DEF Mutating
<1> QED BY <1>1, <1>2, <1>3, <1>4, <1>5 DEF LifeInv

(* What is current stays audited while nothing else is installed.          *)
LEMMA InstalledFrame ==
  ASSUME InstalledIsAudited, holder'.current = holder.current, boot'.edit = boot.edit,
         installer' = installer, acked \subseteq acked'
  PROVE  InstalledIsAudited'
PROOF
  BY DEF InstalledIsAudited

(* Steps of the process that leave the audit log's contents alone.         *)
QuietServe ==
  \/ \E c \in Contents : EditFile(c)
  \/ \E o \in BOOLEAN : StartBuild(o)
  \/ StartServing \/ ReloadTick \/ StopServing \/ AbortReload
  \/ \E code \in {"ok", "failed", "timeout"} : Exit(code)

(* Such a step keeps the invariant.                                        *)
LEMMA QuietServeStep ==
  ASSUME IInv, Serve, QuietServe
  PROVE  IInv'
PROOF
<1>0. AuditInv /\ ControlType /\ AskedInv /\ LifeInv /\ InstalledIsAudited
  BY DEF IInv, AskedInv
<1>1. installer = "reload" /\ UNCHANGED <<lifeVars, installer>>
  BY DEF Serve
<1>2. LifeInv' /\ ~Mutating /\ ~Mutating'
  BY <1>0, <1>1, ServeKeepsLife
<1>3. UNCHANGED <<active, history, runtimes, lifecycle, installer>>
  BY <1>1 DEF lifeVars
<1>4. UNCHANGED <<queue, worker, localLog, sharedLog, reply, issued, acked>>
  BY DEF QuietServe, EditFile, StartBuild, StartServing, ReloadTick, StopServing, AbortReload, Exit,
         shutdown_close, auditVars
<1>5. AuditInv'
  <2>1. /\ closing' = closing \/ closing' = TRUE
        /\ main' \in {"closing", "waiting", "exit_ok"} => closing' = TRUE
        /\ main' = "exit_ok" => main = "exit_ok" \/ reply[Main].at = "ok"
        /\ main \in {"waiting", "exited", "exit_ok"} => main' \in {"waiting", "exited", "exit_ok"}
    <3>1. closing \in BOOLEAN /\ (main \in {"closing", "waiting", "exit_ok"} => closing)
      BY <1>0 DEF AuditInv, AuditType, ShutdownIsLast
    <3>2. CASE (\E c \in Contents : EditFile(c)) \/ ReloadTick
      BY <3>1, <3>2 DEF EditFile, ReloadTick, auditVars
    <3>3. CASE (\E o \in BOOLEAN : StartBuild(o)) \/ StartServing \/ StopServing
      BY <3>1, <3>3 DEF StartBuild, StartServing, StopServing, auditVars
    <3>4. CASE AbortReload
      BY <3>1, <3>4 DEF AbortReload, shutdown_close
    <3>5. CASE \E code \in {"ok", "failed", "timeout"} : Exit(code)
      BY <3>1, <3>5 DEF Exit, auditVars, Answered
    <3> QED BY <3>2, <3>3, <3>4, <3>5 DEF QuietServe
  <2> QED BY <1>0, <1>4, <2>1, MainKeepsAudit
<1>6. ServeType'
  <2>1. ASSUME NEW text \in Contents, EditFile(text)
        PROVE  ServeType'
    <3>1. file.edit \in Nat
      BY <1>0 DEF ControlType, ServeType
    <3>2. file' \in [edit : Nat, content : Contents] /\ UNCHANGED <<main, reload, boot, holder>>
      BY <2>1, <3>1 DEF EditFile, goodVars
    <3> QED BY <1>0, <1>1, <3>2 DEF ControlType, ServeType
  <2>2. CASE \E o \in BOOLEAN : StartBuild(o)
    <3>1. PICK o \in BOOLEAN : StartBuild(o)
      BY <2>2
    <3> DEFINE built == build_serve_state(file, 0, o)
    <3>2. built \in Snapshots \cup {NoSnapshot} /\ file.edit \in Nat
      BY <1>0, BuildTyped DEF ControlType, ServeType
    <3> HIDE DEF built
    <3>3. main = "starting" /\ UNCHANGED <<file, reload>> /\ main' \in {"built", "exited"}
          /\ (boot' = boot \/ boot' = [boot EXCEPT !.edit = file.edit])
          /\ (holder' = holder \/ holder' = [holder EXCEPT !.current = built])
      BY <3>1 DEF StartBuild, goodVars, built
    <3>4. boot' \in [edit : Nat, version : Nat]
      BY <1>0, <3>2, <3>3 DEF ControlType, ServeType
    <3>5. holder' \in [version : Nat, current : Snapshots \cup {NoSnapshot}, failures : Nat]
      BY <1>0, <3>2, <3>3 DEF ControlType, ServeType
    <3> QED BY <1>0, <1>1, <1>3, <3>3, <3>4, <3>5 DEF ControlType, ServeType
  <2>3. CASE StartServing
    <3>1. config_source_version(file) \in Nat
      BY <1>0, BuildTyped
    <3> QED BY <1>0, <1>1, <1>3, <2>3, <3>1 DEF ControlType, ServeType, StartServing
  <2>4. CASE ReloadTick
    <3>1. config_source_version(file) \in Nat
      BY <1>0, BuildTyped
    <3> QED BY <1>0, <1>1, <1>3, <2>4, <3>1 DEF ControlType, ServeType, ReloadTick, goodVars
  <2>5. CASE StopServing \/ AbortReload \/ \E code \in {"ok", "failed", "timeout"} : Exit(code)
    BY <1>0, <1>1, <1>3, <2>5 DEF ControlType, ServeType, StopServing, AbortReload, Exit, goodVars
  <2> QED BY <2>1, <2>2, <2>3, <2>4, <2>5 DEF QuietServe
<1>7. reload'.at = "audit" => reload.at = "audit" /\ reload' = reload
  BY <1>0 DEF QuietServe, ControlType, ServeType, EditFile, StartBuild, StartServing, ReloadTick, StopServing, AbortReload, Exit
<1>8. InstalledIsAudited'
  <2>1. CASE \E o \in BOOLEAN : StartBuild(o)
    <3>1. PICK o \in BOOLEAN : StartBuild(o)
      BY <2>1
    <3> DEFINE built == build_serve_state(file, 0, o)
    <3>2. built \in Snapshots \cup {NoSnapshot} /\ (built # NoSnapshot => built.edit = file.edit)
      BY <1>0, BuildTyped
    <3> HIDE DEF built
    <3>3. \/ UNCHANGED <<holder, boot>>
          \/ /\ built # NoSnapshot /\ boot' = [boot EXCEPT !.edit = file.edit]
             /\ holder' = [holder EXCEPT !.current = built]
      BY <3>1 DEF StartBuild, goodVars, built
    <3>4. CASE UNCHANGED <<holder, boot>>
      BY <1>0, <1>3, <1>4, <3>4, InstalledFrame
    <3>5. CASE built # NoSnapshot /\ boot' = [boot EXCEPT !.edit = file.edit]
               /\ holder' = [holder EXCEPT !.current = built]
      BY <1>0, <1>1, <3>2, <3>5 DEF InstalledIsAudited, ControlType
    <3> QED BY <3>3, <3>4, <3>5
  <2>2. CASE ~\E o \in BOOLEAN : StartBuild(o)
    <3>1. holder'.current = holder.current /\ boot'.edit = boot.edit
      BY <1>0, <2>2 DEF QuietServe, ControlType, ServeType, EditFile, StartServing, ReloadTick, StopServing, AbortReload, Exit, goodVars
    <3> QED BY <1>0, <1>3, <1>4, <3>1, InstalledFrame
  <2> QED BY <2>1, <2>2
<1>9. AskedInv'
  BY <1>0, <1>2, <1>4, <1>7, <1>8, FrameKeepsAsked, ControlAssumption DEF AskedInv
<1>10. LifeType'
  BY <1>0, <1>3 DEF ControlType, LifeType
<1> QED BY <1>2, <1>5, <1>6, <1>9, <1>10 DEF IInv, ControlType

(* A load that succeeded is recorded and awaited before it is installed.   *)
LEMMA ReloadBuildStep ==
  ASSUME IInv, Serve, NEW outage \in BOOLEAN, ReloadBuild(outage)
  PROVE  IInv'
PROOF
<1>0. AuditInv /\ ServeType /\ LifeType /\ ControlType /\ AskedInv /\ LifeInv /\ InstalledIsAudited
  BY DEF IInv, AskedInv, ControlType
<1>1. installer = "reload" /\ UNCHANGED <<lifeVars, installer>>
  BY DEF Serve
<1>2. LifeInv' /\ ~Mutating /\ ~Mutating'
  BY <1>0, <1>1, ServeKeepsLife
<1>3. LifeType'
  BY <1>0, <1>1 DEF LifeType, lifeVars
<1> DEFINE built == build_serve_state(file, reload.version, outage)
<1>4. reload.version \in Nat
  BY <1>0 DEF ServeType
<1>5. built \in Snapshots \cup {NoSnapshot} /\ (built # NoSnapshot => built.version = reload.version)
  BY <1>0, <1>4, BuildTyped
<1>6. /\ reload.at = "build" /\ UNCHANGED <<file, main, boot>>
      /\ \/ /\ built # NoSnapshot /\ reload' = [reload EXCEPT !.at = "audit", !.loaded = built]
            /\ record("reload", "config.reload", reload.version) /\ holder' = holder
         \/ reload' = [reload EXCEPT !.at = "refresh"] /\ UNCHANGED auditVars /\ holder' = holder
  BY DEF ReloadBuild, goodVars
<1> HIDE DEF built
<1>7. CASE /\ built # NoSnapshot /\ reload' = [reload EXCEPT !.at = "audit", !.loaded = built]
           /\ record("reload", "config.reload", reload.version) /\ holder' = holder
  <2>1. AuditInv'
    BY <1>0, <1>4, <1>6, <1>7, CallerNames, RecordKeepsAudit
  <2>2. ServeType'
    BY <1>0, <1>1, <1>5, <1>6, <1>7 DEF ServeType
  <2>3. Asked("reload", reload.version)'
    <3>2. reload'.version = reload.version
      BY <1>0, <1>7 DEF ServeType
    <3>3. \A snap \in Nat : record("reload", "config.reload", snap) => Asked("reload", snap)'
      BY <1>0, CallerNames, RecordAsks DEF InstallActions
    <3> QED BY <1>4, <1>7, <3>2, <3>3 DEF Asked
  <2>4. InstalledIsAudited'
    BY <1>0, <1>1, <1>6, <1>7, InstalledFrame DEF record
  <2> QED BY <1>2, <1>3, <2>1, <2>2, <2>3, <2>4 DEF IInv, ControlType, AskedInv
<1>8. CASE reload' = [reload EXCEPT !.at = "refresh"] /\ UNCHANGED auditVars /\ holder' = holder
  <2>1. UNCHANGED <<queue, closing, worker, localLog, sharedLog, reply, issued, acked>>
    BY <1>8 DEF auditVars
  <2>2. AuditInv'
    BY <1>0, <1>6, <2>1, AuditFrame
  <2>3. ServeType'
    BY <1>0, <1>1, <1>6, <1>8 DEF ServeType
  <2>4. reload'.at # "audit"
    BY <1>0, <1>8 DEF ServeType
  <2>5. InstalledIsAudited'
    BY <1>0, <1>1, <1>6, <1>8, <2>1, InstalledFrame
  <2> QED BY <1>2, <1>3, <2>2, <2>3, <2>4, <2>5 DEF IInv, ControlType, AskedInv
<1> QED BY <1>6, <1>7, <1>8

(* Only a load whose event was acknowledged is installed; any other end of *)
(* a load is reported.                                                     *)
LEMMA ReloadRefreshStep ==
  ASSUME IInv, Serve, ReloadRefresh
  PROVE  IInv'
PROOF
<1>0. AuditInv /\ ServeType /\ LifeType /\ ControlType /\ AskedInv /\ LifeInv /\ InstalledIsAudited
  BY DEF IInv, AskedInv, ControlType
<1>1. installer = "reload" /\ UNCHANGED <<lifeVars, installer>>
  BY DEF Serve
<1>2. LifeInv' /\ ~Mutating /\ ~Mutating'
  BY <1>0, <1>1, ServeKeepsLife
<1>3. LifeType'
  BY <1>0, <1>1 DEF LifeType, lifeVars
<1> DEFINE loaded == IF reload.at = "audit" /\ Answered("reload", "ok") THEN reload.loaded ELSE NoSnapshot
<1>4. reload.version \in Nat /\ loaded \in Snapshots \cup {NoSnapshot}
  BY <1>0 DEF ServeType
<1>5. /\ UNCHANGED <<file, main, boot>> /\ holder' = refresh(reload.version, loaded)
      /\ \/ /\ Reloaded(reload.version, loaded) /\ TakeReply("reload")
            /\ reload' = [reload EXCEPT !.at = "tick"]
            /\ UNCHANGED <<queue, closing, worker, localLog, sharedLog, issued, acked, faults>>
         \/ /\ ~Reloaded(reload.version, loaded)
            /\ record("reload", "config.reload_failed", reload.version)
            /\ reload' = [reload EXCEPT !.at = "report", !.rejected = @ \cup {reload.version}]
  BY DEF ReloadRefresh
<1>6. loaded # NoSnapshot => /\ loaded.version = reload.version
                             /\ \E e \in acked : Installs(e, reload.version)
  BY <1>0 DEF ServeType, AskedInv, Asked, Answered
<1>7. reload'.at # "audit"
  BY <1>0, <1>5 DEF ServeType
<1> HIDE DEF loaded
<1>8. ServeType'
  <2>1. holder' \in [version : Nat, current : Snapshots \cup {NoSnapshot}, failures : Nat]
    <3>1. \/ holder' = holder
          \/ loaded # NoSnapshot /\ holder' = [holder EXCEPT !.version = reload.version, !.current = loaded]
          \/ holder' = [holder EXCEPT !.version = reload.version, !.failures = @ + 1]
      BY <1>5 DEF refresh
    <3>2. holder \in [version : Nat, current : Snapshots \cup {NoSnapshot}, failures : Nat]
      BY <1>0 DEF ServeType
    <3>3. CASE holder' = [holder EXCEPT !.version = reload.version, !.failures = @ + 1]
      <4>1. holder.failures \in Nat /\ holder.failures + 1 \in Nat
        BY <3>2
      <4>2. holder' = [holder EXCEPT !.version = reload.version, !.failures = holder.failures + 1]
        BY <3>2, <3>3
      <4> QED BY <1>4, <3>2, <4>1, <4>2
    <3>4. CASE holder' = [holder EXCEPT !.version = reload.version, !.current = loaded]
      BY <1>4, <3>2, <3>4
    <3> QED BY <3>1, <3>2, <3>3, <3>4
  <2>2. reload' \in [at : {"off", "tick", "build", "audit", "refresh", "report", "aborted"},
                     version : Nat, loaded : Snapshots \cup {NoSnapshot}, rejected : SUBSET Nat]
    <3>1. \/ reload' = [reload EXCEPT !.at = "tick"]
          \/ reload' = [reload EXCEPT !.at = "report", !.rejected = @ \cup {reload.version}]
      BY <1>5
    <3>2. reload \in [at : {"off", "tick", "build", "audit", "refresh", "report", "aborted"},
                      version : Nat, loaded : Snapshots \cup {NoSnapshot}, rejected : SUBSET Nat]
      BY <1>0 DEF ServeType
    <3>3. CASE reload' = [reload EXCEPT !.at = "tick"]
      BY <3>2, <3>3
    <3>4. CASE reload' = [reload EXCEPT !.at = "report", !.rejected = @ \cup {reload.version}]
      BY <1>4, <3>2, <3>4
    <3> QED BY <3>1, <3>3, <3>4
  <2> QED BY <1>0, <1>1, <1>5, <1>7, <2>1, <2>2 DEF ServeType
<1>9. AuditInv'
  BY <1>0, <1>4, <1>5, CallerNames, TakeReplyKeepsAudit, RecordKeepsAudit
<1>10. InstalledIsAudited'
  <2>1. acked' = acked
    BY <1>5 DEF record
  <2>2. CASE Reloaded(reload.version, loaded)
    <3>1. holder'.current = loaded /\ loaded # NoSnapshot
      BY <1>0, <1>5, <2>2 DEF Reloaded, refresh, ServeType
    <3> QED BY <1>6, <2>1, <3>1 DEF InstalledIsAudited, Installs
  <2>3. CASE ~Reloaded(reload.version, loaded)
    <3>1. holder'.current = holder.current
      BY <1>0, <1>5, <2>3 DEF Reloaded, refresh, ServeType
    <3> QED BY <1>0, <1>1, <1>5, <2>1, <3>1, InstalledFrame
  <2> QED BY <2>2, <2>3
<1> QED BY <1>2, <1>3, <1>7, <1>8, <1>9, <1>10 DEF IInv, ControlType, AskedInv

(* The remaining steps of the process: the end of a report, the shutdown   *)
(* command and the operator routes.                                        *)
LEMMA OtherServeStep ==
  ASSUME IInv, Serve, ReloadReported \/ SendShutdown \/ HandlerRecords \/ HandlerLeaves
  PROVE  IInv'
PROOF
<1>0. AuditInv /\ ServeType /\ LifeType /\ ControlType /\ AskedInv /\ LifeInv /\ InstalledIsAudited
  BY DEF IInv, AskedInv, ControlType
<1>1. installer = "reload" /\ UNCHANGED <<lifeVars, installer>>
  BY DEF Serve
<1>2. LifeInv' /\ ~Mutating /\ ~Mutating'
  BY <1>0, <1>1, ServeKeepsLife
<1>3. LifeType'
  BY <1>0, <1>1 DEF LifeType, lifeVars
<1>4. UNCHANGED <<file, boot, holder, acked>>
  BY DEF ReloadReported, SendShutdown, HandlerRecords, HandlerLeaves, goodVars, serveVars, shutdown_send, record
<1>5. InstalledIsAudited'
  BY <1>0, <1>1, <1>4, InstalledFrame
<1>6. ServeType'
  BY <1>0, <1>1, <1>4 DEF ServeType, ReloadReported, SendShutdown, HandlerRecords, HandlerLeaves, serveVars
<1>7. AuditInv'
  BY <1>0, CallerNames, TakeReplyKeepsAudit, RecordKeepsAudit, SendKeepsAudit
     DEF ReloadReported, SendShutdown, HandlerRecords, HandlerLeaves, serveVars
<1>8. reload'.at = "audit" => Asked("reload", reload.version)'
  <2> SUFFICES ASSUME reload'.at = "audit" PROVE Asked("reload", reload.version)'
    OBVIOUS
  <2>1. reload' = reload
    BY <1>0 DEF ServeType, ReloadReported, SendShutdown, HandlerRecords, HandlerLeaves, serveVars
  <2>2. Asked("reload", reload.version) /\ reload.version \in Nat
    BY <1>0, <2>1 DEF AskedInv, ServeType
  <2>3. \A snap \in Nat : Asked("reload", snap) => Asked("reload", snap)'
    <3> SUFFICES ASSUME NEW snap \in Nat, Asked("reload", snap) PROVE Asked("reload", snap)'
      OBVIOUS
    <3>1. CASE HandlerRecords
      BY <1>0, <3>1, CallerNames, OthersRecordKeepsAsked DEF HandlerRecords
    <3>2. CASE HandlerLeaves
      <4>1. reply'["reload"] = reply["reload"]
        BY <1>0, <3>2, CallerNames DEF HandlerLeaves, TakeReply, AuditInv, AuditType
      <4> QED BY <1>0, <3>2, <4>1, CallerNames, FrameKeepsAsked DEF HandlerLeaves
    <3>3. CASE SendShutdown
      BY <1>0, <3>3, CallerNames, SendKeepsAsked DEF SendShutdown
    <3>4. ~ReloadReported
      BY <1>0, <2>1 DEF ReloadReported
    <3> QED BY <3>1, <3>2, <3>3, <3>4
  <2> QED BY <2>1, <2>2, <2>3 DEF Asked
<1> QED BY <1>2, <1>3, <1>5, <1>6, <1>7, <1>8 DEF IInv, ControlType, AskedInv

(* Every step of the process keeps the invariant.                          *)
LEMMA ServeStep ==
  ASSUME IInv, Serve
  PROVE  IInv'
PROOF
<1>1. QuietServe \/ (\E o \in BOOLEAN : ReloadBuild(o)) \/ ReloadRefresh
      \/ ReloadReported \/ SendShutdown \/ HandlerRecords \/ HandlerLeaves
  BY DEF Serve, ReloadTask, QuietServe
<1> QED BY <1>1, QuietServeStep, ReloadBuildStep, ReloadRefreshStep, OtherServeStep

(* With everything it speaks of unchanged, the control plane is as typed   *)
(* and ordered as before.                                                  *)
LEMMA ControlFrame ==
  ASSUME ControlType, LifeInv,
         UNCHANGED <<holder, file, main, reload, boot, active, history, runtimes, lifecycle, installer>>
  PROVE  ControlType' /\ LifeInv'
PROOF
<1>1. ServeType'
  BY DEF ControlType, ServeType
<1>2. LifeType'
  BY DEF ControlType, LifeType
<1>3. LifeInv'
  BY DEF LifeInv, Booted, Mutating, HistoryHasRuntimes
<1> QED BY <1>1, <1>2, <1>3 DEF ControlType

(* The worker's steps.                                                     *)
LEMMA WorkStep ==
  ASSUME IInv, Work
  PROVE  IInv'
PROOF
<1>0. AuditInv /\ ControlType /\ LifeInv /\ AskedInv /\ InstalledIsAudited /\ run_audit_worker
  BY DEF IInv, AskedInv, Work
<1>1. UNCHANGED <<holder, file, main, reload, boot, active, history, runtimes, lifecycle, installer>>
  BY DEF Work, goodVars, serveVars, lifeVars
<1>2. AuditInv'
  BY <1>0, <1>1, WorkerKeepsAudit
<1>3. ControlType' /\ LifeInv'
  BY <1>0, <1>1, ControlFrame
<1>4. InstalledIsAudited'
  <2>1. acked \subseteq acked'
    BY <1>0 DEF run_audit_worker, WorkerTake, append_local, append_shared, WorkerFlush
  <2> QED BY <1>0, <1>1, <2>1, InstalledFrame
<1>5. reload'.at = "audit" => Asked("reload", reload.version)'
  <2>1. \A snap : Asked("reload", snap) => Asked("reload", snap)'
    BY <1>0, CallerNames, WorkerKeepsAsked
  <2> QED BY <1>0, <1>1, <2>1 DEF AskedInv, Asked
<1>6. Mutating' => Asked("lifecycle", lifecycle.receipt.snapshot)'
  <2>1. \A snap : Asked("lifecycle", snap) => Asked("lifecycle", snap)'
    BY <1>0, CallerNames, WorkerKeepsAsked
  <2> QED BY <1>0, <1>1, <2>1 DEF AskedInv, Asked, Mutating
<1> QED BY <1>2, <1>3, <1>4, <1>5, <1>6 DEF IInv, AskedInv

(* Shadow jobs, and steps of nobody.                                       *)
LEMMA FrameStep ==
  ASSUME IInv, UNCHANGED <<queue, closing, worker, localLog, sharedLog, reply, issued, acked>>,
         UNCHANGED <<holder, file, main, reload, boot, active, history, runtimes, lifecycle, installer>>
  PROVE  IInv'
PROOF
<1>0. AuditInv /\ ControlType /\ LifeInv /\ AskedInv /\ InstalledIsAudited
  BY DEF IInv, AskedInv
<1>1. AuditInv'
  BY <1>0, AuditFrame
<1>2. ControlType' /\ LifeInv'
  BY <1>0, ControlFrame
<1>3. AskedInv'
  BY <1>0 DEF AskedInv, Asked, Mutating, InstalledIsAudited, Writing, Installs
<1> QED BY <1>1, <1>2, <1>3 DEF IInv

(* The shadow jobs touch neither the log nor what is installed.            *)
LEMMA ObserveStep ==
  ASSUME IInv, Observe
  PROVE  IInv'
PROOF
<1>1. UNCHANGED <<queue, closing, worker, localLog, sharedLog, reply, issued, acked>>
  BY DEF Observe, auditVars
<1>2. UNCHANGED <<holder, file, main, reload, boot, active, history, runtimes, lifecycle, installer>>
  BY DEF Observe, serveVars, lifeVars, schedule_shadow, evaluate, compared
<1> QED BY <1>1, <1>2, FrameStep

-----------------------------------------------------------------------------
(* The policy lifecycle.                                                   *)

(* Nothing of the process moves while a host manages policies.             *)
LEMMA ManageFrame ==
  ASSUME ServeType, installer = "lifecycle", UNCHANGED <<file, main, reload, boot, installer>>,
         holder' \in [version : Nat, current : Snapshots \cup {NoSnapshot}, failures : Nat]
  PROVE  ServeType' /\ reload'.at # "audit"
PROOF
  BY DEF ServeType

(* The runtime of a receipt, built or restored, is a snapshot of it.       *)
LEMMA RuntimeTyped ==
  ASSUME NEW receipt \in ReceiptSet
  PROVE  /\ Runtime(receipt) \in Snapshots /\ Runtime(receipt) # NoSnapshot
         /\ Runtime(receipt).version = receipt.snapshot /\ Runtime(receipt).policy = receipt.policy
PROOF
<1>1. receipt.policy \in Documents /\ receipt.policy.shadow \in BOOLEAN /\ receipt.snapshot \in Nat
  BY ControlAssumption DEF ReceiptSet
<1>2. Runtime(receipt) \in Snapshots
  BY <1>1 DEF Runtime, Snapshots
<1> QED BY <1>2, ControlAssumption DEF Runtime

(* A mutation numbers its receipt after all others and waits for its event. *)
LEMMA MutateStep ==
  ASSUME IInv, installer = "lifecycle", UNCHANGED <<file, main, reload, boot, installer>>,
         NEW receipt \in ReceiptSet, receipt.snapshot = lifecycle.receipts + 1, validate(receipt.policy),
         NEW step \in {"booting", "activating", "rolling", "reporting"}, NEW action \in Actions,
         step # "reporting" => action \in InstallActions,
         IF step = "booting" THEN lifecycle.at = "boot" ELSE lifecycle.at = "idle",
         step = "rolling" => history # <<>> /\ receipt.policy = Last(history).policy,
         Mutate(step, action, receipt)
  PROVE  IInv'
PROOF
<1>0. AuditInv /\ ServeType /\ LifeType /\ LifeInv /\ AskedInv /\ InstalledIsAudited
  BY DEF IInv, AskedInv, ControlType
<1>1. /\ lifecycle' = [at |-> step, receipt |-> receipt, receipts |-> lifecycle.receipts + 1]
      /\ record("lifecycle", action, receipt.snapshot)
      /\ UNCHANGED <<active, history, runtimes, holder>>
  BY DEF Mutate
<1>2. receipt.snapshot \in Nat /\ lifecycle.receipts \in Nat
  BY <1>0 DEF ReceiptSet, LifeType
<1>3. AuditInv'
  BY <1>0, <1>1, <1>2, CallerNames, RecordKeepsAudit
<1>4. ServeType' /\ reload'.at # "audit"
  BY <1>0, <1>1, ManageFrame DEF ServeType
<1>5. LifeType'
  BY <1>0, <1>1, <1>2 DEF LifeType
<1>6. Mutating' => Asked("lifecycle", lifecycle.receipt.snapshot)'
  <2>1. Mutating' => action \in InstallActions
    BY <1>1 DEF Mutating
  <2>2. action \in InstallActions => Asked("lifecycle", receipt.snapshot)'
    <3>1. \A snap \in Nat : action \in InstallActions /\ record("lifecycle", action, snap)
                            => Asked("lifecycle", snap)'
      BY <1>0, CallerNames, RecordAsks
    <3> QED BY <1>1, <1>2, <3>1
  <2> QED BY <1>1, <2>1, <2>2 DEF Asked
<1>7. InstalledIsAudited'
  BY <1>0, <1>1, InstalledFrame DEF record
<1>8. LifeInv'
  <2>1. /\ (Booted' <=> Booted) /\ (Mutating' <=> step # "reporting")
        /\ lifecycle'.receipts = lifecycle.receipts + 1 /\ lifecycle'.receipt = receipt
        /\ lifecycle'.at = step
    BY <1>1 DEF Booted, Mutating
  <2>2. receipt # NoReceipt
    BY ControlAssumption DEF ReceiptSet, NoReceipt
  <2>3. lifecycle'.receipts \notin DOMAIN runtimes
    BY <1>0, <1>2, <2>1 DEF LifeType
  <2>4. Booted => active.snapshot < lifecycle'.receipts /\ active.snapshot \in Nat
    BY <1>0, <1>2, <2>1 DEF LifeInv, LifeType, ReceiptSet
  <2>5. HistoryHasRuntimes'
    BY <1>0, <1>1, <2>1 DEF LifeInv, HistoryHasRuntimes, Booted
  <2> QED
    BY <1>0, <1>1, <1>2, <2>1, <2>2, <2>3, <2>4, <2>5 DEF LifeInv
<1> QED BY <1>3, <1>4, <1>5, <1>6, <1>7, <1>8 DEF IInv, ControlType, AskedInv

(* The four ways a mutation begins.                                        *)
LEMMA BeginStep ==
  ASSUME IInv, Manage,
         \/ \E doc \in Documents : bootstrap(doc) \/ activate(doc) \/ activate_failed(doc)
         \/ rollback
  PROVE  IInv'
PROOF
<1>0. ServeType /\ LifeType /\ LifeInv /\ installer = "lifecycle" /\ lifecycle.receipts \in Nat
      /\ UNCHANGED <<file, main, reload, boot, installer>>
  BY DEF IInv, AskedInv, ControlType, LifeType, Manage, serveVars
<1>1. ASSUME NEW doc \in Documents, bootstrap(doc) \/ activate(doc) \/ activate_failed(doc)
      PROVE  IInv'
  <2>1. new_receipt(doc) \in ReceiptSet /\ new_receipt(doc).snapshot = lifecycle.receipts + 1
        /\ new_receipt(doc).policy = doc
    BY <1>0 DEF new_receipt, ReceiptSet
  <2>2. CASE bootstrap(doc)
    <3>1. validate(doc) /\ lifecycle.at = "boot" /\ Mutate("booting", "policy.activate", new_receipt(doc))
      BY <2>2 DEF bootstrap
    <3> QED BY <1>0, <2>1, <3>1, CallerNames, MutateStep DEF InstallActions
  <2>3. CASE activate(doc)
    <3>1. validate(doc) /\ lifecycle.at = "idle" /\ Mutate("activating", "policy.activate", new_receipt(doc))
      BY <2>3 DEF activate
    <3> QED BY <1>0, <2>1, <3>1, CallerNames, MutateStep DEF InstallActions
  <2>4. CASE activate_failed(doc)
    <3>1. validate(doc) /\ lifecycle.at = "idle"
          /\ Mutate("reporting", "policy.activate_failed", new_receipt(doc))
      BY <2>4 DEF activate_failed
    <3> QED BY <1>0, <2>1, <3>1, CallerNames, MutateStep DEF InstallActions
  <2> QED BY <1>1, <2>2, <2>3, <2>4
<1>2. CASE rollback
  <2> DEFINE policy == Last(history).policy
  <2>1. history # <<>> /\ lifecycle.at = "idle" /\ Mutate("rolling", "policy.rollback", new_receipt(policy))
    BY <1>2 DEF rollback
  <2>2. policy \in Documents /\ validate(policy)
    <3>1. Len(history) \in DOMAIN history /\ history[Len(history)] \in ReceiptSet
      BY <1>0, <2>1 DEF LifeType
    <3> QED BY <1>0, <3>1 DEF LifeInv, ReceiptSet, Last
  <2>3. new_receipt(policy) \in ReceiptSet /\ new_receipt(policy).snapshot = lifecycle.receipts + 1
        /\ new_receipt(policy).policy = policy
    BY <1>0, <2>2 DEF new_receipt, ReceiptSet
  <2> QED BY <1>0, <2>1, <2>2, <2>3, CallerNames, MutateStep DEF InstallActions
<1> QED BY <1>1, <1>2

(* What every installation shares: the log, the process and the question   *)
(* the task asked are settled.                                             *)
LEMMA InstallShared ==
  ASSUME IInv, Manage, Mutating, Done, Answered("lifecycle", "ok"),
         holder' \in [version : Nat, current : Snapshots \cup {NoSnapshot}, failures : Nat],
         holder'.current # NoSnapshot => holder'.current.version = lifecycle.receipt.snapshot
                                         \/ holder'.current = holder.current
  PROVE  AuditInv' /\ ServeType' /\ AskedInv'
         /\ lifecycle' = [lifecycle EXCEPT !.at = "idle"] /\ lifecycle'.at = "idle"
PROOF
<1>0. AuditInv /\ ServeType /\ LifeType /\ AskedInv /\ InstalledIsAudited /\ installer = "lifecycle"
      /\ UNCHANGED <<file, main, reload, boot, installer>>
  BY DEF IInv, AskedInv, ControlType, Manage, serveVars
<1>1. AuditInv' /\ acked' = acked
  BY <1>0, CallerNames, TakeReplyKeepsAudit DEF Done
<1>2. ServeType' /\ reload'.at # "audit"
  BY <1>0, ManageFrame
<1>3. lifecycle' = [lifecycle EXCEPT !.at = "idle"] /\ lifecycle'.at = "idle"
  BY <1>0 DEF Done, LifeType
<1>4. \E e \in acked : Installs(e, lifecycle.receipt.snapshot)
  BY <1>0 DEF AskedInv, Asked, Answered
<1>5. InstalledIsAudited'
  BY <1>0, <1>1, <1>4 DEF InstalledIsAudited, Installs
<1>6. AskedInv'
  BY <1>2, <1>3, <1>5 DEF AskedInv, Mutating
<1> QED BY <1>1, <1>2, <1>3, <1>6

(* The first policy becomes the active one, with its runtime.              *)
LEMMA BootStep ==
  ASSUME IInv, Manage, BootInstalls
  PROVE  IInv'
PROOF
<1>0. ServeType /\ LifeType /\ LifeInv /\ lifecycle.at = "booting" /\ Mutating /\ installer = "lifecycle"
      /\ Done /\ Answered("lifecycle", "ok") /\ installer' = installer
  BY DEF IInv, ControlType, BootInstalls, Acknowledged, Mutating, Manage
<1> DEFINE receipt == lifecycle.receipt
<1>1. receipt \in ReceiptSet /\ receipt.snapshot = lifecycle.receipts /\ validate(receipt.policy)
      /\ receipt # NoReceipt /\ lifecycle.receipts \in Nat /\ receipt.snapshot \in Nat \ {0}
  BY <1>0 DEF LifeInv, LifeType, ReceiptSet
<1>2. /\ holder' = Fresh(receipt.snapshot, Runtime(receipt)) /\ active' = receipt /\ history' = <<>>
      /\ runtimes' = Store(receipt, Runtime(receipt))
  BY DEF BootInstalls
<1>3. Runtime(receipt) \in Snapshots /\ Runtime(receipt) # NoSnapshot
      /\ Runtime(receipt).version = receipt.snapshot /\ Runtime(receipt).policy = receipt.policy
  BY <1>1, RuntimeTyped
<1>4. /\ holder' \in [version : Nat, current : Snapshots \cup {NoSnapshot}, failures : Nat]
      /\ holder'.current = Runtime(receipt) /\ holder'.version = receipt.snapshot
  BY <1>1, <1>2, <1>3 DEF Fresh
<1>5. AuditInv' /\ ServeType' /\ AskedInv'
      /\ lifecycle' = [lifecycle EXCEPT !.at = "idle"] /\ lifecycle'.at = "idle"
  BY <1>0, <1>3, <1>4, InstallShared
<1>6. DOMAIN runtimes' = DOMAIN runtimes \cup {receipt.snapshot}
      /\ runtimes' \in [DOMAIN runtimes' -> Snapshots]
  BY <1>0, <1>2, <1>3 DEF Store, LifeType
<1>7. LifeType'
  BY <1>0, <1>1, <1>2, <1>5, <1>6 DEF LifeType
<1>8. LifeInv'
  <2>1. Booted' /\ ~Mutating' /\ lifecycle'.receipts = lifecycle.receipts
    BY <1>0, <1>5 DEF Booted, Mutating, LifeType
  <2>2. HistoryHasRuntimes'
    BY <1>2, <1>3, <1>4, <1>6 DEF HistoryHasRuntimes
  <2>3. runtimes'[receipt.snapshot] = Runtime(receipt)
    BY <1>2 DEF Store
  <2> QED BY <1>0, <1>1, <1>2, <1>3, <1>4, <1>5, <2>1, <2>2, <2>3, ControlAssumption DEF LifeInv
<1> QED BY <1>5, <1>7, <1>8 DEF IInv, ControlType

(* refresh installs a receipt newer than the one it holds.                 *)
LEMMA RefreshInstalls ==
  ASSUME ServeType, NEW v \in Nat, v # holder.version, NEW runtime \in Snapshots
  PROVE  /\ refresh(v, runtime) \in [version : Nat, current : Snapshots \cup {NoSnapshot}, failures : Nat]
         /\ refresh(v, runtime).current = runtime /\ refresh(v, runtime).version = v
         /\ runtime # NoSnapshot
PROOF
  BY ControlAssumption DEF refresh, ServeType

(* An activation pushes the receipt; a full history drops its oldest       *)
(* entry, whose runtime no other entry shares.                             *)
LEMMA ActivateStep ==
  ASSUME IInv, Manage, ActivateInstalls
  PROVE  IInv'
PROOF
<1>0. ServeType /\ LifeType /\ LifeInv /\ lifecycle.at = "activating" /\ Mutating /\ Booted
      /\ installer = "lifecycle" /\ Done /\ Answered("lifecycle", "ok") /\ installer' = installer
  BY DEF IInv, ControlType, ActivateInstalls, Acknowledged, Mutating, Booted, Manage
<1> DEFINE receipt == lifecycle.receipt
           full == Len(history) = MAX_ACTIVATION_HISTORY
           stored == Store(receipt, Runtime(receipt))
           kept == IF full THEN Tail(history) ELSE history
<1>1. receipt \in ReceiptSet /\ receipt.snapshot = lifecycle.receipts /\ validate(receipt.policy)
      /\ receipt # NoReceipt /\ lifecycle.receipts \in Nat /\ receipt.snapshot \in Nat \ {0}
      /\ lifecycle.receipts \notin DOMAIN runtimes
  BY <1>0 DEF LifeInv, LifeType, ReceiptSet
<1>2. /\ holder' = refresh(receipt.snapshot, Runtime(receipt)) /\ active' = receipt
      /\ history' = Append(kept, active)
      /\ runtimes' = IF full THEN Restrict(stored, DOMAIN stored \ {Head(history).snapshot}) ELSE stored
  BY DEF ActivateInstalls
<1>3. Runtime(receipt) \in Snapshots /\ Runtime(receipt) # NoSnapshot
      /\ Runtime(receipt).version = receipt.snapshot /\ Runtime(receipt).policy = receipt.policy
  BY <1>1, RuntimeTyped
<1>4. active \in ReceiptSet /\ active.snapshot \in Nat /\ active.snapshot < receipt.snapshot
      /\ validate(active.policy) /\ holder.version = active.snapshot
      /\ active.snapshot \in DOMAIN runtimes /\ runtimes[active.snapshot].policy = active.policy
  BY <1>0, <1>1 DEF LifeInv, LifeType, ReceiptSet, HistoryHasRuntimes, Booted
<1>5. /\ holder' \in [version : Nat, current : Snapshots \cup {NoSnapshot}, failures : Nat]
      /\ holder'.current = Runtime(receipt) /\ holder'.version = receipt.snapshot
  BY <1>0, <1>1, <1>2, <1>3, <1>4, RefreshInstalls
<1>6. AuditInv' /\ ServeType' /\ AskedInv'
      /\ lifecycle' = [lifecycle EXCEPT !.at = "idle"] /\ lifecycle'.at = "idle"
  BY <1>0, <1>3, <1>5, InstallShared
<1>7. /\ history \in Seq(ReceiptSet) /\ kept \in Seq(ReceiptSet) /\ Len(history) \in Nat
      /\ (full => history # <<>> /\ Head(history) = history[1] /\ 1 \in DOMAIN history)
      /\ Len(kept) < MAX_ACTIVATION_HISTORY
      /\ \E drop \in {0, 1} :
           /\ full => drop = 1
           /\ \A i \in DOMAIN kept : i + drop \in DOMAIN history /\ kept[i] = history[i + drop]
  <2>1. history \in Seq(ReceiptSet) /\ Len(history) <= MAX_ACTIVATION_HISTORY /\ MAX_ACTIVATION_HISTORY \in Nat \ {0}
    BY <1>0, ControlAssumption DEF LifeType, LifeInv
  <2>2. CASE full
    <3>1. history # <<>> /\ Len(history) \in Nat \ {0}
      BY <2>1, <2>2
    <3>2. Tail(history) \in Seq(ReceiptSet) /\ Len(Tail(history)) = Len(history) - 1
          /\ Head(history) = history[1] /\ 1 \in DOMAIN history
          /\ \A i \in DOMAIN Tail(history) : i + 1 \in DOMAIN history /\ Tail(history)[i] = history[i + 1]
      BY <2>1, <3>1
    <3> QED BY <2>1, <2>2, <3>1, <3>2
  <2>3. CASE ~full
    <3>1. \A i \in DOMAIN history : i + 0 = i
      BY <2>1
    <3> QED BY <2>1, <2>3, <3>1
  <2> QED BY <2>2, <2>3
<1>8. /\ DOMAIN stored = DOMAIN runtimes \cup {receipt.snapshot} /\ stored[receipt.snapshot] = Runtime(receipt)
      /\ \A s \in DOMAIN runtimes : stored[s] = runtimes[s] /\ s # receipt.snapshot
      /\ \A s \in DOMAIN stored : stored[s] \in Snapshots
  BY <1>0, <1>1, <1>3 DEF Store, LifeType
<1>9. /\ DOMAIN runtimes' = IF full THEN DOMAIN stored \ {history[1].snapshot} ELSE DOMAIN stored
      /\ \A s \in DOMAIN runtimes' : runtimes'[s] = stored[s]
      /\ runtimes' \in [DOMAIN runtimes' -> Snapshots]
  BY <1>2, <1>7, <1>8 DEF Restrict, Store
<1> HIDE DEF kept, stored
<1>10. \A i \in DOMAIN kept : /\ kept[i] \in ReceiptSet /\ validate(kept[i].policy)
                              /\ kept[i].snapshot < active.snapshot /\ kept[i].snapshot \in Nat
                              /\ kept[i].snapshot \in DOMAIN runtimes
                              /\ runtimes[kept[i].snapshot].policy = kept[i].policy
                              /\ full => kept[i].snapshot # history[1].snapshot
  <2>1. PICK drop \in {0, 1} : /\ full => drop = 1
                               /\ \A i \in DOMAIN kept : i + drop \in DOMAIN history /\ kept[i] = history[i + drop]
    BY <1>7
  <2>2. \A i \in DOMAIN kept : i \in Nat \ {0}
    BY <1>7
  <2>3. \A k \in DOMAIN history : /\ history[k] \in ReceiptSet /\ validate(history[k].policy)
                                  /\ history[k].snapshot < active.snapshot /\ history[k].snapshot \in Nat
                                  /\ history[k].snapshot \in DOMAIN runtimes
                                  /\ runtimes[history[k].snapshot].policy = history[k].policy
    <3>1. \A k \in DOMAIN history : history[k] \in ReceiptSet
      BY <1>7
    <3>2. \A k \in DOMAIN history : history[k].snapshot \in Nat
      BY <3>1 DEF ReceiptSet
    <3>3. \A k \in DOMAIN history : /\ history[k].snapshot \in DOMAIN runtimes
                                    /\ runtimes[history[k].snapshot].policy = history[k].policy
      BY <1>0 DEF LifeInv, HistoryHasRuntimes, Booted
    <3>4. \A k \in DOMAIN history : history[k].snapshot < active.snapshot /\ validate(history[k].policy)
      BY <1>0 DEF LifeInv
    <3> QED BY <3>1, <3>2, <3>3, <3>4
  <2>4. ASSUME full, NEW i \in DOMAIN kept
        PROVE  history[1].snapshot < history[i + 1].snapshot /\ history[1].snapshot \in Nat
    BY <1>0, <1>7, <2>1, <2>2, <2>3, <2>4 DEF LifeInv
  <2> QED BY <2>1, <2>3, <2>4
<1>11. \A i, k \in DOMAIN kept : i < k => kept[i].snapshot < kept[k].snapshot
  <2>1. PICK drop \in {0, 1} :
          \A i \in DOMAIN kept : i + drop \in DOMAIN history /\ kept[i] = history[i + drop]
    BY <1>7
  <2>2. \A i \in DOMAIN kept : i \in Nat
    BY <1>7
  <2> QED BY <1>0, <2>1, <2>2 DEF LifeInv
<1>12. /\ history' \in Seq(ReceiptSet) /\ Len(history') = Len(kept) + 1 /\ Len(kept) \in Nat
       /\ DOMAIN history' = DOMAIN kept \cup {Len(kept) + 1} /\ history'[Len(kept) + 1] = active
       /\ \A i \in DOMAIN kept : history'[i] = kept[i] /\ i < Len(kept) + 1
  BY <1>2, <1>4, <1>7
<1>13. LifeType'
  <2>1. lifecycle' \in [at : {"boot", "booting", "idle", "activating", "rolling", "reporting"},
                        receipt : ReceiptSet \cup {NoReceipt}, receipts : Nat]
        /\ lifecycle'.receipts = lifecycle.receipts
    BY <1>0, <1>6 DEF LifeType
  <2>2. DOMAIN runtimes \subseteq 1..lifecycle.receipts /\ receipt.snapshot \in 1..lifecycle.receipts
    BY <1>0, <1>1 DEF LifeType
  <2>3. DOMAIN runtimes' \subseteq 1..lifecycle'.receipts
    BY <1>8, <1>9, <2>1, <2>2
  <2> QED BY <1>1, <1>2, <1>9, <1>12, <2>1, <2>3 DEF LifeType
<1>14. LifeInv'
  <2>1. Booted' /\ ~Mutating' /\ lifecycle'.receipts = lifecycle.receipts
    BY <1>0, <1>6 DEF Booted, Mutating, LifeType
  <2>2. /\ \A i \in DOMAIN history' : /\ history'[i].snapshot < active'.snapshot
                                      /\ validate(history'[i].policy)
                                      /\ history'[i].snapshot \in DOMAIN runtimes'
                                      /\ runtimes'[history'[i].snapshot].policy = history'[i].policy
    <3>1. \A i \in DOMAIN kept : history'[i].snapshot \in DOMAIN runtimes' /\ history'[i].snapshot \in DOMAIN runtimes
      BY <1>8, <1>9, <1>10, <1>12
    <3>2. full => active.snapshot # history[1].snapshot
      BY <1>0, <1>4, <1>7 DEF LifeInv
    <3>3. active.snapshot \in DOMAIN runtimes'
      BY <1>4, <1>8, <1>9, <3>2
    <3>4. ASSUME NEW i \in DOMAIN kept
          PROVE  /\ history'[i].snapshot < active'.snapshot /\ validate(history'[i].policy)
                 /\ runtimes'[history'[i].snapshot].policy = history'[i].policy
      <4>1. history'[i] = kept[i] /\ kept[i].snapshot < active.snapshot /\ kept[i].snapshot \in Nat
            /\ validate(kept[i].policy) /\ runtimes[kept[i].snapshot].policy = kept[i].policy
        BY <1>10, <1>12
      <4>2. runtimes'[kept[i].snapshot] = runtimes[kept[i].snapshot]
        BY <1>8, <1>9, <3>1, <4>1
      <4> QED BY <1>1, <1>2, <1>4, <4>1, <4>2
    <3>5. /\ history'[Len(kept) + 1].snapshot < active'.snapshot
          /\ validate(history'[Len(kept) + 1].policy)
          /\ runtimes'[active.snapshot].policy = active.policy
      BY <1>2, <1>4, <1>8, <1>9, <1>12, <3>3
    <3> QED BY <1>12, <3>1, <3>3, <3>4, <3>5
  <2>3. \A i, k \in DOMAIN history' : i < k => history'[i].snapshot < history'[k].snapshot
    BY <1>4, <1>7, <1>10, <1>11, <1>12
  <2>4. Len(history') <= MAX_ACTIVATION_HISTORY
    BY <1>7, <1>12, ControlAssumption
  <2>5. receipt.snapshot \in DOMAIN runtimes' /\ runtimes'[receipt.snapshot].policy = receipt.policy
    <3>1. full => receipt.snapshot # history[1].snapshot
      BY <1>0, <1>1, <1>4, <1>7, <1>8 DEF LifeInv, HistoryHasRuntimes, Booted
    <3> QED BY <1>3, <1>8, <1>9, <3>1
  <2>6. HistoryHasRuntimes'
    BY <1>2, <1>3, <1>5, <2>2, <2>5 DEF HistoryHasRuntimes
  <2> QED BY <1>0, <1>1, <1>2, <1>3, <1>5, <1>6, <2>1, <2>2, <2>3, <2>4, <2>5, <2>6, ControlAssumption DEF LifeInv
<1> QED BY <1>6, <1>13, <1>14 DEF IInv, ControlType

(* A rollback finds the runtime of its target, installs it under a new     *)
(* receipt and forgets the runtime it leaves.                              *)
LEMMA RollbackStep ==
  ASSUME IInv, Manage, RollbackInstalls
  PROVE  IInv'
PROOF
<1>0. ServeType /\ LifeType /\ LifeInv /\ lifecycle.at = "rolling" /\ Mutating /\ Booted
      /\ installer = "lifecycle" /\ Done /\ Answered("lifecycle", "ok") /\ installer' = installer
  BY DEF IInv, ControlType, RollbackInstalls, Acknowledged, Mutating, Booted, Manage
<1> DEFINE receipt == lifecycle.receipt
           n == Len(history)
           target == history[n]
           runtime == Restored(receipt)
           stored == Store(receipt, runtime)
<1>1. receipt \in ReceiptSet /\ receipt.snapshot = lifecycle.receipts /\ validate(receipt.policy)
      /\ receipt # NoReceipt /\ lifecycle.receipts \in Nat /\ receipt.snapshot \in Nat \ {0}
      /\ lifecycle.receipts \notin DOMAIN runtimes
  BY <1>0 DEF LifeInv, LifeType, ReceiptSet
<1>2. /\ holder' = refresh(receipt.snapshot, runtime) /\ active' = receipt
      /\ history' = Front(history)
      /\ runtimes' = Restrict(stored, DOMAIN stored \ {active.snapshot})
  BY DEF RollbackInstalls
<1>3. active \in ReceiptSet /\ active.snapshot \in Nat /\ active.snapshot < receipt.snapshot
      /\ holder.version = active.snapshot /\ active.snapshot \in DOMAIN runtimes
  BY <1>0, <1>1 DEF LifeInv, LifeType, ReceiptSet, HistoryHasRuntimes, Booted
<1>4. history \in Seq(ReceiptSet) /\ history # <<>> /\ n \in Nat \ {0} /\ n \in DOMAIN history
      /\ DOMAIN history = 1..n /\ receipt.policy = target.policy
  BY <1>0 DEF LifeInv, LifeType, Last
<1>5. \A k \in DOMAIN history : /\ history[k] \in ReceiptSet /\ validate(history[k].policy)
                                /\ history[k].snapshot < active.snapshot /\ history[k].snapshot \in Nat
                                /\ history[k].snapshot \in DOMAIN runtimes
                                /\ runtimes[history[k].snapshot].policy = history[k].policy
  <2>1. \A k \in DOMAIN history : history[k] \in ReceiptSet
    BY <1>4
  <2>2. \A k \in DOMAIN history : history[k].snapshot \in Nat
    BY <2>1 DEF ReceiptSet
  <2>3. \A k \in DOMAIN history : /\ history[k].snapshot \in DOMAIN runtimes
                                  /\ runtimes[history[k].snapshot].policy = history[k].policy
    BY <1>0 DEF LifeInv, HistoryHasRuntimes, Booted
  <2>4. \A k \in DOMAIN history : history[k].snapshot < active.snapshot /\ validate(history[k].policy)
    BY <1>0 DEF LifeInv
  <2> QED BY <2>1, <2>2, <2>3, <2>4
<1>6. runtime \in Snapshots /\ runtime # NoSnapshot /\ runtime.version = receipt.snapshot
      /\ runtime.policy = receipt.policy
  <2>1. runtimes[target.snapshot] \in Snapshots /\ runtimes[target.snapshot].policy = target.policy
    BY <1>0, <1>4, <1>5 DEF LifeType
  <2>2. runtime = [runtimes[target.snapshot] EXCEPT !.edit = receipt.snapshot, !.version = receipt.snapshot]
    BY DEF Restored, Last
  <2> QED BY <1>1, <1>4, <2>1, <2>2, ControlAssumption DEF Snapshots
<1> HIDE DEF runtime
<1>7. /\ holder' \in [version : Nat, current : Snapshots \cup {NoSnapshot}, failures : Nat]
      /\ holder'.current = runtime /\ holder'.version = receipt.snapshot
  BY <1>0, <1>1, <1>2, <1>3, <1>6, RefreshInstalls
<1>8. AuditInv' /\ ServeType' /\ AskedInv'
      /\ lifecycle' = [lifecycle EXCEPT !.at = "idle"] /\ lifecycle'.at = "idle"
  BY <1>0, <1>6, <1>7, InstallShared
<1>9. /\ DOMAIN stored = DOMAIN runtimes \cup {receipt.snapshot} /\ stored[receipt.snapshot] = runtime
      /\ \A s \in DOMAIN runtimes : stored[s] = runtimes[s] /\ s # receipt.snapshot
      /\ \A s \in DOMAIN stored : stored[s] \in Snapshots
  BY <1>0, <1>1, <1>6 DEF Store, LifeType
<1>10. /\ DOMAIN runtimes' = DOMAIN stored \ {active.snapshot}
       /\ \A s \in DOMAIN runtimes' : runtimes'[s] = stored[s]
       /\ runtimes' \in [DOMAIN runtimes' -> Snapshots]
  BY <1>2, <1>9 DEF Restrict
<1> HIDE DEF stored
<1>11. /\ history' \in Seq(ReceiptSet) /\ Len(history') = n - 1 /\ DOMAIN history' = 1..(n - 1)
       /\ \A i \in DOMAIN history' : history'[i] = history[i] /\ i \in DOMAIN history
  BY <1>2, <1>4 DEF Front
<1>12. LifeType'
  <2>1. lifecycle' \in [at : {"boot", "booting", "idle", "activating", "rolling", "reporting"},
                        receipt : ReceiptSet \cup {NoReceipt}, receipts : Nat]
        /\ lifecycle'.receipts = lifecycle.receipts
    BY <1>0, <1>8 DEF LifeType
  <2>2. DOMAIN runtimes \subseteq 1..lifecycle.receipts /\ receipt.snapshot \in 1..lifecycle.receipts
    BY <1>0, <1>1 DEF LifeType
  <2>3. DOMAIN runtimes' \subseteq 1..lifecycle'.receipts
    BY <1>9, <1>10, <2>1, <2>2
  <2> QED BY <1>1, <1>2, <1>10, <1>11, <2>1, <2>3 DEF LifeType
<1>13. LifeInv'
  <2>1. Booted' /\ ~Mutating' /\ lifecycle'.receipts = lifecycle.receipts
    BY <1>0, <1>8 DEF Booted, Mutating, LifeType
  <2>2. ASSUME NEW i \in DOMAIN history'
        PROVE  /\ history'[i].snapshot < active'.snapshot /\ validate(history'[i].policy)
               /\ history'[i].snapshot \in DOMAIN runtimes'
               /\ runtimes'[history'[i].snapshot].policy = history'[i].policy
    <3>1. history'[i] = history[i] /\ i \in DOMAIN history
      BY <1>11
    <3>2. history[i].snapshot < active.snapshot /\ history[i].snapshot \in Nat
          /\ history[i].snapshot \in DOMAIN runtimes
      BY <1>5, <3>1
    <3>3. history[i].snapshot \in DOMAIN runtimes'
      BY <1>3, <1>9, <1>10, <3>2
    <3>4. runtimes'[history[i].snapshot] = runtimes[history[i].snapshot]
      BY <1>9, <1>10, <3>2, <3>3
    <3>5. history[i].snapshot < receipt.snapshot
      BY <1>1, <1>3, <3>2
    <3> QED BY <1>2, <1>5, <3>1, <3>3, <3>4, <3>5
  <2>3. \A i, k \in DOMAIN history' : i < k => history'[i].snapshot < history'[k].snapshot
    BY <1>0, <1>11 DEF LifeInv
  <2>4. Len(history') <= MAX_ACTIVATION_HISTORY
    BY <1>0, <1>4, <1>11, ControlAssumption DEF LifeInv
  <2>5. receipt.snapshot \in DOMAIN runtimes' /\ runtimes'[receipt.snapshot].policy = receipt.policy
    BY <1>1, <1>3, <1>6, <1>9, <1>10
  <2>6. HistoryHasRuntimes'
    BY <1>2, <1>6, <1>7, <2>2, <2>5 DEF HistoryHasRuntimes
  <2> QED BY <1>0, <1>1, <1>2, <1>6, <1>7, <1>8, <2>1, <2>2, <2>3, <2>4, <2>5, <2>6, ControlAssumption DEF LifeInv
<1> QED BY <1>8, <1>12, <1>13 DEF IInv, ControlType

(* A mutation that was refused, reported or dropped installs nothing.      *)
LEMMA NothingStep ==
  ASSUME IInv, Manage, NothingInstalled
  PROVE  IInv'
PROOF
<1>0. AuditInv /\ ServeType /\ LifeType /\ LifeInv /\ AskedInv /\ InstalledIsAudited
      /\ installer = "lifecycle" /\ UNCHANGED <<file, main, reload, boot, installer>>
  BY DEF IInv, AskedInv, ControlType, Manage, serveVars
<1>1. /\ lifecycle' = [lifecycle EXCEPT !.at = IF lifecycle.at = "booting" THEN "boot" ELSE "idle"]
      /\ lifecycle.at \in {"booting", "activating", "rolling", "reporting"}
      /\ TakeReply("lifecycle")
      /\ UNCHANGED <<queue, closing, worker, localLog, sharedLog, issued, acked>>
      /\ UNCHANGED <<active, history, runtimes, holder>>
  BY DEF NothingInstalled, goodVars
<1>2. AuditInv'
  BY <1>0, <1>1, CallerNames, TakeReplyKeepsAudit
<1>3. ServeType' /\ reload'.at # "audit"
  BY <1>0, <1>1, ManageFrame DEF ServeType
<1>4. LifeType' /\ lifecycle'.receipts = lifecycle.receipts
  BY <1>0, <1>1 DEF LifeType
<1>5. (Booted' <=> Booted) /\ ~Mutating' /\ lifecycle'.at # "rolling"
  BY <1>0, <1>1 DEF Booted, Mutating, LifeType
<1>6. HistoryHasRuntimes'
  BY <1>0, <1>1, <1>5 DEF LifeInv, HistoryHasRuntimes, Booted
<1>7. LifeInv'
  BY <1>0, <1>1, <1>4, <1>5, <1>6 DEF LifeInv
<1>8. AskedInv'
  BY <1>0, <1>1, <1>3, <1>5, InstalledFrame DEF AskedInv
<1> QED BY <1>2, <1>3, <1>4, <1>7, <1>8 DEF IInv, ControlType

(* Every step of the policy lifecycle keeps the invariant.                 *)
LEMMA ManageStep ==
  ASSUME IInv, Manage
  PROVE  IInv'
PROOF
<1>1. \/ \/ \E doc \in Documents : bootstrap(doc) \/ activate(doc) \/ activate_failed(doc)
         \/ rollback
      \/ BootInstalls \/ ActivateInstalls \/ RollbackInstalls \/ NothingInstalled
  BY DEF Manage, Lifecycle
<1> QED BY <1>1, BeginStep, BootStep, ActivateStep, RollbackStep, NothingStep

(* The initial states satisfy the invariant.                               *)
LEMMA InitIInv == Init => IInv
PROOF
<1> SUFFICES ASSUME Init PROVE IInv
  OBVIOUS
<1>1. AuditType
  <2>1. worker.at = "recv"
    BY DEF Init, AuditInit, Receiving
  <2>2. reply \in [Callers \cup {Main} -> [at : {"idle", "waiting", "ok", "failed"}, id : Nat]]
    BY DEF Init, AuditInit, Idle
  <2>3. closing \in BOOLEAN /\ issued \in Nat /\ acked \subseteq Events
    BY DEF Init, AuditInit
  <2>4. queue \in Seq(RecordCommands \cup {ShutdownCommand})
        /\ localLog \in Seq(Events) /\ sharedLog \in Seq(Events)
    BY DEF Init, AuditInit
  <2>5. ~Writing /\ worker.at \notin {"stopped", "shared", "flush"}
    BY <2>1 DEF Writing
  <2> QED BY <2>1, <2>2, <2>3, <2>4, <2>5 DEF AuditType
<1>2. AuditOrder /\ WaitersArePending
  BY DEF Init, AuditInit, AuditOrder, QueueOrder, LocalOrder, SharedOrder, AckedStored, BeforeQueue,
         WaitersArePending, Receiving, Idle, Writing
<1>3. ShutdownIsLast
  BY DEF Init, AuditInit, ServeInit, ShutdownIsLast, Receiving, Idle
<1>4. ServeType
  BY DEF Init, ServeInit, ServeType, Fresh
<1>5. LifeType
  BY DEF Init, LifeInit, LifeType, NoReceipt
<1>6. LifeInv
  BY ControlAssumption DEF Init, LifeInit, LifeInv, Booted, Mutating, HistoryHasRuntimes, Fresh
<1>7. AskedInv
  BY DEF Init, LifeInit, ServeInit, AskedInv, Mutating, InstalledIsAudited, Fresh
<1> QED BY <1>1, <1>2, <1>3, <1>4, <1>5, <1>6, <1>7 DEF IInv, AuditInv, ControlType

-----------------------------------------------------------------------------
(* IInv is inductive: every step of the process, of the lifecycle, of the  *)
(* audit worker and of the shadow jobs keeps it.                           *)
THEOREM Invariance == Spec => []IInv
PROOF
<1>1. IInv /\ [Next]_vars => IInv'
  <2> SUFFICES ASSUME IInv, [Next]_vars PROVE IInv'
    OBVIOUS
  <2>1. CASE UNCHANGED vars
    <3>1. UNCHANGED <<queue, closing, worker, localLog, sharedLog, reply, issued, acked>>
      BY <2>1 DEF vars, auditVars
    <3>2. UNCHANGED <<holder, file, main, reload, boot, active, history, runtimes, lifecycle, installer>>
      BY <2>1 DEF vars, goodVars, serveVars, lifeVars
    <3> QED BY <3>1, <3>2, FrameStep
  <2> QED BY <2>1, ServeStep, ManageStep, WorkStep, ObserveStep DEF Next
<1> QED BY InitIInv, <1>1, PTL DEF Spec

(* Nothing the audit log acknowledged is lost, for every queue capacity    *)
(* and any number of events: acknowledged events are in the file, both     *)
(* logs keep the order of the events, and an orderly exit leaves an empty  *)
(* queue, a stopped worker and no caller without its answer.               *)
THEOREM AuditIsKept == Spec => []AuditLosesNothing
PROOF
<1>1. IInv => AuditLosesNothing
  <2> SUFFICES ASSUME IInv PROVE AuditLosesNothing
    OBVIOUS
  <2>0. AuditType /\ AuditOrder /\ WaitersArePending /\ ShutdownIsLast
    BY DEF IInv, AuditInv
  <2>1. SinksAgree
    BY <2>0 DEF AuditOrder, LocalOrder, SharedOrder, AckedStored, InFile, SinksAgree, Holds, Ids, ToSet
  <2>2. ShutdownDrains
    <3> SUFFICES ASSUME main = "exit_ok"
                 PROVE  queue = <<>> /\ worker = Stopped /\ \A c \in Callers : reply[c].at # "waiting"
      BY DEF ShutdownDrains, Awaits
    <3>1. worker.at = "stopped" /\ queue = <<>> /\ worker = Stopped /\ ~Writing
      BY <2>0 DEF ShutdownIsLast, AuditType, Writing
    <3> QED BY <2>0, <3>1 DEF WaitersArePending
  <2> QED BY <2>1, <2>2 DEF AuditLosesNothing
<1> QED BY Invariance, <1>1, PTL

(* No reload, activation or rollback takes effect before its event is      *)
(* stored, however the answers of earlier commands arrive.                 *)
THEOREM InstalledAudited == Spec => []InstalledIsAudited
PROOF
<1>1. IInv => InstalledIsAudited
  BY DEF IInv, AskedInv
<1> QED BY Invariance, <1>1, PTL

(* The holder serves the active policy, every entry of the history keeps   *)
(* its runtime for a rollback, and every request resolves to a profile the *)
(* active policy defines.                                                  *)
THEOREM ActiveServes == Spec => []ActivePolicyServes
PROOF
<1>1. IInv => ActivePolicyServes
  <2> SUFFICES ASSUME IInv PROVE ActivePolicyServes
    OBVIOUS
  <2>0. LifeInv
    BY DEF IInv
  <2>1. HistoryHasRuntimes
    BY <2>0 DEF LifeInv
  <2>2. ResolvesInside
    <3> SUFFICES ASSUME active # NoReceipt, NEW context \in Contexts
                 PROVE  resolve(active.policy, context) \in profile_ids(active.policy)
      BY DEF ResolvesInside
    <3>1. validate_shape(active.policy)
      BY <2>0 DEF LifeInv, validate
    <3>2. /\ \A i \in DOMAIN active.policy.bindings : active.policy.bindings[i].profile \in profile_ids(active.policy)
          /\ default_profile_id(active.policy) \in profile_ids(active.policy)
      BY <3>1 DEF validate_shape
    <3> QED BY <3>2 DEF resolve
  <2> QED BY <2>1, <2>2 DEF ActivePolicyServes
<1> QED BY Invariance, <1>1, PTL

-----------------------------------------------------------------------------
(* The lifecycle implements the bounded stack of activations.              *)

StackOf == [i \in DOMAIN Receipts |-> Receipts[i].policy]
InstalledOf == IF installer = "lifecycle" /\ holder.current # NoSnapshot
               THEN holder.current.policy ELSE NoSnapshot

(* Sequences with the same elements in the same places are the same.       *)
LEMMA SameSequence ==
  ASSUME NEW S, NEW s \in Seq(S), NEW t \in Seq(S), Len(s) = Len(t),
         \A i \in 1..Len(s) : s[i] = t[i]
  PROVE  s = t
PROOF
  OBVIOUS

(* The stack is as long as the receipts and holds their policies in order. *)
LEMMA StackTyped ==
  ASSUME IInv
  PROVE  /\ StackOf \in Seq(Documents) /\ Len(StackOf) = Len(Receipts)
         /\ \A i \in 1..Len(Receipts) : StackOf[i] = Receipts[i].policy
         /\ active # NoReceipt => Receipts = Append(history, active) /\ active \in ReceiptSet
         /\ active = NoReceipt => Receipts = <<>>
         /\ history \in Seq(ReceiptSet) /\ Receipts \in Seq(ReceiptSet)
PROOF
<1>1. LifeType
  BY DEF IInv, ControlType
<1>2. Receipts \in Seq(ReceiptSet) /\ history \in Seq(ReceiptSet)
  BY <1>1 DEF LifeType, Receipts
<1>3. \A i \in DOMAIN Receipts : Receipts[i] \in ReceiptSet
  BY <1>2
<1>4. \A i \in DOMAIN Receipts : Receipts[i].policy \in Documents
  BY <1>3 DEF ReceiptSet
<1>5. DOMAIN Receipts = 1..Len(Receipts) /\ Len(Receipts) \in Nat
  BY <1>2
<1>6. StackOf \in Seq(Documents) /\ Len(StackOf) = Len(Receipts)
      /\ \A i \in 1..Len(Receipts) : StackOf[i] = Receipts[i].policy
  BY <1>4, <1>5 DEF StackOf
<1> QED BY <1>1, <1>2, <1>6 DEF Receipts, LifeType

(* What is installed under the lifecycle is the active policy.             *)
LEMMA InstalledTop ==
  ASSUME IInv, installer = "lifecycle"
  PROVE  IF active = NoReceipt THEN InstalledOf = NoSnapshot ELSE InstalledOf = active.policy
PROOF
<1>1. LifeInv
  BY DEF IInv
<1>2. CASE active = NoReceipt
  BY <1>1, <1>2 DEF LifeInv, InstalledOf
<1>3. CASE active # NoReceipt
  BY <1>1, <1>3 DEF LifeInv, InstalledOf, HistoryHasRuntimes, Booted
<1> QED BY <1>2, <1>3

(* Steps that install nothing leave the stack and its top.                 *)
LEMMA StackFrame ==
  ASSUME UNCHANGED <<active, history, installer>>, UNCHANGED holder \/ installer = "reload"
  PROVE  UNCHANGED <<StackOf, InstalledOf>>
PROOF
  BY DEF StackOf, InstalledOf, Receipts

(* An installed receipt takes its place above what the stack kept.         *)
LEMMA InstallPushes ==
  ASSUME IInv, IInv', installer = "lifecycle", installer' = installer, active' # NoReceipt,
         NEW kept \in Seq(Documents), Len(history') = Len(kept),
         \A i \in 1..Len(kept) : history'[i].policy = kept[i]
  PROVE  /\ active'.policy \in Documents
         /\ StackOf' = Append(kept, active'.policy)
         /\ InstalledOf' = active'.policy
PROOF
<1>1. /\ StackOf' \in Seq(Documents) /\ Len(StackOf') = Len(Receipts')
      /\ \A i \in 1..Len(Receipts') : StackOf'[i] = Receipts'[i].policy
      /\ Receipts' = Append(history', active') /\ active' \in ReceiptSet
      /\ history' \in Seq(ReceiptSet)
  <2>1. (IInv => /\ StackOf \in Seq(Documents) /\ Len(StackOf) = Len(Receipts)
                 /\ \A i \in 1..Len(Receipts) : StackOf[i] = Receipts[i].policy
                 /\ active # NoReceipt => Receipts = Append(history, active) /\ active \in ReceiptSet
                 /\ history \in Seq(ReceiptSet))'
    BY StackTyped, PTL
  <2> QED BY <2>1
<1>2. InstalledOf' = active'.policy
  <2>1. (IInv /\ installer = "lifecycle" =>
           IF active = NoReceipt THEN InstalledOf = NoSnapshot ELSE InstalledOf = active.policy)'
    BY InstalledTop, PTL
  <2> QED BY <2>1
<1>3. active'.policy \in Documents
  BY <1>1 DEF ReceiptSet
<1> DEFINE pushed == Append(kept, active'.policy)
<1>4. pushed \in Seq(Documents) /\ Len(pushed) = Len(kept) + 1 /\ Len(kept) \in Nat
      /\ pushed[Len(kept) + 1] = active'.policy /\ \A i \in 1..Len(kept) : pushed[i] = kept[i]
  BY <1>3
<1>5. /\ Len(Receipts') = Len(kept) + 1 /\ Receipts'[Len(kept) + 1] = active'
      /\ \A i \in 1..Len(kept) : Receipts'[i] = history'[i]
  BY <1>1
<1> HIDE DEF pushed
<1>6. Len(StackOf') = Len(pushed) /\ \A i \in 1..Len(pushed) : StackOf'[i] = pushed[i]
  BY <1>1, <1>4, <1>5, SMTT(30)
<1>7. StackOf' = pushed
  BY <1>1, <1>4, <1>6, SameSequence
<1> QED BY <1>2, <1>3, <1>7 DEF pushed

(* The first activation is pushed on the empty stack.                      *)
LEMMA BootPushes ==
  ASSUME IInv, IInv', Manage, BootInstalls
  PROVE  Stack!Push
PROOF
<1>1. LifeInv /\ lifecycle.at = "booting" /\ installer = "lifecycle" /\ installer' = installer
      /\ lifecycle.receipt # NoReceipt /\ active' = lifecycle.receipt /\ history' = <<>>
  BY DEF IInv, BootInstalls, Acknowledged, Manage, LifeInv, Mutating
<1>2. Receipts = <<>>
  BY <1>1 DEF LifeInv, Booted, Receipts
<1>3. StackOf = <<>>
  BY <1>2, StackTyped
<1>4. active'.policy \in Documents /\ StackOf' = Append(<<>>, active'.policy) /\ InstalledOf' = active'.policy
  <2>1. <<>> \in Seq(Documents) /\ Len(history') = Len(<<>>) /\ \A i \in 1..Len(<<>>) : history'[i].policy = <<>>[i]
    BY <1>1
  <2> QED BY <1>1, <2>1, InstallPushes
<1>5. ~(Len(StackOf) > MAX_ACTIVATION_HISTORY)
  BY <1>3, ControlAssumption
<1> QED BY <1>3, <1>4, <1>5 DEF Stack!Push, Stack!Pushed, StackOf, InstalledOf

(* A later activation is pushed; with a full history the stack is deeper   *)
(* than its bound and forgets its oldest policy.                           *)
LEMMA ActivatePushes ==
  ASSUME IInv, IInv', Manage, ActivateInstalls
  PROVE  Stack!Push
PROOF
<1>0. LifeInv /\ lifecycle.at = "activating" /\ Booted /\ installer = "lifecycle" /\ installer' = installer
      /\ lifecycle.receipt # NoReceipt /\ active' = lifecycle.receipt /\ active # NoReceipt
  BY DEF IInv, ActivateInstalls, Acknowledged, Manage, LifeInv, Mutating, Booted
<1>1. /\ StackOf \in Seq(Documents) /\ Len(StackOf) = Len(Receipts)
      /\ \A i \in 1..Len(Receipts) : StackOf[i] = Receipts[i].policy
      /\ Receipts = Append(history, active) /\ active \in ReceiptSet /\ history \in Seq(ReceiptSet)
  BY <1>0, StackTyped
<1> DEFINE full == Len(history) = MAX_ACTIVATION_HISTORY
           kept == IF full THEN Tail(StackOf) ELSE StackOf
<1>2. history' = Append(IF full THEN Tail(history) ELSE history, active)
  BY DEF ActivateInstalls
<1>3. Len(StackOf) = Len(history) + 1 /\ Len(history) \in Nat /\ Len(history) <= MAX_ACTIVATION_HISTORY
      /\ MAX_ACTIVATION_HISTORY \in Nat \ {0}
  BY <1>0, <1>1, ControlAssumption DEF LifeInv
<1>4. full <=> Len(StackOf) > MAX_ACTIVATION_HISTORY
  BY <1>3
<1>5. kept \in Seq(Documents) /\ Len(history') = Len(kept)
      /\ \A i \in 1..Len(kept) : history'[i].policy = kept[i]
  <2>1. CASE full
    <3>1. Tail(history) \in Seq(ReceiptSet) /\ Len(Tail(history)) = Len(history) - 1
          /\ \A i \in 1..(Len(history) - 1) : Tail(history)[i] = history[i + 1]
      BY <1>1, <1>3, <2>1
    <3>2. Tail(StackOf) \in Seq(Documents) /\ Len(Tail(StackOf)) = Len(history)
          /\ \A i \in 1..Len(history) : Tail(StackOf)[i] = StackOf[i + 1]
      BY <1>1, <1>3
    <3>3. Len(history') = Len(history) /\ history'[Len(history)] = active
          /\ \A i \in 1..(Len(history) - 1) : history'[i] = history[i + 1]
      BY <1>1, <1>2, <1>3, <2>1, <3>1
    <3>4. StackOf[Len(history) + 1] = active.policy
          /\ \A i \in 1..(Len(history) - 1) : StackOf[i + 1] = history[i + 1].policy
      BY <1>1, <1>3
    <3>5. \A i \in 1..Len(history) : i = Len(history) \/ i \in 1..(Len(history) - 1)
      BY <1>3
    <3> QED BY <1>3, <2>1, <3>2, <3>3, <3>4, <3>5
  <2>2. CASE ~full
    <3>1. history' = Receipts
      BY <1>1, <1>2, <2>2
    <3> QED BY <1>1, <2>2, <3>1
  <2> QED BY <2>1, <2>2
<1> HIDE DEF full
<1>6. active'.policy \in Documents /\ StackOf' = Append(kept, active'.policy) /\ InstalledOf' = active'.policy
  <2> HIDE DEF kept
  <2> QED BY <1>0, <1>5, InstallPushes
<1>7. kept = IF Len(StackOf) > MAX_ACTIVATION_HISTORY THEN Tail(StackOf) ELSE StackOf
  BY <1>4
<1> HIDE DEF kept
<1> QED BY <1>6, <1>7 DEF Stack!Push, Stack!Pushed, StackOf, InstalledOf

(* The first m elements of a sequence.                                     *)
LEMMA Prefix ==
  ASSUME NEW S, NEW s \in Seq(S), NEW m \in 0..Len(s)
  PROVE  /\ SubSeq(s, 1, m) \in Seq(S) /\ Len(SubSeq(s, 1, m)) = m
         /\ \A i \in 1..m : SubSeq(s, 1, m)[i] = s[i]
PROOF
<1>1. Len(s) \in Nat /\ m \in Nat /\ m <= Len(s)
  OBVIOUS
<1> QED BY <1>1

(* A rollback pops: the restored receipt carries the policy below the top. *)
LEMMA RollbackPops ==
  ASSUME IInv, IInv', Manage, RollbackInstalls
  PROVE  Stack!Pop
PROOF
<1>0. LifeInv /\ lifecycle.at = "rolling" /\ Booted /\ installer = "lifecycle" /\ installer' = installer
      /\ lifecycle.receipt # NoReceipt /\ active' = lifecycle.receipt /\ active # NoReceipt
      /\ history # <<>> /\ lifecycle.receipt.policy = Last(history).policy /\ history' = Front(history)
  BY DEF IInv, RollbackInstalls, Acknowledged, Manage, LifeInv, Mutating, Booted
<1>1. /\ StackOf \in Seq(Documents) /\ Len(StackOf) = Len(Receipts)
      /\ \A i \in 1..Len(Receipts) : StackOf[i] = Receipts[i].policy
      /\ Receipts = Append(history, active) /\ active \in ReceiptSet /\ history \in Seq(ReceiptSet)
  BY <1>0, StackTyped
<1> DEFINE n == Len(history)
           below == SubSeq(StackOf, 1, n)
           kept == SubSeq(StackOf, 1, n - 1)
<1>2. n \in Nat \ {0} /\ Len(StackOf) = n + 1 /\ \A i \in 1..n : StackOf[i] = history[i].policy
  BY <1>0, <1>1
<1>3. Len(history') = n - 1 /\ \A i \in 1..(n - 1) : history'[i] = history[i]
  <2>1. n - 1 \in 0..Len(history) /\ history' = SubSeq(history, 1, n - 1)
    BY <1>0, <1>2 DEF Front
  <2> QED BY <1>1, <2>1, Prefix
<1>4. kept \in Seq(Documents) /\ Len(kept) = n - 1 /\ \A i \in 1..(n - 1) : kept[i] = StackOf[i]
  <2>1. n - 1 \in 0..Len(StackOf)
    BY <1>2
  <2> QED BY <1>1, <2>1, Prefix
<1>5. below \in Seq(Documents) /\ Len(below) = n /\ \A i \in 1..n : below[i] = StackOf[i]
  BY <1>1, <1>2
<1>6. active'.policy = StackOf[n]
  BY <1>0, <1>2 DEF Last
<1> HIDE DEF kept, below, n
<1>7. active'.policy \in Documents /\ StackOf' = Append(kept, active'.policy) /\ InstalledOf' = active'.policy
  <2>1. Len(history') = Len(kept) /\ \A i \in 1..Len(kept) : history'[i].policy = kept[i]
    BY <1>2, <1>3, <1>4
  <2> QED BY <1>0, <1>4, <2>1, InstallPushes
<1> DEFINE popped == Append(kept, active'.policy)
<1>8. popped \in Seq(Documents) /\ Len(popped) = n /\ popped[n] = active'.policy
      /\ \A i \in 1..(n - 1) : popped[i] = kept[i]
  BY <1>2, <1>4, <1>7
<1> HIDE DEF popped
<1>9. \A i \in 1..n : popped[i] = below[i]
  <2>1. \A i \in 1..n : i = n \/ i \in 1..(n - 1)
    BY <1>2
  <2> QED BY <1>2, <1>4, <1>5, <1>6, <1>8, <2>1
<1>10. popped = below
  BY <1>5, <1>8, <1>9, SameSequence
<1>11. Front(StackOf) = below /\ Last(Front(StackOf)) = below[n]
  BY <1>2, <1>5 DEF Front, Last, below
<1>12. StackOf' = Front(StackOf) /\ InstalledOf' = Last(Front(StackOf)) /\ Len(StackOf) > 1
  BY <1>2, <1>5, <1>6, <1>7, <1>10, <1>11 DEF popped
<1> QED BY <1>12 DEF Stack!Pop, Stack!Front, Stack!Last, Front, Last, StackOf, InstalledOf

(* Everything else leaves the stack as it is.                              *)
LEMMA OthersKeepStack ==
  ASSUME IInv, [Next]_vars, ~(Manage /\ (BootInstalls \/ ActivateInstalls \/ RollbackInstalls))
  PROVE  UNCHANGED <<StackOf, InstalledOf>>
PROOF
<1>1. UNCHANGED <<active, history, installer>> /\ (UNCHANGED holder \/ installer = "reload")
  <2>1. CASE Serve
    BY <2>1 DEF Serve, lifeVars
  <2>2. CASE Manage
    <3>1. (\E doc \in Documents : bootstrap(doc) \/ activate(doc) \/ activate_failed(doc))
          \/ rollback \/ NothingInstalled
      BY <2>2 DEF Manage, Lifecycle
    <3>2. UNCHANGED <<active, history, holder>>
      BY <3>1 DEF bootstrap, activate, activate_failed, rollback, NothingInstalled, Mutate, goodVars
    <3> QED BY <2>2, <3>2 DEF Manage
  <2>3. CASE Work
    BY <2>3 DEF Work, lifeVars, goodVars
  <2>4. CASE Observe
    BY <2>4 DEF Observe, lifeVars
  <2>5. CASE UNCHANGED vars
    BY <2>5 DEF vars, lifeVars, goodVars
  <2> QED BY <2>1, <2>2, <2>3, <2>4, <2>5 DEF Next
<1> QED BY <1>1, StackFrame

(* The policy lifecycle implements a bounded stack of activations: an      *)
(* activation pushes, a rollback pops, and neither the audit log, the      *)
(* reload task nor a shadow job moves what is installed.                   *)
THEOREM LifecycleImplementsStack == Spec => LifecycleIsStack
PROOF
<1>1. Init => Stack!StackInit
  <2> SUFFICES ASSUME Init PROVE Stack!StackInit
    OBVIOUS
  <2>1. active = NoReceipt /\ holder.current = NoSnapshot
    BY DEF Init, LifeInit, Fresh
  <2>2. Receipts = <<>>
    BY <2>1 DEF Receipts
  <2>3. [i \in DOMAIN Receipts |-> Receipts[i].policy] = <<>>
    BY <2>2
  <2> QED BY <2>1, <2>3 DEF Stack!StackInit
<1>2. IInv /\ IInv' /\ [Next]_vars => [Stack!Push \/ Stack!Pop]_<<StackOf, InstalledOf>>
  BY BootPushes, ActivatePushes, RollbackPops, OthersKeepStack
<1> QED BY <1>1, <1>2, Invariance, PTL DEF Spec, LifecycleIsStack, Stack!StackSpec, StackOf, InstalledOf

-----------------------------------------------------------------------------
(* The shadow switch. *)

(* The flag the jobs read is on only if the snapshot that set it last asks *)
(* for shadow work.                                                        *)
FlagInv == (shadowActive = TRUE => setBy.shadow) /\ job = [j \in Jobs |-> job[j]]

(* What a step does to the flag and to the jobs.                           *)
LEMMA FlagMoves ==
  ASSUME [Next]_vars
  PROVE  \/ UNCHANGED <<shadowActive, setBy, job>>
         \/ (\E s : with_runtime_state_from(s)) /\ job' = job
         \/ UNCHANGED <<shadowActive, setBy>> /\ Observe
PROOF
<1>1. CASE UNCHANGED vars
  BY <1>1 DEF vars, goodVars
<1>2. CASE Serve
  <2>1. ASSUME NEW o \in BOOLEAN, StartBuild(o) \/ ReloadBuild(o)
        PROVE  UNCHANGED <<shadowActive, setBy, job>> \/ ((\E s : with_runtime_state_from(s)) /\ job' = job)
    BY <2>1 DEF StartBuild, ReloadBuild, goodVars, shadowVars
  <2>2. ASSUME \/ \E c \in Contents : EditFile(c)
               \/ StartServing \/ ReloadTick \/ ReloadRefresh \/ ReloadReported
               \/ StopServing \/ AbortReload \/ SendShutdown
               \/ \E code \in {"ok", "failed", "timeout"} : Exit(code)
               \/ HandlerRecords \/ HandlerLeaves
        PROVE  UNCHANGED <<shadowActive, setBy, job>>
    BY <2>2 DEF EditFile, StartServing, ReloadTick, ReloadRefresh, ReloadReported, StopServing, AbortReload,
                SendShutdown, Exit, HandlerRecords, HandlerLeaves, goodVars, shadowVars
  <2> QED BY <1>2, <2>1, <2>2 DEF Serve, ReloadTask
<1>3. CASE Manage
  <2>1. ASSUME NEW doc \in Documents, bootstrap(doc) \/ activate(doc) \/ activate_failed(doc)
        PROVE  UNCHANGED <<shadowActive, setBy, job>> \/ ((\E s : with_runtime_state_from(s)) /\ job' = job)
    BY <2>1 DEF bootstrap, activate, activate_failed, Mutate, shadowVars
  <2>2. CASE rollback
    BY <2>2 DEF rollback, Mutate, shadowVars
  <2>3. CASE BootInstalls \/ ActivateInstalls \/ RollbackInstalls \/ NothingInstalled
    BY <2>3 DEF BootInstalls, ActivateInstalls, RollbackInstalls, NothingInstalled, Done, goodVars, shadowVars
  <2> QED BY <1>3, <2>1, <2>2, <2>3 DEF Manage, Lifecycle
<1>4. CASE Work
  BY <1>4 DEF Work, goodVars
<1>5. CASE Observe
  BY <1>5 DEF Observe, schedule_shadow, evaluate, compared
<1> QED BY <1>1, <1>2, <1>3, <1>4, <1>5 DEF Next

(* FlagInv is inductive.                                                   *)
LEMMA FlagKept == FlagInv /\ [Next]_vars => FlagInv'
PROOF
<1> SUFFICES ASSUME FlagInv, [Next]_vars PROVE FlagInv'
  OBVIOUS
<1>1. CASE UNCHANGED <<shadowActive, setBy, job>>
  BY <1>1 DEF FlagInv
<1>2. CASE (\E s : with_runtime_state_from(s)) /\ job' = job
  BY <1>2 DEF FlagInv, with_runtime_state_from
<1>3. CASE UNCHANGED <<shadowActive, setBy>> /\ Observe
  <2>1. PICK j \in Jobs : \/ \E s \in Given : schedule_shadow(j, s)
                          \/ \E w \in BOOLEAN : evaluate(j, w)
                          \/ compared(j)
    BY <1>3 DEF Observe
  <2>2. \E r : job' = [job EXCEPT ![j] = r]
    BY <2>1 DEF schedule_shadow, evaluate, compared
  <2> QED BY <1>3, <2>2 DEF FlagInv
<1> QED BY <1>1, <1>2, <1>3, FlagMoves

(* No comparison is started for a request of an older snapshot once the    *)
(* reload that switched shadow work off has completed: the flag is read    *)
(* before every route, and only the snapshot that set it last decides.     *)
THEOREM ShadowStops == Spec => ShadowHonoursReload
PROOF
<1>1. Init => FlagInv
  BY DEF Init, FlagInv
<1>2. ASSUME FlagInv, [Next]_vars, NEW j \in Jobs, job[j].at = "queued", job'[j].at = "comparing",
             setBy = holder.current
      PROVE  holder.current.shadow
  <2>1. Observe
    BY <1>2, FlagMoves
  <2>2. PICK i \in Jobs : \/ \E s \in Given : schedule_shadow(i, s)
                          \/ \E w \in BOOLEAN : evaluate(i, w)
                          \/ compared(i)
    BY <2>1 DEF Observe
  <2>3. i = j
    <3>1. \E r : job' = [job EXCEPT ![i] = r]
      BY <2>2 DEF schedule_shadow, evaluate, compared
    <3> QED BY <1>2, <3>1 DEF FlagInv
  <2>4. ~compared(j)
    BY <1>2 DEF compared
  <2>5. ASSUME NEW s, schedule_shadow(j, s) PROVE FALSE
    <3>1. job'[j] = [at |-> "queued", snap |-> s, next |-> 1]
      BY <1>2, <2>5 DEF schedule_shadow, FlagInv
    <3> QED BY <1>2, <3>1
  <2>6. shadowActive = TRUE
    <3>1. PICK w \in BOOLEAN : evaluate(j, w)
      BY <2>2, <2>3, <2>4, <2>5
    <3>2. ASSUME ~shadowActive PROVE FALSE
      <4>1. job' = [job EXCEPT ![j] = NoJob]
        BY <3>1, <3>2 DEF evaluate
      <4>2. job'[j] = NoJob
        BY <1>2, <4>1 DEF FlagInv
      <4> QED BY <1>2, <4>2 DEF NoJob
    <3> QED BY <3>2
  <2> QED BY <1>2, <2>6 DEF FlagInv
<1>3. FlagInv /\ [Next]_vars =>
        [\A j \in Jobs : job[j].at = "queued" /\ job'[j].at = "comparing"
            /\ setBy = holder.current => holder.current.shadow]_vars
  BY <1>2
<1> QED BY <1>1, <1>3, FlagKept, PTL DEF Spec, ShadowHonoursReload
=============================================================================
