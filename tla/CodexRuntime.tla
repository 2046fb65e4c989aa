---------------------------- MODULE CodexRuntime ----------------------------
(***************************************************************************)
(* The manager of the Codex app-server helper (wayfinder-codex-app-server, *)
(* lib.rs and protocol.rs), the account adapter in front of it             *)
(* (cli/codex_app_server.rs) and the delivery that streams its turns       *)
(* (gateway/delivery.rs).                                                  *)
(*                                                                         *)
(* A caller runs one operation at a time.  The session is behind a mutex   *)
(* held from the first byte of a request to the last; what may happen      *)
(* between two steps of an operation is another caller's use of the other  *)
(* fields, a client that leaves, and anything the helper sends.  The       *)
(* helper is external: it answers a request or not, and may send           *)
(* notifications of the current turn, of an older one, or others.          *)
(***************************************************************************)
EXTENDS Integers, Sequences, FiniteSets, SequencesExt

CONSTANTS Controls,      \* callers of the control routes
          Chats,         \* callers of chat, streamed or buffered
          MaxRestarts,   \* MAX_RUNTIME_RESTARTS
          MaxQueue,      \* MAX_NOTIFICATION_QUEUE, of the session and of a stream
          MaxText,       \* MAX_RESPONSE_BYTES
          MaxOps,        \* operations started
          MaxNotes,      \* notifications the helper sends
          Nil

ASSUME RestartsAreFinite == MaxRestarts \in Nat

Callers == Controls \cup Chats

ASSUME CallersAreDistinct ==
    Controls \cap Chats = {} /\ {"none", "idle"} \cap Callers = {}

VARIABLES
    pc,        \* pc[c]: "idle", "lock", "call", "store", "turn", "stop", "flush"
    op,        \* op[c]: the operation, or the request of a chat, under way
    ops,       \* operations started
    slot,      \* ManagerInner.session: "none", "idle", or the caller who took it
    queue,     \* Session.notifications of the live session
    notes,     \* notifications the helper has sent
    started,   \* session_started
    restarts,  \* restart_count
    exempt,    \* cancelled_session_restart
    spawns, drops,  \* history: helpers spawned, operations dropped holding the session
    active,    \* active_cancel: the chat, or Nil
    cancelled, \* cancelled[c]: the client's token
    pending, failed, expired,  \* pending_login, login_failed, the login's deadline passed
    logins,    \* logins the helper has started
    shown,     \* CodexAppServerAdapter.pending_login
    control,   \* control_operation: its holder, or Nil
    turn,      \* the helper's running turn, of those whose identifier was read, or 0
    unnamed,   \* its running turns whose identifier could not be read
    turns,     \* turns the helper has started
    mine,      \* mine[c]: [turn, text, final, result, stream] of a chat
    chan, got, over   \* of a stream: queue to the client, what it read, how it ended

sessionVars == <<slot, queue, notes, started, restarts, exempt, spawns, drops>>
loginVars == <<pending, failed, expired, logins, shown, control>>
chatVars == <<active, cancelled, turn, unnamed, turns, mine>>
streamVars == <<chan, got, over>>
vars == <<pc, op, ops, sessionVars, loginVars, chatVars, streamVars>>

-----------------------------------------------------------------------------
(* Errors. *)
is_fatal_error(e) ==
    e \in {"InvalidConfiguration", "RuntimeUnavailable", "MalformedProtocol", "LineTooLarge",
           "ResponseTooLarge", "CorrelationFailed", "NotificationQueueFull", "TimedOut",
           "ForbiddenAction", "UnsupportedAuthentication", "EndOfStream", "InsecureCredentialStore"}

(* What of an error decides the rest. *)
Class(e) == CASE e = "ok" -> "ok" [] is_fatal_error(e) -> "fatal" [] OTHER -> "failed"

(* What read_message makes of the helper's output when it is no answer: a line
   that is too long or is not JSON, the end, silence, a response to another
   request, a request of the helper's own (which is denied). *)
ReadErrors == {"LineTooLarge", "ResponseTooLarge", "MalformedProtocol", "EndOfStream",
               "TimedOut", "CorrelationFailed", "ForbiddenAction"}

(* The checks of a response: an unusable identifier is an InvalidRequest, a
   thread that is not the isolated one an InvalidConfiguration. *)
Checks(request) ==
    CASE request = "thread/start" -> {"InvalidConfiguration", "MalformedProtocol"}
      [] request = "turn/start"   -> {"RequestTooLarge"}
      [] request = "thread/inject_items" -> {"RequestTooLarge"}
      [] request = "model/list"   -> {"MalformedProtocol", "ResponseTooLarge", "ModelUnavailable"}
      [] request = "account/read" -> {"UnsupportedAuthentication", "MalformedProtocol",
                                      "InsecureCredentialStore"}
      [] request = "account/login/start" -> {"UnsupportedAuthentication"}
      [] request = "account/login/cancel" -> {"RequestRejected"}
      [] OTHER -> {}

(* classify_remote_error *)
Refusals == {"AuthenticationRequired", "RequestRejected"}

(* What is checked after rpc has returned does not touch the session. *)
CheckedOutside(request) == request \notin {"thread/start", "thread/inject_items", "turn/start"}

-----------------------------------------------------------------------------
(* Notifications.  A note is [kind, id]. *)
Note(kind, id) == [kind |-> kind, id |-> id]

LoginNotes == {Note(k, l) : k \in {"login_ok", "login_failed"}, l \in 1..logins}
                \cup {Note("updated", 0), Note("updated_apikey", 0)}
TurnNotes == {Note(k, t) : k \in {"delta", "item", "tool", "turn_failed", "completed",
                                  "interrupted", "error_auth"}, t \in 1..turns}
Benign == {Note("benign", 0)}

(* apply_notification: what is pending, whether a login failed, and the error. *)
apply_notification(l, n) ==
    CASE l.error # "" -> l
      [] l.error = "" /\ n.kind = "login_ok" /\ l.pending = n.id -> [l EXCEPT !.pending = Nil]
      [] l.error = "" /\ n.kind = "login_failed" /\ l.pending = n.id ->
           [l EXCEPT !.pending = Nil, !.failed = TRUE]
      [] l.error = "" /\ n.kind = "updated" -> [l EXCEPT !.pending = Nil]
      [] l.error = "" /\ n.kind = "updated_apikey" ->
           [l EXCEPT !.error = "UnsupportedAuthentication"]
      [] OTHER -> l

(* The helper's turn is over when it says so. *)
Ends(n) == n.kind \in {"completed", "interrupted", "turn_failed"}
Sent(n) == IF Ends(n) /\ n.id = turn THEN 0 ELSE turn
StillUnnamed(n) == IF Ends(n) THEN unnamed \ {n.id} ELSE unnamed

Login == [pending |-> pending, failed |-> failed, error |-> ""]

-----------------------------------------------------------------------------
(* The session. *)
NoTurn == [turn |-> 0, text |-> <<>>, final |-> Nil, result |-> "", stream |-> FALSE]

(* The helper dies with its turn and with what it had to say. *)
Killed == slot' = "none" /\ queue' = <<>> /\ turn' = 0 /\ unnamed' = {}
Returned == slot' = "idle" /\ UNCHANGED <<queue, turn, unnamed>>

Finish(c) == pc' = [pc EXCEPT ![c] = "idle"] /\ op' = [op EXCEPT ![c] = ""]
Free(c) == active' = IF active = c THEN Nil ELSE active
ControlFree(c) == control' = IF control = c THEN Nil ELSE control

(* The next request of an operation, "" when it has none left. *)
Following(request, history) ==
    CASE request = "model/list" -> "thread/start"
      [] request = "thread/start" -> IF history THEN "thread/inject_items" ELSE "turn/start"
      [] request = "thread/inject_items" -> "turn/start"
      [] OTHER -> ""

-----------------------------------------------------------------------------
(* The operations.  The adapter's four take its control lock first. *)
account(c) ==
    /\ pc[c] = "idle" /\ ops < MaxOps /\ control = Nil
    /\ ops' = ops + 1
    /\ IF expired /\ pending # Nil
       THEN \* take_expired_login: the helper is told, the caller gets LoginFailed
            /\ op' = [op EXCEPT ![c] = "expired"]
            /\ pending' = Nil /\ expired' = FALSE
            /\ pc' = [pc EXCEPT ![c] = "lock"] /\ control' = c
            /\ UNCHANGED failed
       ELSE IF failed
       THEN failed' = FALSE /\ UNCHANGED <<op, pc, pending, expired, control>>
       ELSE /\ op' = [op EXCEPT ![c] = "account/read"]
            /\ pc' = [pc EXCEPT ![c] = "lock"] /\ control' = c
            /\ UNCHANGED <<pending, failed, expired>>
    /\ UNCHANGED <<sessionVars, logins, shown, chatVars, streamVars>>

BeginControl(c, request) ==
    /\ pc[c] = "idle" /\ ops < MaxOps /\ control = Nil
    /\ ops' = ops + 1
    /\ op' = [op EXCEPT ![c] = request]
    /\ pc' = [pc EXCEPT ![c] = "lock"]
    /\ control' = c
    /\ UNCHANGED <<sessionVars, pending, failed, expired, logins, shown, chatVars, streamVars>>

start_login(c) == pending = Nil /\ BeginControl(c, "account/login/start")
cancel_login(c) == shown # Nil /\ pending = shown /\ BeginControl(c, "account/login/cancel")
logout(c) == BeginControl(c, "account/logout")

(* models takes no control lock. *)
models(c) ==
    /\ pc[c] = "idle" /\ ops < MaxOps
    /\ ops' = ops + 1
    /\ op' = [op EXCEPT ![c] = "model/list"]
    /\ pc' = [pc EXCEPT ![c] = "lock"]
    /\ UNCHANGED <<sessionVars, loginVars, chatVars, streamVars>>

(* A chat that prepare_chat accepts.  One at a time; the token of a client who
   has already left ends it at once. *)
chat(c) ==
    /\ pc[c] = "idle" /\ ops < MaxOps /\ active = Nil
    /\ ops' = ops + 1
    /\ op' = [op EXCEPT ![c] = "model/list"]
    /\ \E stream \in BOOLEAN : mine' = [mine EXCEPT ![c] = [NoTurn EXCEPT !.stream = stream]]
    /\ cancelled' = [cancelled EXCEPT ![c] = FALSE]
    /\ active' = c
    /\ pc' = [pc EXCEPT ![c] = "lock"]
    /\ chan' = [chan EXCEPT ![c] = <<>>]
    /\ got' = [got EXCEPT ![c] = <<>>]
    /\ over' = [over EXCEPT ![c] = "open"]
    /\ UNCHANGED <<sessionVars, loginVars, turn, unnamed, turns>>

-----------------------------------------------------------------------------
(* The end of an operation that holds no session, with its result. *)
Ended(c) ==
    /\ Finish(c) /\ ControlFree(c) /\ Free(c)
    /\ UNCHANGED mine

(* The worker of a stream passes the result on as the last item. *)
ChatEnds(c, result) ==
    /\ Free(c) /\ UNCHANGED control
    /\ mine' = [mine EXCEPT ![c] = IF mine[c].stream THEN [@ EXCEPT !.result = Class(result)]
                                       ELSE [NoTurn EXCEPT !.turn = mine[c].turn]]
    /\ pc' = [pc EXCEPT ![c] = IF mine[c].stream THEN "flush" ELSE "idle"]
    /\ op' = [op EXCEPT ![c] = ""]

(* A turn that was stopped keeps the result it was stopped with. *)
Stopped(c) ==
    /\ Free(c) /\ UNCHANGED control
    /\ mine' = [mine EXCEPT ![c] = IF mine[c].stream THEN @ ELSE [NoTurn EXCEPT !.turn = mine[c].turn]]
    /\ pc' = [pc EXCEPT ![c] = IF mine[c].stream THEN "flush" ELSE "idle"]
    /\ op' = [op EXCEPT ![c] = ""]

OpEnds(c, result) == IF c \in Chats THEN ChatEnds(c, result) ELSE Ended(c)

(* An operation that never had the session fails; an account/read still
   answers, and the adapter forgets the login it showed. *)
OpFails(c, result) ==
    /\ OpEnds(c, result)
    /\ shown' = IF op[c] = "account/read" /\ result \in {"TimedOut", "RuntimeUnavailable"}
                THEN Nil ELSE shown

(* The session lock is free: ensure_session, then the first request.  Only a
   helper that was not lost to a dropped call counts against the restarts. *)
ensure_session(c) ==
    LET again   == started
        counted == again /\ ~exempt
        refused == counted /\ restarts >= MaxRestarts
    IN  /\ started' = TRUE
        /\ exempt' = IF again THEN FALSE ELSE exempt
        /\ restarts' = IF counted THEN restarts + 1 ELSE restarts
        /\ \/ /\ refused
              /\ slot' = "none" /\ OpFails(c, "RuntimeUnavailable")
              /\ UNCHANGED <<spawns, queue>>
           \/ /\ ~refused
              /\ spawns' = spawns + 1
              /\ \/ \* spawn and the handshake succeed
                    /\ slot' = c /\ queue' = <<>>
                    /\ pc' = [pc EXCEPT ![c] = "call"]
                    /\ UNCHANGED <<op, control, active, mine, shown>>
                 \/ \E e \in {"RuntimeUnavailable", "InvalidConfiguration", "TimedOut"} :
                       /\ slot' = "none" /\ OpFails(c, e) /\ UNCHANGED queue

Lock(c) ==
    /\ pc[c] = "lock" /\ op[c] # "shutdown"
    /\ \/ slot = "none" /\ ensure_session(c)
       \/ /\ slot = "idle" /\ slot' = c
          /\ pc' = [pc EXCEPT ![c] = "call"]
          /\ UNCHANGED <<op, queue, started, restarts, exempt, spawns, control, active, mine, shown>>
    /\ UNCHANGED <<ops, notes, drops, pending, failed, expired, logins>>
    /\ UNCHANGED <<cancelled, turn, unnamed, turns, streamVars>>

(* The lock was not had within the deadline, or the chat was cancelled before
   it asked the helper for anything. *)
NoLock(c) ==
    /\ pc[c] = "lock"
    /\ \/ slot \notin {"none", "idle"} /\ OpFails(c, "TimedOut")
       \/ c \in Chats /\ cancelled[c] /\ op[c] = "model/list" /\ OpFails(c, "Interrupted")
    /\ UNCHANGED <<ops, sessionVars, pending, failed, expired, logins, cancelled, turn, unnamed, turns,
                   streamVars>>

(* shutdown: the running turn is interrupted first, then the helper is ended
   once the session can be had. *)
shutdown(c) ==
    /\ pc[c] = "idle" /\ ops < MaxOps
    /\ ops' = ops + 1
    /\ op' = [op EXCEPT ![c] = "shutdown"]
    /\ pc' = [pc EXCEPT ![c] = "lock"]
    /\ cancelled' = [d \in Chats |-> cancelled[d] \/ d = active]
    /\ UNCHANGED <<sessionVars, loginVars, active, turn, unnamed, turns, mine, streamVars>>

Terminate(c) ==
    /\ pc[c] = "lock" /\ op[c] = "shutdown" /\ slot \in {"none", "idle"}
    /\ Killed
    /\ Finish(c)
    /\ UNCHANGED <<ops, notes, started, restarts, exempt, spawns, drops, loginVars, active, cancelled,
                   turns, mine, streamVars>>

-----------------------------------------------------------------------------
(* One more notification than the session keeps. *)
QueueFull == IF Len(queue) >= MaxQueue THEN {"NotificationQueueFull"} ELSE {}

(* wait_for_response: notifications are queued until the answer comes. *)
Queue(c, n) ==
    /\ pc[c] = "call" /\ notes < MaxNotes
    /\ notes' = notes + 1
    /\ Len(queue) < MaxQueue
    /\ queue' = Append(queue, n)
    /\ turn' = Sent(n) /\ unnamed' = StillUnnamed(n)
    /\ UNCHANGED <<pc, op, ops, slot, started, restarts, exempt, spawns, drops, loginVars,
                   active, cancelled, turns, mine, streamVars>>

(* What an operation that ends with this result leaves of the login, in the
   manager and in the adapter.  An account/read that reports no login still
   waited for clears what the adapter shows, and so does one the helper did not
   answer: the error becomes a state of the account. *)
Reported == {"AuthenticationRequired", "RuntimeUnavailable", "EndOfStream", "TimedOut"}

Settled(l, request, result) ==
    LET closes == result = "ok" /\ request \in {"account/logout", "account/login/cancel"}
        told  == result = "ok" /\ request = "account/read"
    IN  /\ pending' = IF closes THEN Nil ELSE l.pending
        /\ failed' = IF told \/ (closes /\ request = "account/logout") THEN FALSE ELSE l.failed
        /\ expired' = IF pending' = Nil THEN FALSE ELSE expired
        /\ \/ /\ shown' = Nil
              /\ \/ closes
                 \/ told /\ ~l.failed  \* connected, or signed out with nothing pending
                 \/ request = "account/read" /\ result \in Reported
           \/ /\ shown' = shown
              /\ ~closes /\ ~(request = "account/read" /\ result \in Reported)
              /\ told => l.failed \/ (l.pending # Nil /\ shown # Nil)

(* rpc: the answer to a request, or none; the notifications that came with it
   are applied; the session goes back unless the helper cannot be trusted. *)
rpc(c) ==
    LET request == op[c]
        l       == FoldLeft(apply_notification, Login, queue)
    IN  /\ pc[c] = "call" /\ CheckedOutside(request)
        /\ \E answer \in {"ok"} \cup ReadErrors \cup Refusals \cup Checks(request) \cup QueueFull :
             LET error  == IF l.error # "" THEN l.error ELSE answer
                 broken == l.error # "" \/ answer \in ReadErrors \cup {"NotificationQueueFull"}
                 login  == request = "account/login/start"
             IN  /\ IF broken THEN Killed ELSE slot' = "idle" /\ queue' = <<>> /\ UNCHANGED <<turn, unnamed>>
                 /\ logins' = IF login /\ answer = "ok" THEN logins + 1 ELSE logins
                 /\ Settled(l, request, error)
                 /\ CASE c \in Chats /\ error = "ok" /\ cancelled[c] ->
                           OpEnds(c, "Interrupted")
                      [] c \in Chats /\ error = "ok" /\ ~cancelled[c] ->
                           /\ op' = [op EXCEPT ![c] = Following(request, FALSE)]
                           /\ pc' = [pc EXCEPT ![c] = "lock"]
                           /\ UNCHANGED <<control, active, mine>>
                      [] c \in Controls /\ error = "ok" /\ login ->
                           \* the login is stored after the session is released
                           pc' = [pc EXCEPT ![c] = "store"] /\ UNCHANGED <<op, control, active, mine>>
                      [] OTHER -> OpEnds(c, error)
        /\ UNCHANGED <<ops, notes, started, restarts, exempt, spawns, drops, cancelled, turns,
                       streamVars>>

StoreLogin(c) ==
    /\ pc[c] = "store"
    /\ pending' = logins /\ failed' = FALSE /\ expired' = FALSE
    /\ shown' = logins
    /\ Ended(c)
    /\ UNCHANGED <<ops, sessionVars, logins, cancelled, turn, unnamed, turns, streamVars>>

-----------------------------------------------------------------------------
(* A chat's own requests.  An answer starts the next request, the last one the
   turn; an error before the turn has an identifier asks for no interrupt. *)
Outcome(c, error) ==
    /\ IF is_fatal_error(error) THEN Killed ELSE Returned
    /\ ChatEnds(c, error)

ChatAnswer(c) ==
    LET request == op[c]
        next    == turns + 1
    IN  /\ pc[c] = "call" /\ ~CheckedOutside(request)
        /\ \/ \E history \in BOOLEAN :
                /\ request # "turn/start"
                /\ op' = [op EXCEPT ![c] = Following(request, history)]
                /\ UNCHANGED <<pc, slot, queue, turn, unnamed, turns, mine, active, control>>
           \/ /\ request = "turn/start"
              /\ turns' = next /\ turn' = next
              /\ mine' = [mine EXCEPT ![c].turn = next]
              /\ pc' = [pc EXCEPT ![c] = "turn"]
              /\ UNCHANGED <<op, slot, queue, unnamed, active, control>>
           \/ \E e \in ReadErrors \cup Refusals \cup Checks(request) \cup QueueFull :
                /\ Outcome(c, e)
                /\ UNCHANGED turns
           \/ /\ request = "turn/start"
              \* the turn runs, its identifier is unusable: nothing to interrupt
              /\ turns' = next /\ unnamed' = unnamed \cup {next}
              /\ slot' = "idle" /\ UNCHANGED <<queue, turn>>
              /\ ChatEnds(c, "InvalidRequest")
        /\ UNCHANGED <<ops, notes, started, restarts, exempt, spawns, drops, pending, failed, expired,
                       logins, shown, cancelled, streamVars>>

-----------------------------------------------------------------------------
(* The loop over the notifications of a turn.  Note is what next_notification
   returns: the head of the queue, or what the helper sends. *)
Interrupted(c, error) ==
    /\ mine' = [mine EXCEPT ![c].result = Class(error)]
    /\ pc' = [pc EXCEPT ![c] = "stop"]
    /\ UNCHANGED <<op, slot, active, control>>

on_event(c) ==
    CASE ~mine[c].stream -> ""
      [] mine[c].stream /\ over[c] = "left" -> "Interrupted"
      [] mine[c].stream /\ over[c] # "left" /\ Len(chan[c]) >= MaxQueue -> "NotificationQueueFull"
      [] OTHER -> ""

Delta(c, n) ==
    LET text == Append(mine[c].text, n.id)
    IN  CASE n.id # mine[c].turn -> Interrupted(c, "CorrelationFailed") /\ UNCHANGED chan
          [] n.id = mine[c].turn /\ Len(text) > MaxText ->
               Interrupted(c, "ResponseTooLarge") /\ UNCHANGED chan
          [] n.id = mine[c].turn /\ Len(text) <= MaxText /\ on_event(c) # "" ->
               Interrupted(c, on_event(c)) /\ UNCHANGED chan
          [] OTHER ->
               /\ mine' = [mine EXCEPT ![c].text = text]
               /\ chan' = IF mine[c].stream THEN [chan EXCEPT ![c] = Append(@, n.id)] ELSE chan
               /\ UNCHANGED <<pc, op, slot, active, control>>

(* The finished item is the text so far, more, or another text (a negative
   piece). *)
Item(c, n) ==
    /\ UNCHANGED chan
    /\ IF n.id # mine[c].turn THEN Interrupted(c, "CorrelationFailed")
       ELSE \E text \in {mine[c].text, Append(mine[c].text, n.id), <<-n.id>>} :
              /\ text # <<>>
              /\ mine' = [mine EXCEPT ![c].final = text]
              /\ UNCHANGED <<pc, op, slot, active, control>>

Completed(c, n) ==
    LET result == CASE n.kind = "interrupted" -> "Interrupted"
                    [] n.kind = "turn_failed" -> "TurnFailed"
                    [] OTHER -> IF mine[c].final = Nil THEN "MalformedProtocol" ELSE "ok"
    IN  IF n.id # mine[c].turn THEN Interrupted(c, "CorrelationFailed") /\ UNCHANGED chan
        ELSE /\ slot' = IF is_fatal_error(result) THEN "none" ELSE "idle"
             /\ ChatEnds(c, result)
             /\ UNCHANGED chan

HandleNote(c, n) ==
    CASE n.kind = "delta" -> Delta(c, n)
      [] n.kind = "item" -> Item(c, n)
      [] n.kind \in {"completed", "interrupted", "turn_failed"} -> Completed(c, n)
      [] n.kind = "tool" -> /\ Interrupted(c, IF n.id = mine[c].turn THEN "ForbiddenAction"
                                              ELSE "CorrelationFailed")
                            /\ UNCHANGED chan
      [] n.kind = "error_auth" /\ n.id = mine[c].turn ->
            UNCHANGED <<pc, op, slot, active, control, mine, chan>> \* kept for the message only
      [] n.kind = "error_auth" /\ n.id # mine[c].turn ->
            Interrupted(c, "CorrelationFailed") /\ UNCHANGED chan
      [] OTHER -> LET l == apply_notification(Login, n)
                  IN  /\ UNCHANGED chan
                      /\ IF l.error # "" THEN Interrupted(c, l.error)
                         ELSE UNCHANGED <<pc, op, slot, active, control, mine>>

TurnStep(c, n) ==
    /\ pc[c] = "turn"
    /\ HandleNote(c, n)
    /\ LET l == apply_notification(Login, n)
       IN  /\ pending' = l.pending /\ failed' = l.failed
           /\ expired' = IF l.pending = Nil THEN FALSE ELSE expired
    /\ \/ /\ queue # <<>> /\ n = Head(queue) /\ queue' = Tail(queue)
          /\ UNCHANGED <<turn, notes>>
       \/ /\ queue = <<>> /\ UNCHANGED queue
          /\ turn' = Sent(n)
          /\ \/ n \in Benign /\ UNCHANGED notes \* any number of them
             \/ n \notin Benign /\ notes < MaxNotes /\ notes' = notes + 1
    /\ unnamed' = IF slot' = "none" THEN {} ELSE IF queue = <<>> THEN StillUnnamed(n) ELSE unnamed
    /\ UNCHANGED <<ops, started, restarts, exempt, spawns, drops, logins, shown, cancelled, turns,
                   got, over>>

(* Cancelled, or nothing readable came in time. *)
TurnStops(c) ==
    /\ pc[c] = "turn"
    /\ \/ cancelled[c] /\ Interrupted(c, "Interrupted")
       \/ queue = <<>> /\ \E e \in ReadErrors : Interrupted(c, e)
    /\ UNCHANGED <<ops, queue, notes, started, restarts, exempt, spawns, drops, pending, failed,
                   expired, logins, shown, cancelled, turn, unnamed, turns, streamVars>>

(* Mutant: the session is put back without waiting for the turn to be over. *)
BUG_interrupt_turn_and_confirm(c) ==
    /\ pc[c] = "stop"
    /\ IF mine[c].result = "fatal" THEN Killed ELSE Returned
    /\ Stopped(c)
    /\ UNCHANGED <<ops, notes, started, restarts, exempt, spawns, drops, pending, failed, expired,
                   logins, shown, cancelled, turns, streamVars>>

(* interrupt_turn_and_confirm: the helper says in time that this very turn was
   interrupted, or it is killed; a fatal error kills it in any case. *)
interrupt_turn_and_confirm(c) ==
    /\ pc[c] = "stop"
    /\ \E confirmed \in BOOLEAN :
         /\ confirmed => \/ turn = mine[c].turn /\ turn # 0
                         \/ Note("interrupted", mine[c].turn) \in Range(queue)
         /\ IF mine[c].result = "fatal" \/ ~confirmed
            THEN Killed
            ELSE /\ slot' = "idle" /\ turn' = 0 /\ UNCHANGED unnamed
                 /\ queue' \in {<<>>, <<Note("delta", mine[c].turn)>>} \* what came after it
    /\ Stopped(c)
    /\ UNCHANGED <<ops, notes, started, restarts, exempt, spawns, drops, pending, failed, expired,
                   logins, shown, cancelled, turns, streamVars>>

-----------------------------------------------------------------------------
(* The delivery.  The worker of a stream ends with the rest of the text, if the
   finished item is longer than what was streamed, and one terminal item; both
   wait for room. *)
Prefix(a, b) == Len(a) <= Len(b) /\ SubSeq(b, 1, Len(a)) = a

(* Mutant: the finished text is taken to extend what was streamed. *)
BUG_Terminal(m) == m.result

Terminal(m) ==
    IF m.result # "ok" THEN m.result
    ELSE IF Prefix(m.text, m.final) THEN "ok" ELSE "InvalidResponse"

(* Mutant: the worker does not notice that nobody reads its stream. *)
BUG_Flush(c) ==
    LET m    == mine[c]
        rest == IF Terminal(m) = "ok" THEN SubSeq(m.final, Len(m.text) + 1, Len(m.final)) ELSE <<>>
    IN  /\ pc[c] = "flush" /\ Len(chan[c]) < MaxQueue
        /\ IF rest # <<>>
           THEN /\ chan' = [chan EXCEPT ![c] = Append(@, Head(rest))]
                /\ mine' = [mine EXCEPT ![c].text = Append(@, Head(rest))]
                /\ UNCHANGED <<pc, op>>
           ELSE /\ chan' = [chan EXCEPT ![c] = Append(@, 0)]
                /\ Finish(c) /\ UNCHANGED mine
        /\ UNCHANGED <<ops, sessionVars, loginVars, active, cancelled, turn, unnamed, turns, got, over>>

Flush(c) ==
    LET m    == mine[c]
        rest == IF Terminal(m) = "ok" THEN SubSeq(m.final, Len(m.text) + 1, Len(m.final)) ELSE <<>>
    IN  /\ pc[c] = "flush"
        /\ \/ over[c] = "left" /\ Finish(c) /\ UNCHANGED <<chan, mine>>
           \/ /\ over[c] # "left" /\ Len(chan[c]) < MaxQueue
              /\ IF rest # <<>>
                 THEN /\ chan' = [chan EXCEPT ![c] = Append(@, Head(rest))]
                      /\ mine' = [mine EXCEPT ![c].text = Append(@, Head(rest))]
                      /\ UNCHANGED <<pc, op>>
                 ELSE /\ chan' = [chan EXCEPT ![c] = Append(@, 0)]
                      /\ Finish(c) /\ UNCHANGED mine
    /\ UNCHANGED <<ops, sessionVars, loginVars, active, cancelled, turn, unnamed, turns, got, over>>

(* The client reads; 0 is the terminal item. *)
Read(c) ==
    /\ over[c] = "open" /\ chan[c] # <<>>
    /\ chan' = [chan EXCEPT ![c] = Tail(@)]
    /\ IF Head(chan[c]) = 0
       THEN over' = [over EXCEPT ![c] = Terminal(mine[c])] /\ UNCHANGED got
       ELSE got' = [got EXCEPT ![c] = Append(@, Head(chan[c]))] /\ UNCHANGED over
    /\ UNCHANGED <<pc, op, ops, sessionVars, loginVars, chatVars>>

(* The client of a chat leaves: the stream, or the buffered wait, is dropped and
   cancels the turn; the worker goes on without it. *)
Leave(c) ==
    /\ c \in Chats /\ over[c] = "open" /\ ~cancelled[c] /\ (pc[c] # "idle" \/ mine[c].stream)
    /\ cancelled' = [cancelled EXCEPT ![c] = TRUE]
    /\ over' = [over EXCEPT ![c] = "left"]
    /\ UNCHANGED <<pc, op, ops, sessionVars, loginVars, active, turn, unnamed, turns, mine, chan, got>>

(* The client of a control route leaves: its operation is dropped where it
   stands, with the session if it has it. *)
DropControl(c) ==
    /\ c \in Controls /\ pc[c] \in {"lock", "call"}
    /\ Finish(c) /\ ControlFree(c)
    /\ IF slot = c
       THEN Killed /\ exempt' = TRUE /\ drops' = drops + 1
       ELSE UNCHANGED <<slot, queue, turn, unnamed, exempt, drops>>
    /\ UNCHANGED <<ops, notes, started, restarts, spawns, pending, failed, expired, logins, shown,
                   active, cancelled, turns, mine, streamVars>>

(* It leaves while the helper is being started: the start was counted, and the
   one that follows is not. *)
DropConnecting(c) ==
    /\ c \in Controls /\ pc[c] = "lock" /\ op[c] # "shutdown" /\ slot = "none"
    /\ Finish(c) /\ ControlFree(c)
    /\ started' = TRUE /\ exempt' = TRUE /\ drops' = drops + 1
    /\ ~(started /\ ~exempt /\ restarts >= MaxRestarts)
    /\ restarts' = IF started /\ ~exempt THEN restarts + 1 ELSE restarts
    /\ spawns' = spawns + 1
    /\ UNCHANGED <<ops, slot, queue, notes, pending, failed, expired, logins>>
    /\ UNCHANGED <<shown, chatVars, streamVars>>

Expire ==
    /\ pending # Nil /\ ~expired
    /\ expired' = TRUE
    /\ UNCHANGED <<pc, op, ops, sessionVars, pending, failed, logins, shown, control, chatVars, streamVars>>

-----------------------------------------------------------------------------
Init ==
    /\ pc = [c \in Callers |-> "idle"] /\ op = [c \in Callers |-> ""] /\ ops = 0
    /\ slot = "none" /\ queue = <<>> /\ notes = 0
    /\ started = FALSE /\ restarts = 0 /\ exempt = FALSE /\ spawns = 0 /\ drops = 0
    /\ active = Nil /\ cancelled = [c \in Chats |-> FALSE]
    /\ pending = Nil /\ failed = FALSE /\ expired = FALSE /\ logins = 0 /\ shown = Nil /\ control = Nil
    /\ turn = 0 /\ unnamed = {} /\ turns = 0 /\ mine = [c \in Chats |-> NoTurn]
    /\ chan = [c \in Chats |-> <<>>] /\ got = [c \in Chats |-> <<>>] /\ over = [c \in Chats |-> "none"]

ControlStep(c) == account(c) \/ start_login(c) \/ cancel_login(c) \/ logout(c) \/ models(c)
                  \/ shutdown(c)
AnyNote == TurnNotes \cup LoginNotes \cup Benign

Progress(c) ==
    \/ Lock(c) \/ NoLock(c) \/ rpc(c)
    \/ c \in Controls /\ (StoreLogin(c) \/ Terminate(c))
    \/ c \in Chats /\ (ChatAnswer(c) \/ interrupt_turn_and_confirm(c) \/ Flush(c))

Next ==
    \/ \E c \in Controls : ControlStep(c) \/ DropControl(c) \/ DropConnecting(c)
    \/ \E c \in Chats : chat(c) \/ Leave(c)
    \/ \E c \in Chats : Read(c)
    \/ \E c \in Chats : TurnStops(c) \/ \E n \in AnyNote : TurnStep(c, n)
    \/ \E c \in Callers : Progress(c) \/ \E n \in AnyNote : Queue(c, n)
    \/ Expire

(* Every request, lock and interrupt has a deadline of its own.  The loop over
   a turn's notifications has none: its timeout is of one notification, and
   starts again with each.  The loop is fair only to what it already has, the
   queue and a cancelled token.  No client has to read. *)
Fairness ==
    /\ \A c \in Callers : WF_vars(Progress(c))
    /\ \A c \in Chats : /\ WF_vars(queue # <<>> /\ \E n \in AnyNote : TurnStep(c, n))
                        /\ WF_vars(cancelled[c] /\ TurnStops(c))

Spec == Init /\ [][Next]_vars /\ Fairness

-----------------------------------------------------------------------------
TypeOK ==
    /\ pc \in [Callers -> {"idle", "lock", "call", "store", "turn", "stop", "flush"}]
    /\ slot \in {"none", "idle"} \cup Callers
    /\ Len(queue) <= MaxQueue
    /\ restarts \in Nat
    /\ \A c \in Chats : Len(chan[c]) <= MaxQueue

(* A stream that ended well gave its client the finished text of its own turn,
   whole and once, whatever the helper had left over from other turns and
   however the finished item differed from what was streamed (lib.rs 606-671,
   delivery.rs 955-1024). *)
AnswerIsWhole ==
    \A c \in Chats :
        over[c] = "ok" => /\ got[c] = mine[c].final
                          /\ \A i \in 1..Len(got[c]) : got[c][i] \in {mine[c].turn, -mine[c].turn}

(* In a session put back for the next caller no turn runs that the manager could
   name: an error, a cancelled client or a fatal answer ends the turn, seen to be
   ended, or the helper (lib.rs 694-717).  The turns left are those whose
   turn/start was answered with an unusable identifier: the error is not fatal,
   there is no active turn to interrupt, and the session is put back with the
   turn running (lib.rs 589, 706-714). *)
RunningTurns == unnamed \cup ({turn} \ {0})
SlotIsQuiet == slot = "idle" => RunningTurns \subseteq unnamed

(* What the last case refutes: no turn at all runs in a session put back. *)
NoTurnLeftRunning == slot = "idle" => RunningTurns = {}

(* Helpers are started at most once, once more per allowed restart and once per
   operation dropped while it had the session, whatever the interleaving of
   failures and dropped calls (lib.rs 793-806, 953-976). *)
RestartBudget == spawns <= 1 + MaxRestarts + drops

(* What ends whatever the helper and the readers do.  A control operation ends,
   although the turn it waits for may be drawn out for ever by a helper that
   keeps sending notifications; a chat ends or reaches its turn and then its
   reader; a cancelled chat, also one that a shutdown cancelled, gives its place
   to the next, and one whose client has left ends, although nobody reads its
   stream (lib.rs 497-502, 598-604, 694-738; delivery.rs 1005, 1024). *)
Due(c) ==
    \/ c \in Controls /\ pc[c] # "idle"
    \/ c \in Chats /\ \/ pc[c] \in {"lock", "call", "stop"}
                      \/ active = c /\ cancelled[c]
                      \/ over[c] = "left" /\ pc[c] # "idle"
OperationsEnd == \A c \in Callers : Due(c) ~> ~Due(c)
=============================================================================
