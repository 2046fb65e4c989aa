---------------------------- MODULE Host_proofs ----------------------------
(***************************************************************************)
(* What TLAPS proves about the programs on the user's machine.             *)
(*                                                                         *)
(* The Codex helper's manager: a session is put back only when no turn of  *)
(* the manager runs in it, a stream that ended well gave its client the    *)
(* finished text of its own turn, and helpers are started within the       *)
(* restart budget.                                                         *)
(*                                                                         *)
(* The guided setup: no interruption loses a key or a policy.              *)
(*                                                                         *)
(* The files a start reads: the ledger, the project directories and the    *)
(* helper's private store are whole after any crash.                       *)
(***************************************************************************)
EXTENDS CodexRuntime, GuidedSetup, HostFiles, TLAPS

Holding == {"call", "turn", "stop"}
TerminalKinds == {"completed", "interrupted", "turn_failed"}

NoteKinds == {"login_ok", "login_failed", "updated", "updated_apikey", "delta", "item", "tool",
              "error_auth", "benign"} \cup TerminalKinds
Notes == [kind : NoteKinds, id : Nat]
Endings == {"none", "open", "left", "", "ok", "fatal", "failed", "InvalidResponse"}

ChatState == [turn : Nat, text : Seq(Int), final : Seq(Int) \cup {Nil},
              result : {"", "ok", "fatal", "failed"}, stream : BOOLEAN]

Types ==
  /\ pc \in [Callers -> {"idle", "lock", "call", "store", "turn", "stop", "flush"}]
  /\ turn \in Nat /\ turns \in Nat
  /\ queue \in Seq(Notes)
  /\ mine \in [Chats -> ChatState]
  /\ chan \in [Chats -> Seq(Int)] /\ got \in [Chats -> Seq(Int)]
  /\ over \in [Chats -> Endings]

(* The caller that took the session is the one that uses it, and only      *)
(* chats have turns and streams.                                           *)
HoldInv ==
  /\ \A c \in Callers : pc[c] \in Holding <=> slot = c
  /\ \A c \in Callers : pc[c] \in {"turn", "stop", "flush"} => c \in Chats

(* A turn is numbered once, and a chat's own turn runs only while the chat *)
(* waits for its notifications or for the end of it; a queued end of a     *)
(* turn is not of the running one.                                         *)
TurnInv ==
  /\ turn <= turns
  /\ \A c \in Chats : mine[c].turn <= turns
  /\ \A c \in Chats : pc[c] \in {"turn", "stop"} => mine[c].turn >= 1
  /\ \A c \in Chats : turn # 0 /\ mine[c].turn = turn => pc[c] \in {"turn", "stop"}
  /\ \A i \in DOMAIN queue : queue[i].kind \in TerminalKinds => queue[i].id # turn /\ queue[i].id \in 1..turns

(* The pieces of a chat's own turn.                                        *)
Own(t, s) == \A i \in DOMAIN s : s[i] # 0 /\ s[i] \in {t, -t}

(* What a chat has streamed, as its client read it and has it still to     *)
(* read, is its text; 0 ends it, once the finished text is out.            *)
ChatInv(c) ==
  /\ mine[c].stream \/ chan[c] = <<>>
  /\ pc[c] = "flush" => mine[c].stream
  /\ pc[c] \in {"lock", "call"} => mine[c].text = <<>> /\ mine[c].final = Nil
  /\ pc[c] \in {"lock", "call", "turn", "stop"} => mine[c].result # "ok"
  /\ Own(mine[c].turn, mine[c].text)
  /\ mine[c].final # Nil => Own(mine[c].turn, mine[c].final)
  /\ mine[c].result = "ok" => mine[c].final # Nil
  /\ mine[c].stream /\ over[c] = "open" /\ pc[c] # "idle" => got[c] \o chan[c] = mine[c].text
  /\ mine[c].stream /\ over[c] = "open" /\ pc[c] = "idle" =>
       /\ got[c] \o chan[c] = Append(mine[c].text, 0)
       /\ Terminal(mine[c]) = "ok" => mine[c].text = mine[c].final
  /\ over[c] = "ok" => pc[c] = "idle" /\ got[c] = mine[c].final /\ Own(mine[c].turn, mine[c].final)

IInv == Types /\ HoldInv /\ TurnInv /\ \A c \in Chats : ChatInv(c)

-----------------------------------------------------------------------------
(* A step of caller c that leaves the others' chats alone.                 *)
LEMMA StepKeeps ==
  ASSUME IInv, Types', NEW c \in Callers,
         \A d \in Callers \ {c} : pc'[d] = pc[d],
         \A d \in Chats \ {c} : mine'[d] = mine[d] /\ chan'[d] = chan[d] /\ got'[d] = got[d]
                                /\ over'[d] = over[d],
         slot' = slot \/ (slot \in {"none", "idle", c} /\ slot' \in {"none", "idle", c}),
         pc'[c] \in Holding <=> slot' = c,
         pc'[c] \in {"turn", "stop", "flush"} => c \in Chats,
         turns' >= turns, turn' \in {0, turn} \/ turn' > turns, turn' <= turns',
         \A i \in DOMAIN queue' : queue'[i].kind \in TerminalKinds =>
           queue'[i].id # turn' /\ queue'[i].id \in 1..turns',
         c \in Chats => /\ mine'[c].turn <= turns'
                        /\ pc'[c] \in {"turn", "stop"} => mine'[c].turn >= 1
                        /\ turn' # 0 /\ mine'[c].turn = turn' => pc'[c] \in {"turn", "stop"}
                        /\ ChatInv(c)'
  PROVE  IInv'
PROOF
<1>0. Types /\ HoldInv /\ TurnInv /\ \A d \in Chats : ChatInv(d)
  BY DEF IInv
<1>1. HoldInv'
  <2>1. ASSUME NEW d \in Callers
        PROVE  (pc'[d] \in Holding <=> slot' = d) /\ (pc'[d] \in {"turn", "stop", "flush"} => d \in Chats)
    <3>1. CASE d = c
      BY <3>1
    <3>2. CASE d # c
      <4>1. d \notin {"none", "idle", c}
        BY <3>2, CallersAreDistinct
      <4>2. slot' = d <=> slot = d
        BY <4>1
      <4> QED BY <1>0, <3>2, <4>2 DEF HoldInv
    <3> QED BY <3>1, <3>2
  <2> QED BY <2>1 DEF HoldInv
<1>2. TurnInv'
  <2>0. turns \in Nat /\ turn \in Nat /\ turns' \in Nat /\ turn' \in Nat
    BY <1>0 DEF Types
  <2>1. ASSUME NEW d \in Chats
        PROVE  /\ mine'[d].turn <= turns'
               /\ pc'[d] \in {"turn", "stop"} => mine'[d].turn >= 1
               /\ turn' # 0 /\ mine'[d].turn = turn' => pc'[d] \in {"turn", "stop"}
    <3>1. CASE d = c
      BY <2>1, <3>1
    <3>2. CASE d # c
      <4>1. d \in Callers /\ pc'[d] = pc[d] /\ mine'[d] = mine[d]
        BY <3>2 DEF Callers
      <4>2. mine[d].turn \in Nat /\ mine[d].turn <= turns
        BY <1>0 DEF Types, ChatState, TurnInv
      <4> QED BY <1>0, <2>0, <4>1, <4>2 DEF TurnInv
    <3> QED BY <3>1, <3>2
  <2> QED BY <2>1 DEF TurnInv
<1>3. ASSUME NEW d \in Chats PROVE ChatInv(d)'
  <2>1. CASE d = c
    BY <1>3, <2>1
  <2>2. CASE d # c
    <3>1. d \in Callers /\ pc'[d] = pc[d]
      BY <2>2 DEF Callers
    <3>2. mine'[d] = mine[d] /\ chan'[d] = chan[d] /\ got'[d] = got[d] /\ over'[d] = over[d]
      BY <2>2
    <3>3. ChatInv(d)
      BY <1>0
    <3> QED BY <3>1, <3>2, <3>3 DEF ChatInv
  <2> QED BY <2>1, <2>2
<1> QED BY <1>1, <1>2, <1>3 DEF IInv

(* The ends of turns that are queued stay those of other turns.            *)
LEMMA QueueKept ==
  ASSUME IInv, queue' \in {queue, <<>>}, turn' \in {0, turn} \/ turn' > turns, turns' >= turns, turns' \in Nat,
         turn' \in Nat
  PROVE  \A i \in DOMAIN queue' : queue'[i].kind \in TerminalKinds =>
           queue'[i].id # turn' /\ queue'[i].id \in 1..turns'
PROOF
<1>0. turns \in Nat /\ turn \in Nat
  BY DEF IInv, Types
<1>1. \A i \in DOMAIN queue : queue[i].kind \in TerminalKinds => queue[i].id # turn /\ queue[i].id \in 1..turns
  BY DEF IInv, TurnInv
<1>2. CASE queue' = <<>>
  BY <1>2
<1>3. CASE queue' = queue
  BY <1>0, <1>1, <1>3
<1> QED BY <1>2, <1>3

(* A step of a control caller.                                             *)
LEMMA ControlKeeps ==
  ASSUME IInv, NEW c \in Controls, UNCHANGED <<mine, chan, got, over, turns>>,
         pc' \in [Callers -> {"idle", "lock", "call", "store"} \cup {pc[d] : d \in Callers}],
         \A d \in Callers \ {c} : pc'[d] = pc[d], pc'[c] \in {"idle", "lock", "call", "store"},
         slot' = slot \/ (slot \in {"none", "idle", c} /\ slot' \in {"none", "idle", c}),
         pc'[c] \in Holding <=> slot' = c,
         turn' \in {0, turn}, queue' \in {queue, <<>>}
  PROVE  IInv'
PROOF
<1>0. Types /\ TurnInv
  BY DEF IInv
<1>1. turn' \in Nat /\ turn' <= turns' /\ turns' \in Nat /\ turns' >= turns
  BY <1>0 DEF Types, TurnInv
<1>2. queue' \in Seq(Notes)
  <2>1. <<>> \in Seq(Notes)
    OBVIOUS
  <2> QED BY <1>0, <2>1 DEF Types
<1>3. pc' \in [Callers -> {"idle", "lock", "call", "store", "turn", "stop", "flush"}]
  BY <1>0 DEF Types
<1>4. Types'
  BY <1>0, <1>1, <1>2, <1>3 DEF Types
<1>5. c \in Callers /\ c \notin Chats
  BY CallersAreDistinct DEF Callers
<1>6. \A i \in DOMAIN queue' : queue'[i].kind \in TerminalKinds =>
        queue'[i].id # turn' /\ queue'[i].id \in 1..turns'
  BY <1>1, QueueKept
<1> QED BY <1>1, <1>4, <1>5, <1>6, StepKeeps

(* A step of a control caller that does not have the session, and leaves   *)
(* it alone.                                                               *)
LEMMA ControlMoves ==
  ASSUME IInv, NEW c \in Controls, pc[c] \notin Holding, NEW p \in {"idle", "lock", "store"},
         pc' = [pc EXCEPT ![c] = p], UNCHANGED <<mine, chan, got, over, turns, slot, turn, queue>>
  PROVE  IInv'
PROOF
<1>1. Types /\ HoldInv /\ c \in Callers
  BY DEF IInv, Callers
<1>2. pc'[c] = p /\ \A d \in Callers \ {c} : pc'[d] = pc[d]
  BY <1>1 DEF Types
<1>3. pc' \in [Callers -> {"idle", "lock", "call", "store"} \cup {pc[d] : d \in Callers}]
  BY <1>1 DEF Types
<1>4. pc'[c] \in Holding <=> slot' = c
  BY <1>1, <1>2 DEF HoldInv, Holding
<1> QED BY <1>2, <1>3, <1>4, ControlKeeps

(* The steps that begin an operation of a control route.                   *)
LEMMA ControlStepKeeps ==
  ASSUME IInv, NEW c \in Controls, ControlStep(c)
  PROVE  IInv'
PROOF
<1>0. Types /\ HoldInv /\ c \in Callers
  BY DEF IInv, Callers
<1>1. UNCHANGED <<mine, chan, got, over, turns, slot, turn, queue>>
  BY DEF ControlStep, account, start_login, cancel_login, logout, models, shutdown, BeginControl,
         sessionVars, chatVars, streamVars
<1>2. pc[c] = "idle"
  BY DEF ControlStep, account, start_login, cancel_login, logout, models, shutdown, BeginControl
<1>3. pc' = [pc EXCEPT ![c] = "lock"] \/ pc' = [pc EXCEPT ![c] = "idle"]
  <2>1. pc = [pc EXCEPT ![c] = "idle"]
    BY <1>0, <1>2 DEF Types
  <2>2. CASE account(c)
    BY <2>1, <2>2 DEF account
  <2>3. CASE ~account(c)
    BY <2>3 DEF ControlStep, start_login, cancel_login, logout, models, shutdown, BeginControl
  <2> QED BY <2>2, <2>3
<1>4. pc[c] \notin Holding
  BY <1>2 DEF Holding
<1> QED BY <1>1, <1>3, <1>4, ControlMoves

(* A control client leaves.                                                *)
LEMMA DropsKeep ==
  ASSUME IInv, NEW c \in Controls, DropControl(c) \/ DropConnecting(c)
  PROVE  IInv'
PROOF
<1>0. Types /\ HoldInv /\ c \in Callers
  BY DEF IInv, Callers
<1>1. pc' = [pc EXCEPT ![c] = "idle"] /\ UNCHANGED <<mine, chan, got, over, turns>>
  BY DEF DropControl, DropConnecting, Finish, chatVars, streamVars
<1>2. CASE slot # c /\ UNCHANGED <<slot, queue, turn>>
  <2>1. pc[c] \notin Holding
    BY <1>0, <1>2 DEF HoldInv
  <2> QED BY <1>1, <1>2, <2>1, ControlMoves
<1>3. CASE slot = c /\ Killed
  <2>1. pc'[c] = "idle" /\ \A d \in Callers \ {c} : pc'[d] = pc[d]
    BY <1>0, <1>1 DEF Types
  <2>2. pc' \in [Callers -> {"idle", "lock", "call", "store"} \cup {pc[d] : d \in Callers}]
    BY <1>0, <1>1 DEF Types
  <2>3. /\ slot' = "none" /\ turn' \in {0, turn} /\ queue' \in {queue, <<>>} /\ slot \in {"none", "idle", c}
        /\ slot' \in {"none", "idle", c}
    BY <1>3 DEF Killed
  <2>4. pc'[c] \in Holding <=> slot' = c
    BY <1>0, <2>1, <2>3, CallersAreDistinct DEF Holding
  <2> QED BY <1>1, <2>1, <2>2, <2>3, <2>4, ControlKeeps
<1>4. ASSUME DropConnecting(c) PROVE slot # c /\ UNCHANGED <<slot, queue, turn>>
  <2>1. pc[c] \notin Holding
    BY <1>4 DEF DropConnecting, Holding
  <2> QED BY <1>0, <1>4, <2>1 DEF DropConnecting, HoldInv, chatVars
<1>5. ASSUME DropControl(c), slot # c PROVE UNCHANGED <<slot, queue, turn>>
  BY <1>5 DEF DropControl
<1>6. ASSUME DropControl(c), slot = c PROVE Killed
  BY <1>6 DEF DropControl
<1> QED BY <1>2, <1>3, <1>4, <1>5, <1>6

(* The other steps of control callers.                                     *)
LEMMA ControlProgress ==
  ASSUME IInv, NEW c \in Controls, Lock(c) \/ NoLock(c) \/ rpc(c) \/ StoreLogin(c) \/ Terminate(c)
  PROVE  IInv'
PROOF
<1>0. Types /\ HoldInv /\ c \in Callers /\ c \notin Chats
  BY CallersAreDistinct DEF IInv, Callers
<1>a. ASSUME NEW e, OpEnds(c, e) PROVE pc' = [pc EXCEPT ![c] = "idle"] /\ UNCHANGED mine
  BY <1>0, <1>a DEF OpEnds, Ended, Finish
<1>b. ASSUME NEW p \in {"idle", "lock", "call", "store"}, pc' = [pc EXCEPT ![c] = p]
      PROVE  /\ pc'[c] = p /\ \A d \in Callers \ {c} : pc'[d] = pc[d]
             /\ pc' \in [Callers -> {"idle", "lock", "call", "store"} \cup {pc[d] : d \in Callers}]
  BY <1>0, <1>b DEF Types
<1>c. c \notin {"none", "idle"}
  BY <1>0, CallersAreDistinct
<1>1. CASE StoreLogin(c)
  <2>1. pc[c] \notin Holding
    BY <1>1 DEF StoreLogin, Holding
  <2>2. pc' = [pc EXCEPT ![c] = "idle"] /\ UNCHANGED <<mine, chan, got, over, turns, slot, turn, queue>>
    BY <1>1 DEF StoreLogin, Ended, Finish, sessionVars, streamVars
  <2> QED BY <2>1, <2>2, ControlMoves
<1>2. CASE Terminate(c)
  <2>1. /\ pc' = [pc EXCEPT ![c] = "idle"] /\ UNCHANGED <<mine, chan, got, over, turns>>
        /\ slot \in {"none", "idle"} /\ slot' = "none" /\ turn' = 0 /\ queue' = <<>>
    BY <1>2 DEF Terminate, Finish, Killed, streamVars
  <2>2. pc'[c] \in Holding <=> slot' = c
    BY <1>0, <1>b, <1>c, <2>1 DEF Holding
  <2> QED BY <1>b, <2>1, <2>2, ControlKeeps
<1>3. CASE NoLock(c)
  <2>1. pc[c] \notin Holding
    BY <1>3 DEF NoLock, Holding
  <2>2. UNCHANGED <<chan, got, over, turns, slot, turn, queue>>
    BY <1>3 DEF NoLock, sessionVars, streamVars
  <2>3. pc' = [pc EXCEPT ![c] = "idle"] /\ UNCHANGED mine
    BY <1>3, <1>a DEF NoLock, OpFails
  <2> QED BY <2>1, <2>2, <2>3, ControlMoves
<1>4. CASE Lock(c)
  <2>0. UNCHANGED <<chan, got, over, turns, turn>> /\ slot \in {"none", "idle"}
    BY <1>4 DEF Lock, streamVars
  <2>1. CASE slot' = c /\ pc' = [pc EXCEPT ![c] = "call"] /\ UNCHANGED mine /\ queue' \in {queue, <<>>}
    <3>1. pc'[c] \in Holding <=> slot' = c
      BY <1>b, <2>1 DEF Holding
    <3> QED BY <1>b, <2>0, <2>1, <3>1, ControlKeeps
  <2>2. CASE slot' = "none" /\ pc' = [pc EXCEPT ![c] = "idle"] /\ UNCHANGED mine /\ queue' = queue
    <3>1. pc'[c] \in Holding <=> slot' = c
      BY <1>b, <1>c, <2>2 DEF Holding
    <3> QED BY <1>b, <2>0, <2>2, <3>1, ControlKeeps
  <2> QED BY <1>4, <1>a, <2>1, <2>2 DEF Lock, ensure_session, OpFails
<1>5. CASE rpc(c)
  <2>0. pc[c] = "call" /\ slot = c /\ UNCHANGED <<chan, got, over, turns>>
    BY <1>0, <1>5 DEF rpc, streamVars, HoldInv, Holding
  <2>1. /\ slot' \in {"none", "idle"} /\ queue' = <<>> /\ turn' \in {0, turn}
        /\ UNCHANGED mine /\ (pc' = [pc EXCEPT ![c] = "idle"] \/ pc' = [pc EXCEPT ![c] = "store"])
    BY <1>0, <1>5, <1>a DEF rpc, Killed
  <2>2. pc'[c] \in Holding <=> slot' = c
    BY <1>b, <1>c, <2>1 DEF Holding
  <2> QED BY <1>b, <2>0, <2>1, <2>2, ControlKeeps
<1> QED BY <1>1, <1>2, <1>3, <1>4, <1>5

-----------------------------------------------------------------------------
(* The steps of a chat. *)

(* No piece is no other turn's.                                            *)
LEMMA OwnNothing == \A t : Own(t, <<>>)
PROOF
<1>1. DOMAIN <<>> = {}
  OBVIOUS
<1> QED BY <1>1 DEF Own

(* The result of an error.                                                 *)
LEMMA ClassOf ==
  ASSUME NEW e
  PROVE  Class(e) \in {"ok", "fatal", "failed"} /\ (Class(e) = "ok" => e = "ok")
PROOF BY DEF Class, is_fatal_error

(* A chat that ends, well only with a finished text, keeps its account of  *)
(* what was streamed.                                                      *)
LEMMA ChatEndsKeeps ==
  ASSUME IInv, NEW c \in Chats, NEW e, ChatEnds(c, e), pc[c] \in {"lock", "call", "turn"},
         e = "ok" => mine[c].final # Nil,
         UNCHANGED <<chan, got, over>>
  PROVE  /\ pc' \in [Callers -> {"idle", "lock", "call", "store", "turn", "stop", "flush"}]
         /\ pc'[c] \in {"idle", "flush"} /\ \A d \in Callers \ {c} : pc'[d] = pc[d]
         /\ mine' \in [Chats -> ChatState] /\ mine'[c].turn = mine[c].turn
         /\ \A d \in Chats \ {c} : mine'[d] = mine[d]
         /\ ChatInv(c)'
PROOF
<1>0. Types /\ ChatInv(c) /\ c \in Callers /\ mine[c] \in ChatState
  BY DEF IInv, Types, Callers
<1>1. Class(e) \in {"ok", "fatal", "failed"} /\ (Class(e) = "ok" => e = "ok")
  BY ClassOf
<1>2. CASE mine[c].stream
  <2> DEFINE m == [mine[c] EXCEPT !.result = Class(e)]
  <2>1. mine' = [mine EXCEPT ![c] = m] /\ pc' = [pc EXCEPT ![c] = "flush"]
    BY <1>2 DEF ChatEnds
  <2>2. /\ m \in ChatState /\ m.turn = mine[c].turn /\ m.text = mine[c].text /\ m.final = mine[c].final
        /\ m.result = Class(e) /\ m.stream = mine[c].stream
    BY <1>0, <1>1 DEF ChatState
  <2> HIDE DEF m
  <2>3. mine'[c] = m /\ mine' \in [Chats -> ChatState] /\ \A d \in Chats \ {c} : mine'[d] = mine[d]
    BY <1>0, <2>1, <2>2 DEF Types
  <2>4. /\ pc' \in [Callers -> {"idle", "lock", "call", "store", "turn", "stop", "flush"}]
        /\ pc'[c] = "flush" /\ \A d \in Callers \ {c} : pc'[d] = pc[d]
    BY <1>0, <2>1 DEF Types
  <2>5. ChatInv(c)'
    BY <1>0, <1>1, <1>2, <2>2, <2>3, <2>4 DEF ChatInv
  <2> QED BY <2>2, <2>3, <2>4, <2>5
<1>3. CASE ~mine[c].stream
  <2> DEFINE m == [NoTurn EXCEPT !.turn = mine[c].turn]
  <2>1. mine' = [mine EXCEPT ![c] = m] /\ pc' = [pc EXCEPT ![c] = "idle"]
    BY <1>3 DEF ChatEnds
  <2>2. NoTurn \in ChatState
    <3>1. <<>> \in Seq(Int)
      OBVIOUS
    <3> QED BY <3>1 DEF NoTurn, ChatState
  <2>3. m \in ChatState /\ m.turn = mine[c].turn /\ m.text = <<>> /\ m.final = Nil
        /\ m.result = "" /\ m.stream = FALSE
    <3>1. mine[c].turn \in Nat
      BY <1>0 DEF ChatState
    <3>2. m \in ChatState
      BY <2>2, <3>1 DEF ChatState
    <3> QED BY <3>2 DEF NoTurn
  <2> HIDE DEF m
  <2>4. mine'[c] = m /\ mine' \in [Chats -> ChatState] /\ \A d \in Chats \ {c} : mine'[d] = mine[d]
    BY <1>0, <2>1, <2>3 DEF Types
  <2>5. /\ pc' \in [Callers -> {"idle", "lock", "call", "store", "turn", "stop", "flush"}]
        /\ pc'[c] = "idle" /\ \A d \in Callers \ {c} : pc'[d] = pc[d]
    BY <1>0, <2>1 DEF Types
  <2>6. ChatInv(c)'
    <3>1. Own(m.turn, m.text)
      BY <2>3, OwnNothing, Zenon
    <3>2. chan'[c] = <<>> /\ over'[c] # "ok"
      BY <1>0, <1>3 DEF ChatInv
    <3> QED BY <2>3, <2>4, <2>5, <3>1, <3>2 DEF ChatInv
  <2> QED BY <2>3, <2>4, <2>5, <2>6
<1> QED BY <1>2, <1>3

(* The same of a chat whose turn was stopped.                              *)
LEMMA StoppedKeeps ==
  ASSUME IInv, NEW c \in Chats, Stopped(c), pc[c] = "stop", UNCHANGED <<chan, got, over>>
  PROVE  /\ pc' \in [Callers -> {"idle", "lock", "call", "store", "turn", "stop", "flush"}]
         /\ pc'[c] \in {"idle", "flush"} /\ \A d \in Callers \ {c} : pc'[d] = pc[d]
         /\ mine' \in [Chats -> ChatState] /\ mine'[c].turn = mine[c].turn
         /\ \A d \in Chats \ {c} : mine'[d] = mine[d]
         /\ ChatInv(c)'
PROOF
<1>0. Types /\ ChatInv(c) /\ c \in Callers /\ mine[c] \in ChatState
  BY DEF IInv, Types, Callers
<1>2. CASE mine[c].stream
  <2>1. mine' = [mine EXCEPT ![c] = mine[c]] /\ pc' = [pc EXCEPT ![c] = "flush"]
    BY <1>2 DEF Stopped
  <2>2. mine' = mine
    BY <1>0, <2>1 DEF Types
  <2>3. /\ pc' \in [Callers -> {"idle", "lock", "call", "store", "turn", "stop", "flush"}]
        /\ pc'[c] = "flush" /\ \A d \in Callers \ {c} : pc'[d] = pc[d]
    BY <1>0, <2>1 DEF Types
  <2>4. ChatInv(c)'
    BY <1>0, <1>2, <2>2, <2>3 DEF ChatInv
  <2> QED BY <1>0, <2>2, <2>3, <2>4 DEF Types
<1>3. CASE ~mine[c].stream
  <2> DEFINE m == [NoTurn EXCEPT !.turn = mine[c].turn]
  <2>1. mine' = [mine EXCEPT ![c] = m] /\ pc' = [pc EXCEPT ![c] = "idle"]
    BY <1>3 DEF Stopped
  <2>2. NoTurn \in ChatState
    <3>1. <<>> \in Seq(Int)
      OBVIOUS
    <3> QED BY <3>1 DEF NoTurn, ChatState
  <2>3. m \in ChatState /\ m.turn = mine[c].turn /\ m.text = <<>> /\ m.final = Nil
        /\ m.result = "" /\ m.stream = FALSE
    <3>1. mine[c].turn \in Nat
      BY <1>0 DEF ChatState
    <3>2. m \in ChatState
      BY <2>2, <3>1 DEF ChatState
    <3> QED BY <3>2 DEF NoTurn
  <2> HIDE DEF m
  <2>4. mine'[c] = m /\ mine' \in [Chats -> ChatState] /\ \A d \in Chats \ {c} : mine'[d] = mine[d]
    BY <1>0, <2>1, <2>3 DEF Types
  <2>5. /\ pc' \in [Callers -> {"idle", "lock", "call", "store", "turn", "stop", "flush"}]
        /\ pc'[c] = "idle" /\ \A d \in Callers \ {c} : pc'[d] = pc[d]
    BY <1>0, <2>1 DEF Types
  <2>6. ChatInv(c)'
    <3>1. Own(m.turn, m.text)
      BY <2>3, OwnNothing, Zenon
    <3>2. chan'[c] = <<>> /\ over'[c] # "ok"
      BY <1>0, <1>3 DEF ChatInv
    <3> QED BY <2>3, <2>4, <2>5, <3>1, <3>2 DEF ChatInv
  <2> QED BY <2>3, <2>4, <2>5, <2>6
<1> QED BY <1>2, <1>3

(* A chat that ends gives the session back or kills the helper.            *)
LEMMA EndsKeep ==
  ASSUME IInv, NEW c \in Chats, UNCHANGED <<chan, got, over>>,
         pc' \in [Callers -> {"idle", "lock", "call", "store", "turn", "stop", "flush"}],
         pc'[c] \in {"idle", "flush"}, \A d \in Callers \ {c} : pc'[d] = pc[d],
         mine' \in [Chats -> ChatState], mine'[c].turn = mine[c].turn,
         \A d \in Chats \ {c} : mine'[d] = mine[d],
         ChatInv(c)',
         (slot' = slot /\ slot # c) \/ (slot \in {"none", "idle", c} /\ slot' \in {"none", "idle"}),
         turns' \in {turns, turns + 1}, turn' \in {0, turn},
         turn' = 0 \/ turn' # mine[c].turn,
         queue' \in Seq(Notes),
         \A i \in DOMAIN queue' : queue'[i].kind \in TerminalKinds =>
           queue'[i].id # turn' /\ queue'[i].id \in 1..turns'
  PROVE  IInv'
PROOF
<1>0. Types /\ TurnInv /\ c \in Callers /\ turn \in Nat /\ turns \in Nat /\ mine[c].turn \in Nat
  BY DEF IInv, Types, Callers, ChatState
<1>1. /\ turns' \in Nat /\ turn' \in Nat /\ turns' >= turns /\ turn' <= turns'
      /\ turn' \in {0, turn} \/ turn' > turns
  BY <1>0 DEF TurnInv
<1>2. Types'
  BY <1>0, <1>1 DEF Types
<1>3. pc'[c] \in Holding <=> slot' = c
  BY <1>0, CallersAreDistinct DEF Holding
<1>4. /\ mine'[c].turn <= turns'
      /\ pc'[c] \in {"turn", "stop"} => mine'[c].turn >= 1
      /\ turn' # 0 /\ mine'[c].turn = turn' => pc'[c] \in {"turn", "stop"}
  BY <1>0, <1>1 DEF TurnInv
<1> QED BY <1>0, <1>1, <1>2, <1>3, <1>4, StepKeeps

(* What every step of a chat starts from.                                  *)
LEMMA ChatStart ==
  ASSUME IInv, NEW c \in Chats
  PROVE  /\ Types /\ HoldInv /\ TurnInv /\ ChatInv(c) /\ c \in Callers /\ c \notin {"none", "idle"}
         /\ mine[c] \in ChatState /\ mine[c].turn \in Nat /\ turn \in Nat /\ turns \in Nat
         /\ chan[c] \in Seq(Int) /\ got[c] \in Seq(Int) /\ mine[c].text \in Seq(Int)
         /\ (pc[c] \in Holding <=> slot = c)
         /\ (turn # 0 /\ mine[c].turn = turn => pc[c] \in {"turn", "stop"})
         /\ turn <= turns /\ mine[c].turn <= turns
         /\ (pc[c] \in {"turn", "stop"} => mine[c].turn >= 1)
PROOF
<1>1. Types /\ HoldInv /\ TurnInv /\ ChatInv(c) /\ c \in Callers /\ c \notin {"none", "idle"}
  BY CallersAreDistinct DEF IInv, Callers
<1>2. mine[c] \in ChatState /\ turn \in Nat /\ turns \in Nat /\ chan[c] \in Seq(Int) /\ got[c] \in Seq(Int)
  BY <1>1 DEF Types
<1>3. mine[c].turn \in Nat /\ mine[c].text \in Seq(Int)
  BY <1>2 DEF ChatState
<1> QED BY <1>1, <1>2, <1>3 DEF HoldInv, TurnInv

(* A step of a chat that keeps the session where it is, and its number of  *)
(* turns.                                                                  *)
LEMMA ChatMoves ==
  ASSUME IInv, NEW c \in Chats, NEW p \in {"lock", "call", "turn", "stop", "flush", "idle"},
         pc' = [pc EXCEPT ![c] = p], p \in Holding <=> slot' = c,
         slot' = slot \/ (slot \in {"none", "idle", c} /\ slot' \in {"none", "idle", c}),
         NEW m \in ChatState, mine' = [mine EXCEPT ![c] = m], m.turn <= turns,
         p \in {"turn", "stop"} => m.turn >= 1,
         turn' \in {0, turn}, turns' = turns, turn' # 0 /\ m.turn = turn' => p \in {"turn", "stop"},
         queue' \in Seq(Notes),
         \A i \in DOMAIN queue' : queue'[i].kind \in TerminalKinds =>
           queue'[i].id # turn' /\ queue'[i].id \in 1..turns',
         chan' \in [Chats -> Seq(Int)], got' \in [Chats -> Seq(Int)], over' \in [Chats -> Endings],
         \A d \in Chats \ {c} : chan'[d] = chan[d] /\ got'[d] = got[d] /\ over'[d] = over[d],
         pc'[c] = p /\ mine'[c] = m => ChatInv(c)'
  PROVE  IInv'
PROOF
<1>0. Types /\ c \in Callers /\ turn \in Nat /\ turns \in Nat /\ turn <= turns
  BY ChatStart
<1>1. /\ pc' \in [Callers -> {"idle", "lock", "call", "store", "turn", "stop", "flush"}]
      /\ pc'[c] = p /\ \A d \in Callers \ {c} : pc'[d] = pc[d]
  BY <1>0 DEF Types
<1>2. mine' \in [Chats -> ChatState] /\ mine'[c] = m /\ \A d \in Chats \ {c} : mine'[d] = mine[d]
  BY <1>0 DEF Types
<1>3. turn' \in Nat /\ turns' \in Nat /\ turns' >= turns /\ turn' <= turns'
  BY <1>0
<1>4. Types'
  BY <1>1, <1>2, <1>3 DEF Types
<1>5. ChatInv(c)'
  BY <1>1, <1>2
<1> QED BY <1>0, <1>1, <1>2, <1>3, <1>4, <1>5, StepKeeps

(* A chat begins.                                                          *)
LEMMA chatKeeps ==
  ASSUME IInv, NEW c \in Chats, chat(c)
  PROVE  IInv'
PROOF
<1>0. /\ Types /\ c \in Callers /\ c \notin {"none", "idle"} /\ turn \in Nat /\ turns \in Nat
      /\ (pc[c] \in Holding <=> slot = c)
  BY ChatStart
<1>1. PICK stream \in BOOLEAN : mine' = [mine EXCEPT ![c] = [NoTurn EXCEPT !.stream = stream]]
  BY DEF chat
<1> DEFINE m == [NoTurn EXCEPT !.stream = stream]
<1>2. m \in ChatState /\ m.turn = 0 /\ m.text = <<>> /\ m.final = Nil /\ m.result = "" /\ m.stream = stream
  <2>1. <<>> \in Seq(Int)
    OBVIOUS
  <2>2. NoTurn \in ChatState
    BY <2>1 DEF NoTurn, ChatState
  <2>3. m \in ChatState
    BY <1>1, <2>2 DEF ChatState
  <2> QED BY <2>3 DEF NoTurn
<1>3. /\ pc[c] = "idle" /\ pc' = [pc EXCEPT ![c] = "lock"] /\ UNCHANGED <<slot, queue, turn, turns>>
      /\ chan' = [chan EXCEPT ![c] = <<>>] /\ got' = [got EXCEPT ![c] = <<>>]
      /\ over' = [over EXCEPT ![c] = "open"] /\ mine' = [mine EXCEPT ![c] = m]
  BY <1>1 DEF chat, sessionVars
<1> HIDE DEF m
<1>4. "lock" \in Holding <=> slot' = c
  BY <1>0, <1>3 DEF Holding
<1>5. /\ chan' \in [Chats -> Seq(Int)] /\ got' \in [Chats -> Seq(Int)] /\ over' \in [Chats -> Endings]
      /\ \A d \in Chats \ {c} : chan'[d] = chan[d] /\ got'[d] = got[d] /\ over'[d] = over[d]
      /\ chan'[c] = <<>> /\ got'[c] = <<>> /\ over'[c] = "open"
  <2>1. <<>> \in Seq(Int)
    OBVIOUS
  <2> QED BY <1>0, <1>3, <2>1 DEF Types, Endings
<1>6. ASSUME pc'[c] = "lock", mine'[c] = m PROVE ChatInv(c)'
  <2>1. Own(m.turn, m.text)
    BY <1>2, OwnNothing, Zenon
  <2>2. got'[c] \o chan'[c] = m.text
    <3>1. <<>> \o <<>> = <<>>
      OBVIOUS
    <3> QED BY <1>2, <1>5, <3>1, Zenon
  <2> QED BY <1>2, <1>5, <1>6, <2>1, <2>2 DEF ChatInv
<1>7. \A i \in DOMAIN queue' : queue'[i].kind \in TerminalKinds =>
        queue'[i].id # turn' /\ queue'[i].id \in 1..turns'
  BY <1>0, <1>3, QueueKept
<1>8. queue' \in Seq(Notes) /\ m.turn <= turns
  <2>1. queue' \in Seq(Notes)
    BY <1>0, <1>3 DEF Types
  <2>2. m.turn <= turns
    <3>1. m.turn = 0
      BY <1>2
    <3>2. turns \in Nat
      BY <1>0
    <3> QED BY <3>1, <3>2
  <2> QED BY <2>1, <2>2
<1> QED BY <1>2, <1>3, <1>4, <1>5, <1>6, <1>7, <1>8, ChatMoves

(* The client of a chat leaves.                                            *)
LEMMA LeaveKeeps ==
  ASSUME IInv, NEW c \in Chats, Leave(c)
  PROVE  IInv'
PROOF
<1>0. Types /\ HoldInv /\ TurnInv /\ ChatInv(c)
  BY ChatStart
<1>1. over' = [over EXCEPT ![c] = "left"] /\ UNCHANGED <<pc, slot, queue, turn, turns, mine, chan, got>>
  BY DEF Leave, sessionVars
<1>2. over' \in [Chats -> Endings] /\ over'[c] = "left" /\ \A d \in Chats \ {c} : over'[d] = over[d]
  BY <1>0, <1>1 DEF Types, Endings
<1>3. Types'
  BY <1>0, <1>1, <1>2 DEF Types
<1>4. HoldInv' /\ TurnInv'
  BY <1>0, <1>1 DEF HoldInv, TurnInv
<1>5. ASSUME NEW d \in Chats PROVE ChatInv(d)'
  <2>1. CASE d = c
    BY <1>0, <1>1, <1>2, <2>1 DEF ChatInv
  <2>2. CASE d # c
    <3>1. ChatInv(d) /\ over'[d] = over[d]
      BY <1>2, <2>2 DEF IInv
    <3> QED BY <1>1, <3>1 DEF ChatInv
  <2> QED BY <2>1, <2>2
<1> QED BY <1>3, <1>4, <1>5 DEF IInv

(* Reading moves the head of a stream to what was read.                    *)
LEMMA HeadMoves ==
  ASSUME NEW g \in Seq(Int), NEW h \in Seq(Int), h # <<>>
  PROVE  /\ Append(g, Head(h)) \o Tail(h) = g \o h
         /\ Len(g) + 1 \in DOMAIN (g \o h) /\ (g \o h)[Len(g) + 1] = Head(h)
         /\ Len(g \o h) = Len(g) + Len(h) /\ Head(h) \in Int /\ Tail(h) \in Seq(Int)
         /\ \A i \in 1 .. Len(g) : (g \o h)[i] = g[i]
PROOF
<1>1. /\ Len(h) >= 1 /\ Head(h) = h[1] /\ Tail(h) \in Seq(Int) /\ Len(Tail(h)) = Len(h) - 1 /\ Head(h) \in Int
      /\ \A i \in 1 .. Len(h) - 1 : Tail(h)[i] = h[i + 1]
  OBVIOUS
<1>2. /\ g \o h \in Seq(Int) /\ Len(g \o h) = Len(g) + Len(h)
      /\ \A i \in 1 .. Len(g) + Len(h) : (g \o h)[i] = IF i <= Len(g) THEN g[i] ELSE h[i - Len(g)]
  OBVIOUS
<1>3. /\ Append(g, Head(h)) \in Seq(Int) /\ Len(Append(g, Head(h))) = Len(g) + 1
      /\ \A i \in 1 .. Len(g) : Append(g, Head(h))[i] = g[i]
      /\ Append(g, Head(h))[Len(g) + 1] = Head(h)
  BY <1>1
<1> DEFINE a == Append(g, Head(h))
           b == Tail(h)
<1>4. /\ a \o b \in Seq(Int) /\ Len(a \o b) = Len(g) + Len(h)
      /\ \A i \in 1 .. Len(g) + Len(h) : (a \o b)[i] = IF i <= Len(g) + 1 THEN a[i] ELSE b[i - (Len(g) + 1)]
  BY <1>1, <1>3
<1>5. \A i \in 1 .. Len(g) + Len(h) : (a \o b)[i] = (g \o h)[i]
  BY <1>1, <1>2, <1>3, <1>4
<1>6. a \o b = g \o h
  BY <1>2, <1>4, <1>5
<1>7. Len(g) + 1 \in DOMAIN (g \o h) /\ (g \o h)[Len(g) + 1] = Head(h)
  BY <1>1, <1>2
<1>8. \A i \in 1 .. Len(g) : (g \o h)[i] = g[i]
  BY <1>2
<1> QED BY <1>1, <1>2, <1>6, <1>7, <1>8

(* Sequences are equal when their elements are.                            *)
LEMMA SameSeq ==
  ASSUME NEW a \in Seq(Int), NEW b \in Seq(Int), Len(a) = Len(b), \A i \in 1 .. Len(b) : a[i] = b[i]
  PROVE  a = b
PROOF OBVIOUS

(* The client of a stream reads.                                           *)
LEMMA ReadKeeps ==
  ASSUME IInv, NEW c \in Chats, Read(c)
  PROVE  IInv'
PROOF
<1>0. /\ Types /\ HoldInv /\ TurnInv /\ ChatInv(c) /\ mine[c] \in ChatState
      /\ chan[c] \in Seq(Int) /\ got[c] \in Seq(Int) /\ mine[c].text \in Seq(Int)
  BY ChatStart
<1>1. /\ over[c] = "open" /\ chan[c] # <<>> /\ chan' = [chan EXCEPT ![c] = Tail(chan[c])]
      /\ UNCHANGED <<pc, slot, queue, turn, turns, mine>>
  BY DEF Read, sessionVars, chatVars
<1> DEFINE g == got[c]
           h == chan[c]
           t == mine[c].text
<1>2. /\ Append(g, Head(h)) \o Tail(h) = g \o h
      /\ Len(g) + 1 \in DOMAIN (g \o h) /\ (g \o h)[Len(g) + 1] = Head(h)
      /\ Len(g \o h) = Len(g) + Len(h) /\ Head(h) \in Int /\ Tail(h) \in Seq(Int)
  BY <1>0, <1>1, HeadMoves
<1>3. mine[c].stream
  BY <1>0, <1>1 DEF ChatInv
<1>4. chan' \in [Chats -> Seq(Int)] /\ chan'[c] = Tail(h) /\ \A d \in Chats \ {c} : chan'[d] = chan[d]
  BY <1>0, <1>1, <1>2 DEF Types
<1>5. Own(mine[c].turn, t)
  BY <1>0 DEF ChatInv
<1>6. ASSUME got' \in [Chats -> Seq(Int)], over' \in [Chats -> Endings],
             \A d \in Chats \ {c} : got'[d] = got[d] /\ over'[d] = over[d], ChatInv(c)'
      PROVE  IInv'
  <2>1. Types'
    BY <1>0, <1>1, <1>4, <1>6 DEF Types
  <2>2. HoldInv' /\ TurnInv'
    BY <1>0, <1>1 DEF HoldInv, TurnInv
  <2>3. ASSUME NEW d \in Chats PROVE ChatInv(d)'
    <3>1. CASE d = c
      BY <1>6, <3>1
    <3>2. CASE d # c
      <4>1. ChatInv(d) /\ over'[d] = over[d] /\ got'[d] = got[d] /\ chan'[d] = chan[d]
        BY <1>4, <1>6, <3>2 DEF IInv
      <4> QED BY <1>1, <4>1 DEF ChatInv
    <3> QED BY <3>1, <3>2
  <2> QED BY <2>1, <2>2, <2>3 DEF IInv
<1>7. CASE Head(h) # 0
  <2>1. got' = [got EXCEPT ![c] = Append(g, Head(h))] /\ UNCHANGED over
    BY <1>7 DEF Read
  <2>2. Append(g, Head(h)) \in Seq(Int)
    BY <1>0, <1>2
  <2>3. /\ got' \in [Chats -> Seq(Int)] /\ got'[c] = Append(g, Head(h))
        /\ \A d \in Chats \ {c} : got'[d] = got[d]
    BY <1>0, <2>1, <2>2 DEF Types
  <2>4. got'[c] \o chan'[c] = got[c] \o chan[c]
    BY <1>2, <1>4, <2>3
  <2>5. ChatInv(c)'
    BY <1>0, <1>1, <1>3, <2>1, <2>4 DEF ChatInv
  <2> QED BY <1>0, <1>6, <2>1, <2>3, <2>5 DEF Types
<1>8. CASE Head(h) = 0
  <2>1. over' = [over EXCEPT ![c] = Terminal(mine[c])] /\ UNCHANGED got
    BY <1>8 DEF Read
  <2>2. pc[c] = "idle"
    <3>1. SUFFICES ASSUME pc[c] # "idle" PROVE FALSE
      OBVIOUS
    <3>2. g \o h = t
      BY <1>0, <1>1, <1>3, <3>1 DEF ChatInv
    <3>3. Len(g) + 1 \in DOMAIN t /\ t[Len(g) + 1] = 0
      BY <1>2, <1>8, <3>2
    <3> QED BY <1>5, <3>3 DEF Own
  <2>3. g \o h = Append(t, 0) /\ (Terminal(mine[c]) = "ok" => t = mine[c].final)
    BY <1>0, <1>1, <1>3, <2>2 DEF ChatInv
  <2>4. /\ Append(t, 0) \in Seq(Int) /\ Len(Append(t, 0)) = Len(t) + 1
        /\ \A i \in 1 .. Len(t) : i \in DOMAIN t /\ Append(t, 0)[i] = t[i]
    BY <1>0
  <2>5. Append(t, 0)[Len(g) + 1] = 0 /\ Len(g) + 1 \in 1 .. Len(t) + 1
    <3>1. (g \o h)[Len(g) + 1] = 0 /\ Len(g) + 1 \in DOMAIN (g \o h)
      BY <1>2, <1>8
    <3>2. DOMAIN Append(t, 0) = 1 .. Len(t) + 1
      BY <2>4
    <3> HIDE DEF g, h, t
    <3> QED BY <2>3, <3>1, <3>2, Zenon
  <2>6. Len(g) = Len(t)
    <3>1. SUFFICES ASSUME Len(g) # Len(t) PROVE FALSE
      OBVIOUS
    <3>2. Len(g) + 1 \in 1 .. Len(t)
      BY <1>0, <2>5, <3>1
    <3>3. t[Len(g) + 1] = 0 /\ Len(g) + 1 \in DOMAIN t
      BY <2>4, <2>5, <3>2
    <3> QED BY <1>5, <3>3 DEF Own
  <2>7. \A i \in 1 .. Len(t) : g[i] = t[i]
    <3>1. \A i \in 1 .. Len(g) : (g \o h)[i] = g[i]
      BY <1>0, <1>1, HeadMoves
    <3> QED BY <2>3, <2>4, <2>6, <3>1
  <2>8. g = t
    <3>1. g \in Seq(Int) /\ t \in Seq(Int)
      BY <1>0
    <3> HIDE DEF g, t
    <3> QED BY <2>6, <2>7, <3>1, SameSeq
  <2>9. Terminal(mine[c]) \in Endings \ {"none", "open", "left"}
    BY <1>0 DEF Terminal, Endings, ChatState
  <2>10. over' \in [Chats -> Endings] /\ over'[c] = Terminal(mine[c]) /\ \A d \in Chats \ {c} : over'[d] = over[d]
    BY <1>0, <2>1, <2>9 DEF Types
  <2>11. Terminal(mine[c]) = "ok" => got[c] = mine[c].final /\ Own(mine[c].turn, mine[c].final)
    BY <1>5, <2>3, <2>8
  <2>12. ChatInv(c)'
    BY <1>0, <1>1, <1>3, <2>1, <2>2, <2>9, <2>10, <2>11 DEF ChatInv
  <2> QED BY <1>0, <1>6, <2>1, <2>10, <2>12 DEF Types
<1> QED BY <1>7, <1>8

(* A chat that ends before its turn, or whose turn is over.                *)
LEMMA EarlyEnd ==
  ASSUME IInv, NEW c \in Chats, NEW e, ChatEnds(c, e), pc[c] \in {"lock", "call"}, e # "ok",
         UNCHANGED <<chan, got, over, turns>>, turn' \in {0, turn}, queue' \in {queue, <<>>},
         (slot' = slot /\ slot # c) \/ (slot \in {"none", "idle", c} /\ slot' \in {"none", "idle"})
  PROVE  IInv'
PROOF
<1>0. /\ Types /\ turn \in Nat /\ turns \in Nat /\ mine[c].turn \in Nat
      /\ turn # 0 /\ mine[c].turn = turn => pc[c] \in {"turn", "stop"}
  BY ChatStart
<1>1. turn' = 0 \/ turn' # mine[c].turn
  BY <1>0
<1>2. \A i \in DOMAIN queue' : queue'[i].kind \in TerminalKinds =>
        queue'[i].id # turn' /\ queue'[i].id \in 1..turns'
  <2>1. turns' >= turns /\ turns' \in Nat /\ turn' \in Nat
    BY <1>0
  <2> QED BY <2>1, QueueKept
<1>3. queue' \in Seq(Notes)
  <2>1. <<>> \in Seq(Notes)
    OBVIOUS
  <2> QED BY <1>0, <2>1 DEF Types
<1>4. /\ pc' \in [Callers -> {"idle", "lock", "call", "store", "turn", "stop", "flush"}]
      /\ pc'[c] \in {"idle", "flush"} /\ \A d \in Callers \ {c} : pc'[d] = pc[d]
      /\ mine' \in [Chats -> ChatState] /\ mine'[c].turn = mine[c].turn
      /\ \A d \in Chats \ {c} : mine'[d] = mine[d]
      /\ ChatInv(c)'
  BY ChatEndsKeeps
<1> QED BY <1>1, <1>2, <1>3, <1>4, EndsKeep

(* A chat that keeps its state and goes on to another request.             *)
LEMMA Proceeds ==
  ASSUME IInv, NEW c \in Chats, NEW p \in {"lock", "call"}, pc' = [pc EXCEPT ![c] = p],
         pc[c] \in {"lock", "call"}, UNCHANGED <<mine, chan, got, over, turns>>, turn' \in {0, turn},
         queue' \in {queue, <<>>}, p = "call" <=> slot' = c,
         slot' = slot \/ (slot \in {"none", "idle", c} /\ slot' \in {"none", "idle", c})
  PROVE  IInv'
PROOF
<1>0. /\ Types /\ turn \in Nat /\ turns \in Nat /\ mine[c].turn \in Nat /\ mine[c] \in ChatState
      /\ turn # 0 /\ mine[c].turn = turn => pc[c] \in {"turn", "stop"}
      /\ mine[c].turn <= turns /\ ChatInv(c)
  BY ChatStart
<1>1. turn' # 0 /\ mine[c].turn = turn' => p \in {"turn", "stop"}
  BY <1>0
<1>2. \A i \in DOMAIN queue' : queue'[i].kind \in TerminalKinds =>
        queue'[i].id # turn' /\ queue'[i].id \in 1..turns'
  <2>1. turns' >= turns /\ turns' \in Nat /\ turn' \in Nat
    BY <1>0
  <2> QED BY <2>1, QueueKept
<1>3. queue' \in Seq(Notes)
  <2>1. <<>> \in Seq(Notes)
    OBVIOUS
  <2> QED BY <1>0, <2>1 DEF Types
<1>4. mine' = [mine EXCEPT ![c] = mine[c]]
  BY <1>0 DEF Types
<1>5. p \in Holding <=> slot' = c
  BY DEF Holding
<1>6. ASSUME pc'[c] = p PROVE ChatInv(c)'
  BY <1>0, <1>6 DEF ChatInv
<1>7. chan' \in [Chats -> Seq(Int)] /\ got' \in [Chats -> Seq(Int)] /\ over' \in [Chats -> Endings]
  BY <1>0 DEF Types
<1> QED BY <1>0, <1>1, <1>2, <1>3, <1>4, <1>5, <1>6, <1>7, ChatMoves

(* A chat waits for the session.                                           *)
LEMMA ChatLocks ==
  ASSUME IInv, NEW c \in Chats, Lock(c) \/ NoLock(c)
  PROVE  IInv'
PROOF
<1>0. c \notin {"none", "idle"} /\ (pc[c] \in Holding <=> slot = c)
  BY ChatStart
<1>1. pc[c] = "lock" /\ UNCHANGED <<chan, got, over, turns, turn>> /\ slot # c
  BY <1>0 DEF Lock, NoLock, streamVars, Holding
<1>2. CASE NoLock(c)
  <2>1. UNCHANGED <<slot, queue>>
    BY <1>2 DEF NoLock, sessionVars
  <2>2. ChatEnds(c, "TimedOut") \/ ChatEnds(c, "Interrupted")
    BY <1>2 DEF NoLock, OpFails, OpEnds
  <2> QED BY <1>1, <2>1, <2>2, EarlyEnd
<1>3. CASE Lock(c)
  <2>0. slot \in {"none", "idle"}
    BY <1>3 DEF Lock
  <2>1. CASE slot' = c /\ pc' = [pc EXCEPT ![c] = "call"] /\ UNCHANGED mine /\ queue' \in {queue, <<>>}
    BY <1>1, <2>0, <2>1, Proceeds
  <2>2. ASSUME NEW e, e # "ok", slot' = "none", ChatEnds(c, e), queue' = queue
        PROVE  IInv'
    BY <1>1, <2>0, <2>2, EarlyEnd
  <2>3. CASE slot = "idle"
    <3>1. slot' = c /\ pc' = [pc EXCEPT ![c] = "call"] /\ UNCHANGED <<mine, queue>>
      BY <1>3, <2>3 DEF Lock
    <3> QED BY <2>1, <3>1
  <2>4. CASE ensure_session(c)
    <3>1. CASE slot' = "none" /\ OpFails(c, "RuntimeUnavailable") /\ UNCHANGED queue
      BY <2>2, <3>1 DEF OpFails, OpEnds
    <3>2. CASE slot' = c /\ pc' = [pc EXCEPT ![c] = "call"] /\ UNCHANGED mine /\ queue' = <<>>
      BY <2>1, <3>2
    <3>3. CASE \E e \in {"RuntimeUnavailable", "InvalidConfiguration", "TimedOut"} :
                  slot' = "none" /\ OpFails(c, e) /\ UNCHANGED queue
      <4>1. PICK e \in {"RuntimeUnavailable", "InvalidConfiguration", "TimedOut"} :
                  slot' = "none" /\ OpFails(c, e) /\ UNCHANGED queue
        BY <3>3
      <4>2. ChatEnds(c, e) /\ e # "ok"
        BY <4>1 DEF OpFails, OpEnds
      <4> QED BY <2>2, <4>1, <4>2
    <3> QED BY <2>4, <3>1, <3>2, <3>3 DEF ensure_session
  <2> QED BY <1>3, <2>3, <2>4 DEF Lock
<1> QED BY <1>2, <1>3

(* An answer that is checked outside the session.                          *)
LEMMA ChatCalls ==
  ASSUME IInv, NEW c \in Chats, rpc(c)
  PROVE  IInv'
PROOF
<1>0. c \notin {"none", "idle"} /\ (pc[c] \in Holding <=> slot = c)
  BY ChatStart
<1>1. pc[c] = "call" /\ UNCHANGED <<chan, got, over, turns>>
  BY DEF rpc, streamVars
<1>2. slot = c
  BY <1>0, <1>1 DEF Holding
<1>3. slot' \in {"none", "idle"} /\ queue' = <<>> /\ turn' \in {0, turn}
  BY DEF rpc, Killed
<1>4. c \notin Controls
  BY CallersAreDistinct
<1>5. \/ ChatEnds(c, "Interrupted")
      \/ pc' = [pc EXCEPT ![c] = "lock"] /\ UNCHANGED mine
      \/ \E e : e # "ok" /\ ChatEnds(c, e)
  BY <1>4, Zenon DEF rpc, OpEnds
<1>6. CASE pc' = [pc EXCEPT ![c] = "lock"] /\ UNCHANGED mine
  <2>1. "lock" = "call" <=> slot' = c
    BY <1>0, <1>3
  <2> QED BY <1>1, <1>2, <1>3, <1>6, <2>1, Proceeds
<1>7. ASSUME NEW e, e # "ok", ChatEnds(c, e) PROVE IInv'
  BY <1>1, <1>2, <1>3, <1>7, EarlyEnd
<1> QED BY <1>5, <1>6, <1>7

(* An answer to a request of a chat.                                       *)
LEMMA ChatAnswers ==
  ASSUME IInv, NEW c \in Chats, ChatAnswer(c)
  PROVE  IInv'
PROOF
<1>0. /\ Types /\ HoldInv /\ TurnInv /\ ChatInv(c) /\ c \in Callers /\ c \notin {"none", "idle"}
      /\ mine[c] \in ChatState /\ mine[c].turn \in Nat /\ turn \in Nat /\ turns \in Nat
      /\ (pc[c] \in Holding <=> slot = c) /\ turn <= turns /\ mine[c].turn <= turns
      /\ (turn # 0 /\ mine[c].turn = turn => pc[c] \in {"turn", "stop"})
  BY ChatStart
<1>1. pc[c] = "call" /\ UNCHANGED <<chan, got, over>>
  BY DEF ChatAnswer, streamVars
<1>2. slot = c
  BY <1>0, <1>1 DEF Holding
<1> DEFINE next == turns + 1
<1>3. next \in Nat /\ next > turns /\ next # turn /\ next # mine[c].turn
  BY <1>0
<1>4. CASE UNCHANGED <<pc, slot, queue, turn, turns, mine>>
  <2>1. pc' = [pc EXCEPT ![c] = "call"]
    BY <1>0, <1>1, <1>4 DEF Types
  <2> QED BY <1>1, <1>2, <1>4, <2>1, Proceeds
<1>5. CASE /\ turns' = next /\ turn' = next /\ mine' = [mine EXCEPT ![c].turn = next]
           /\ pc' = [pc EXCEPT ![c] = "turn"] /\ UNCHANGED <<slot, queue>>
  <2> DEFINE m == [mine[c] EXCEPT !.turn = next]
  <2>1. mine' = [mine EXCEPT ![c] = m]
    BY <1>5
  <2>2. /\ m \in ChatState /\ m.turn = next /\ m.text = mine[c].text /\ m.final = mine[c].final
        /\ m.result = mine[c].result /\ m.stream = mine[c].stream
    BY <1>0, <1>3 DEF ChatState
  <2> HIDE DEF m, next
  <2>3. mine'[c] = m /\ mine' \in [Chats -> ChatState] /\ \A d \in Chats \ {c} : mine'[d] = mine[d]
    BY <1>0, <2>1, <2>2 DEF Types
  <2>4. /\ pc' \in [Callers -> {"idle", "lock", "call", "store", "turn", "stop", "flush"}]
        /\ pc'[c] = "turn" /\ \A d \in Callers \ {c} : pc'[d] = pc[d]
    BY <1>0, <1>5 DEF Types
  <2>5. Types'
    BY <1>0, <1>1, <1>3, <1>5, <2>3, <2>4 DEF Types
  <2>6. ChatInv(c)'
    <3>1. m.text = <<>> /\ m.final = Nil
      BY <1>0, <1>1, <2>2 DEF ChatInv
    <3>2. Own(m.turn, m.text)
      BY <3>1, OwnNothing, Zenon
    <3> QED BY <1>0, <1>1, <2>2, <2>3, <2>4, <3>1, <3>2 DEF ChatInv
  <2>7. turns' >= turns /\ turn' > turns /\ turn' <= turns' /\ turns' \in Nat /\ turn' \in Nat
    BY <1>0, <1>3, <1>5
  <2>8. \A i \in DOMAIN queue' : queue'[i].kind \in TerminalKinds =>
          queue'[i].id # turn' /\ queue'[i].id \in 1..turns'
    BY <1>5, <2>7, QueueKept
  <2>9. /\ mine'[c].turn <= turns'
        /\ pc'[c] \in {"turn", "stop"} => mine'[c].turn >= 1
        /\ turn' # 0 /\ mine'[c].turn = turn' => pc'[c] \in {"turn", "stop"}
    <3>1. mine'[c].turn = next /\ next >= 1 /\ next <= turns'
      BY <1>0, <1>3, <1>5, <2>2, <2>3
    <3> QED BY <2>4, <3>1
  <2>10. pc'[c] \in Holding <=> slot' = c
    BY <1>2, <1>5, <2>4 DEF Holding
  <2> QED BY <1>0, <1>1, <1>2, <1>5, <2>3, <2>4, <2>5, <2>6, <2>7, <2>8, <2>9, <2>10, StepKeeps
<1>6. ASSUME NEW e, e # "ok", Outcome(c, e), turns' = turns PROVE IInv'
  <2>1. slot' \in {"none", "idle"} /\ turn' \in {0, turn} /\ queue' \in {queue, <<>>}
    BY <1>6 DEF Outcome, Killed, Returned
  <2>2. ChatEnds(c, e)
    BY <1>6 DEF Outcome
  <2> QED BY <1>1, <1>2, <1>6, <2>1, <2>2, EarlyEnd
<1>7. CASE /\ turns' = next /\ slot' = "idle" /\ UNCHANGED <<queue, turn>>
           /\ ChatEnds(c, "InvalidRequest")
  <2> HIDE DEF next
  <2>1. turns' >= turns /\ turn' = turn /\ turns' \in Nat /\ turn' \in Nat
    BY <1>0, <1>3, <1>7
  <2>2. \A i \in DOMAIN queue' : queue'[i].kind \in TerminalKinds =>
          queue'[i].id # turn' /\ queue'[i].id \in 1..turns'
    BY <1>7, <2>1, QueueKept
  <2>3. /\ pc' \in [Callers -> {"idle", "lock", "call", "store", "turn", "stop", "flush"}]
        /\ pc'[c] \in {"idle", "flush"} /\ \A d \in Callers \ {c} : pc'[d] = pc[d]
        /\ mine' \in [Chats -> ChatState] /\ mine'[c].turn = mine[c].turn
        /\ \A d \in Chats \ {c} : mine'[d] = mine[d]
        /\ ChatInv(c)'
    <3>1. "InvalidRequest" # "ok"
      OBVIOUS
    <3> QED BY <1>1, <1>7, <3>1, ChatEndsKeeps
  <2>4. turns' = turns + 1 /\ (turn' = 0 \/ turn' # mine[c].turn)
    BY <1>0, <1>1, <1>7 DEF next
  <2>5. queue' \in Seq(Notes)
    BY <1>0, <1>7 DEF Types
  <2> QED BY <1>1, <1>2, <1>7, <2>1, <2>2, <2>3, <2>4, <2>5, EndsKeep
<1>8. \/ UNCHANGED <<pc, slot, queue, turn, turns, mine>>
      \/ /\ turns' = next /\ turn' = next /\ mine' = [mine EXCEPT ![c].turn = next]
         /\ pc' = [pc EXCEPT ![c] = "turn"] /\ UNCHANGED <<slot, queue>>
      \/ \E e \in ReadErrors \cup Refusals \cup Checks(op[c]) \cup QueueFull : Outcome(c, e) /\ turns' = turns
      \/ /\ turns' = next /\ slot' = "idle" /\ UNCHANGED <<queue, turn>>
         /\ ChatEnds(c, "InvalidRequest")
  BY Zenon DEF ChatAnswer
<1>9. \A e \in ReadErrors \cup Refusals \cup Checks(op[c]) \cup QueueFull : e # "ok"
  BY DEF ReadErrors, Refusals, Checks, QueueFull
<1> QED BY <1>4, <1>5, <1>6, <1>7, <1>8, <1>9

(* The helper's notifications are of turns it has started.                 *)
LEMMA NotesTyped ==
  ASSUME IInv, NEW n \in TurnNotes \cup LoginNotes \cup Benign, logins \in Nat
  PROVE  n \in Notes /\ (n.kind \in TerminalKinds => n.id \in 1..turns)
PROOF
<1>0. turns \in Nat
  BY DEF IInv, Types
<1>1. CASE n \in TurnNotes
  BY <1>0, <1>1 DEF TurnNotes, Note, Notes, NoteKinds, TerminalKinds
<1>2. CASE n \in LoginNotes
  BY <1>2 DEF LoginNotes, Note, Notes, NoteKinds, TerminalKinds
<1>3. CASE n \in Benign
  BY <1>3 DEF Benign, Note, Notes, NoteKinds, TerminalKinds
<1> QED BY <1>1, <1>2, <1>3

(* A notification that came before the answer is queued.                   *)
LEMMA QueueKeeps ==
  ASSUME IInv, logins \in Nat, NEW c \in Callers, NEW n \in TurnNotes \cup LoginNotes \cup Benign, Queue(c, n)
  PROVE  IInv'
PROOF
<1>0. Types /\ HoldInv /\ TurnInv /\ turn \in Nat /\ turns \in Nat /\ queue \in Seq(Notes)
  BY DEF IInv, Types
<1>1. n \in Notes /\ (n.kind \in TerminalKinds => n.id \in 1..turns)
  BY NotesTyped
<1>2. UNCHANGED <<pc, slot, turns, mine, chan, got, over>> /\ queue' = Append(queue, n)
  BY DEF Queue, streamVars
<1>3. turn' = IF n.kind \in TerminalKinds /\ n.id = turn THEN 0 ELSE turn
  BY DEF Queue, Sent, Ends, TerminalKinds
<1>4. turn' \in {0, turn} /\ turn' \in Nat /\ (n.kind \in TerminalKinds => n.id # turn')
  BY <1>0, <1>1, <1>3
<1>5. /\ queue' \in Seq(Notes) /\ DOMAIN queue' = 1 .. Len(queue) + 1 /\ queue'[Len(queue) + 1] = n
      /\ \A i \in 1 .. Len(queue) : i \in DOMAIN queue /\ queue'[i] = queue[i]
  BY <1>0, <1>1, <1>2
<1>6. ASSUME NEW i \in DOMAIN queue', queue'[i].kind \in TerminalKinds
      PROVE  queue'[i].id # turn' /\ queue'[i].id \in 1..turns'
  <2>1. CASE i = Len(queue) + 1
    BY <1>1, <1>2, <1>4, <1>5, <1>6, <2>1
  <2>2. CASE i # Len(queue) + 1
    <3>1. i \in 1 .. Len(queue)
      BY <1>0, <1>5, <2>2
    <3>2. queue'[i] = queue[i] /\ i \in DOMAIN queue
      BY <1>5, <3>1
    <3>3. queue[i].id # turn /\ queue[i].id \in 1..turns
      BY <1>0, <1>6, <3>2 DEF TurnInv
    <3> QED BY <1>0, <1>2, <1>4, <3>2, <3>3
  <2> QED BY <2>1, <2>2
<1>7. Types'
  BY <1>0, <1>2, <1>4, <1>5 DEF Types
<1>8. pc'[c] \in Holding <=> slot' = c
  BY <1>0, <1>2 DEF HoldInv
<1>9. pc'[c] \in {"turn", "stop", "flush"} => c \in Chats
  BY <1>0, <1>2 DEF HoldInv
<1>10. ASSUME c \in Chats
       PROVE  /\ mine'[c].turn <= turns'
              /\ pc'[c] \in {"turn", "stop"} => mine'[c].turn >= 1
              /\ turn' # 0 /\ mine'[c].turn = turn' => pc'[c] \in {"turn", "stop"}
              /\ ChatInv(c)'
  <2>1. ChatInv(c)
    BY <1>10 DEF IInv
  <2>2. ChatInv(c)'
    BY <1>2, <2>1 DEF ChatInv
  <2> QED BY <1>0, <1>2, <1>4, <1>10, <2>2 DEF TurnInv
<1>11. turns' >= turns /\ turn' <= turns'
  BY <1>0, <1>2, <1>4 DEF TurnInv
<1> QED BY <1>2, <1>4, <1>6, <1>7, <1>8, <1>9, <1>10, <1>11, StepKeeps

(* A turn is to be stopped.                                                *)
LEMMA InterruptedKeeps ==
  ASSUME IInv, NEW c \in Chats, NEW e, e # "ok", Interrupted(c, e), pc[c] = "turn",
         UNCHANGED <<chan, got, over, turns>>, turn' \in {0, turn}, queue' \in Seq(Notes),
         \A i \in DOMAIN queue' : queue'[i].kind \in TerminalKinds =>
           queue'[i].id # turn' /\ queue'[i].id \in 1..turns'
  PROVE  IInv'
PROOF
<1>0. /\ Types /\ ChatInv(c) /\ mine[c] \in ChatState /\ mine[c].turn <= turns
      /\ (pc[c] \in Holding <=> slot = c) /\ (pc[c] \in {"turn", "stop"} => mine[c].turn >= 1)
  BY ChatStart
<1>1. Class(e) \in {"fatal", "failed"}
  BY ClassOf
<1> DEFINE m == [mine[c] EXCEPT !.result = Class(e)]
<1>2. mine' = [mine EXCEPT ![c] = m] /\ pc' = [pc EXCEPT ![c] = "stop"] /\ slot' = slot
  BY DEF Interrupted
<1>3. /\ m \in ChatState /\ m.turn = mine[c].turn /\ m.text = mine[c].text /\ m.final = mine[c].final
      /\ m.result = Class(e) /\ m.stream = mine[c].stream
  BY <1>0, <1>1 DEF ChatState
<1> HIDE DEF m
<1>4. ASSUME pc'[c] = "stop", mine'[c] = m PROVE ChatInv(c)'
  BY <1>0, <1>1, <1>3, <1>4 DEF ChatInv
<1>5. chan' \in [Chats -> Seq(Int)] /\ got' \in [Chats -> Seq(Int)] /\ over' \in [Chats -> Endings]
  BY <1>0 DEF Types
<1>6. "stop" \in Holding <=> slot' = c
  BY <1>0, <1>2 DEF Holding
<1>7. m.turn <= turns /\ m.turn >= 1
  BY <1>0, <1>3
<1> QED BY <1>2, <1>3, <1>4, <1>5, <1>6, <1>7, ChatMoves

(* A turn is cancelled, or nothing readable comes.                         *)
LEMMA TurnStopsKeeps ==
  ASSUME IInv, NEW c \in Chats, TurnStops(c)
  PROVE  IInv'
PROOF
<1>0. Types /\ turn \in Nat /\ turns \in Nat
  BY ChatStart
<1>1. pc[c] = "turn" /\ UNCHANGED <<chan, got, over, turns, turn, queue>>
  BY DEF TurnStops, streamVars
<1>2. PICK e \in ReadErrors \cup {"Interrupted"} : Interrupted(c, e)
  BY DEF TurnStops
<1>3. e # "ok"
  BY DEF ReadErrors
<1>4. queue' \in Seq(Notes)
  BY <1>0, <1>1 DEF Types
<1>5. \A i \in DOMAIN queue' : queue'[i].kind \in TerminalKinds =>
        queue'[i].id # turn' /\ queue'[i].id \in 1..turns'
  BY <1>0, <1>1, QueueKept
<1> QED BY <1>1, <1>2, <1>3, <1>4, <1>5, InterruptedKeeps

(* A stopped turn is over before the session is put back.                  *)
LEMMA StopKeeps ==
  ASSUME IInv, NEW c \in Chats, interrupt_turn_and_confirm(c)
  PROVE  IInv'
PROOF
<1>0. /\ Types /\ mine[c].turn \in Nat /\ (pc[c] \in Holding <=> slot = c) /\ turns \in Nat
  BY ChatStart
<1>1. pc[c] = "stop" /\ Stopped(c) /\ UNCHANGED <<chan, got, over, turns>>
  BY DEF interrupt_turn_and_confirm, streamVars
<1>2. /\ slot' \in {"none", "idle"} /\ turn' = 0
      /\ queue' = <<>> \/ queue' = <<Note("delta", mine[c].turn)>>
  BY DEF interrupt_turn_and_confirm, Killed
<1>3. slot = c
  BY <1>0, <1>1 DEF Holding
<1>4. /\ queue' \in Seq(Notes)
      /\ \A i \in DOMAIN queue' : queue'[i].kind \in TerminalKinds =>
           queue'[i].id # turn' /\ queue'[i].id \in 1..turns'
  <2>1. CASE queue' = <<>>
    <3>1. <<>> \in Seq(Notes) /\ DOMAIN <<>> = {}
      OBVIOUS
    <3> QED BY <2>1, <3>1
  <2>2. CASE queue' = <<Note("delta", mine[c].turn)>>
    <3> DEFINE n == Note("delta", mine[c].turn)
    <3>1. n \in Notes /\ n.kind = "delta"
      BY <1>0 DEF Note, Notes, NoteKinds
    <3> HIDE DEF n
    <3>2. <<n>> \in Seq(Notes) /\ DOMAIN <<n>> = {1} /\ <<n>>[1] = n
      BY <3>1
    <3>3. queue' = <<n>>
      BY <2>2 DEF n
    <3> QED BY <3>1, <3>2, <3>3 DEF TerminalKinds
  <2> QED BY <1>2, <2>1, <2>2
<1>5. /\ pc' \in [Callers -> {"idle", "lock", "call", "store", "turn", "stop", "flush"}]
      /\ pc'[c] \in {"idle", "flush"} /\ \A d \in Callers \ {c} : pc'[d] = pc[d]
      /\ mine' \in [Chats -> ChatState] /\ mine'[c].turn = mine[c].turn
      /\ \A d \in Chats \ {c} : mine'[d] = mine[d]
      /\ ChatInv(c)'
  BY <1>1, StoppedKeeps
<1> QED BY <1>1, <1>2, <1>3, <1>4, <1>5, EndsKeep

(* The elements of a sequence with one more.                               *)
LEMMA AppendAt ==
  ASSUME NEW h \in Seq(Int), NEW x \in Int
  PROVE  /\ Append(h, x) \in Seq(Int) /\ Len(Append(h, x)) = Len(h) + 1 /\ Append(h, x)[Len(h) + 1] = x
         /\ \A i \in 1 .. Len(h) : Append(h, x)[i] = h[i]
PROOF OBVIOUS

(* The elements of two sequences, one after the other.                     *)
LEMMA CatAt ==
  ASSUME NEW g \in Seq(Int), NEW h \in Seq(Int)
  PROVE  /\ g \o h \in Seq(Int) /\ Len(g \o h) = Len(g) + Len(h)
         /\ \A i \in 1 .. Len(g) + Len(h) : (g \o h)[i] = IF i <= Len(g) THEN g[i] ELSE h[i - Len(g)]
PROOF OBVIOUS

(* One more piece of a stream.                                             *)
LEMMA AppendMoves ==
  ASSUME NEW g \in Seq(Int), NEW h \in Seq(Int), NEW x \in Int
  PROVE  g \o Append(h, x) = Append(g \o h, x) /\ Append(h, x) \in Seq(Int)
PROOF
<1>1. /\ Append(h, x) \in Seq(Int) /\ Len(Append(h, x)) = Len(h) + 1 /\ Append(h, x)[Len(h) + 1] = x
      /\ \A i \in 1 .. Len(h) : Append(h, x)[i] = h[i]
  BY AppendAt
<1>2. /\ g \o h \in Seq(Int) /\ Len(g \o h) = Len(g) + Len(h)
      /\ \A i \in 1 .. Len(g) + Len(h) : (g \o h)[i] = IF i <= Len(g) THEN g[i] ELSE h[i - Len(g)]
  BY CatAt
<1> DEFINE a == Append(h, x)
           k == g \o h
<1>3. a \in Seq(Int) /\ k \in Seq(Int) /\ Len(a) = Len(h) + 1 /\ Len(k) = Len(g) + Len(h)
  BY <1>1, <1>2
<1>b. Len(g) + (Len(h) + 1) = Len(g) + Len(h) + 1
  OBVIOUS
<1> HIDE DEF a, k
<1>4. /\ g \o a \in Seq(Int) /\ Len(g \o a) = Len(g) + Len(h) + 1
      /\ \A i \in 1 .. Len(g) + Len(h) + 1 : (g \o a)[i] = IF i <= Len(g) THEN g[i] ELSE a[i - Len(g)]
  <2>1. /\ g \o a \in Seq(Int) /\ Len(g \o a) = Len(g) + Len(a)
        /\ \A i \in 1 .. Len(g) + Len(a) : (g \o a)[i] = IF i <= Len(g) THEN g[i] ELSE a[i - Len(g)]
    BY <1>3, CatAt
  <2>2. Len(g) + Len(a) = Len(g) + Len(h) + 1
    BY <1>3, <1>b
  <2> QED BY <2>1, <2>2, Zenon
<1>5. /\ Append(k, x) \in Seq(Int) /\ Len(Append(k, x)) = Len(g) + Len(h) + 1
      /\ Append(k, x)[Len(g) + Len(h) + 1] = x /\ \A i \in 1 .. Len(g) + Len(h) : Append(k, x)[i] = k[i]
  <2>1. /\ Append(k, x) \in Seq(Int) /\ Len(Append(k, x)) = Len(k) + 1 /\ Append(k, x)[Len(k) + 1] = x
        /\ \A i \in 1 .. Len(k) : Append(k, x)[i] = k[i]
    BY <1>3, AppendAt
  <2> QED BY <1>3, <2>1, Zenon
<1>6. ASSUME NEW i \in 1 .. Len(g) + Len(h) + 1 PROVE (g \o a)[i] = Append(k, x)[i]
  <2>0. Len(g) \in Nat /\ Len(h) \in Nat
    OBVIOUS
  <2>1. CASE i = Len(g) + Len(h) + 1
    <3>1. i - Len(g) = Len(h) + 1 /\ ~(i <= Len(g))
      BY <2>0, <2>1
    <3>2. a[Len(h) + 1] = x
      BY <1>1 DEF a
    <3> QED BY <1>4, <1>5, <2>1, <3>1, <3>2
  <2>2. CASE i <= Len(g)
    <3>1. i \in 1 .. Len(g) + Len(h)
      BY <2>0, <2>2
    <3>2. k[i] = g[i]
      BY <1>2, <2>2, <3>1 DEF k
    <3> QED BY <1>4, <1>5, <2>2, <3>1, <3>2
  <2>3. CASE i > Len(g) /\ i # Len(g) + Len(h) + 1
    <3>1. i \in 1 .. Len(g) + Len(h) /\ i - Len(g) \in 1 .. Len(h) /\ ~(i <= Len(g))
      BY <2>0, <2>3
    <3>2. k[i] = h[i - Len(g)]
      BY <1>2, <3>1 DEF k
    <3>3. a[i - Len(g)] = h[i - Len(g)]
      BY <1>1, <3>1 DEF a
    <3> QED BY <1>4, <1>5, <3>1, <3>2, <3>3
  <2>4. i <= Len(g) \/ i > Len(g)
    BY <2>0
  <2> QED BY <2>1, <2>2, <2>3, <2>4, Zenon
<1>7. g \o a = Append(k, x)
  BY <1>4, <1>5, <1>6, SameSeq
<1> QED BY <1>1, <1>7 DEF a, k

(* A piece of the turn keeps a text the turn's own.                        *)
LEMMA OwnAppend ==
  ASSUME NEW t \in Int, NEW s \in Seq(Int), Own(t, s), NEW x \in Int, x # 0, x \in {t, -t}
  PROVE  Own(t, Append(s, x))
PROOF
<1>1. /\ DOMAIN Append(s, x) = 1 .. Len(s) + 1 /\ Append(s, x)[Len(s) + 1] = x
      /\ \A i \in 1 .. Len(s) : i \in DOMAIN s /\ Append(s, x)[i] = s[i]
  OBVIOUS
<1>2. ASSUME NEW i \in 1 .. Len(s) + 1 PROVE Append(s, x)[i] # 0 /\ Append(s, x)[i] \in {t, -t}
  <2>1. CASE i = Len(s) + 1
    BY <1>1, <2>1
  <2>2. CASE i # Len(s) + 1
    <3>1. i \in 1 .. Len(s)
      BY <2>2
    <3> QED BY <1>1, <3>1 DEF Own
  <2> QED BY <2>1, <2>2
<1> QED BY <1>1, <1>2 DEF Own

(* What is left of the finished text after what was streamed.              *)
LEMMA RestOf ==
  ASSUME NEW t \in Seq(Int), NEW f \in Seq(Int), Prefix(t, f), NEW r, r = SubSeq(f, Len(t) + 1, Len(f))
  PROVE  /\ r # <<>> => Len(t) + 1 \in DOMAIN f /\ Head(r) = f[Len(t) + 1]
         /\ r = <<>> => t = f
PROOF
<1>1. Len(t) <= Len(f) /\ SubSeq(f, 1, Len(t)) = t
  BY DEF Prefix
<1>2. CASE Len(t) < Len(f)
  <2>1. /\ Len(SubSeq(f, Len(t) + 1, Len(f))) = Len(f) - Len(t)
        /\ SubSeq(f, Len(t) + 1, Len(f))[1] = f[Len(t) + 1]
    BY <1>2
  <2>2. Len(<<>>) = 0
    OBVIOUS
  <2>3. r # <<>>
    <3>1. Len(r) = Len(f) - Len(t) /\ Len(f) - Len(t) # 0
      BY <1>2, <2>1
    <3> QED BY <2>2, <3>1, Zenon
  <2>4. r \in Seq(Int) /\ Head(r) = r[1]
    BY <1>2, <2>3
  <2> QED BY <1>2, <2>1, <2>3, <2>4
<1>3. CASE Len(t) = Len(f)
  <2>1. \A i \in 1 .. Len(f) : SubSeq(f, 1, Len(f))[i] = f[i]
    OBVIOUS
  <2>2. t = f
    BY <1>1, <1>3, <2>1, SameSeq
  <2>3. r = <<>>
    BY <1>3
  <2> QED BY <2>2, <2>3, Zenon
<1>4. Len(t) < Len(f) \/ Len(t) = Len(f)
  BY <1>1
<1> QED BY <1>2, <1>3, <1>4, Zenon

(* The worker of a stream passes the rest of the text and its end on.      *)
LEMMA FlushKeeps ==
  ASSUME IInv, NEW c \in Chats, Flush(c)
  PROVE  IInv'
PROOF
<1>0. /\ Types /\ ChatInv(c) /\ mine[c] \in ChatState /\ mine[c].turn \in Nat /\ turn \in Nat /\ turns \in Nat
      /\ chan[c] \in Seq(Int) /\ got[c] \in Seq(Int) /\ mine[c].text \in Seq(Int)
      /\ (pc[c] \in Holding <=> slot = c) /\ mine[c].turn <= turns
      /\ (turn # 0 /\ mine[c].turn = turn => pc[c] \in {"turn", "stop"})
  BY ChatStart
<1>1. pc[c] = "flush" /\ UNCHANGED <<slot, queue, turn, turns, got, over>>
  BY DEF Flush, sessionVars
<1>2. slot # c /\ ~(turn # 0 /\ mine[c].turn = turn) /\ mine[c].stream /\ over[c] # "ok"
  BY <1>0, <1>1 DEF Holding, ChatInv
<1> DEFINE t == mine[c].text
           f == mine[c].final
           rest == IF Terminal(mine[c]) = "ok" THEN SubSeq(f, Len(t) + 1, Len(f)) ELSE <<>>
<1>3. \A i \in DOMAIN queue' : queue'[i].kind \in TerminalKinds =>
        queue'[i].id # turn' /\ queue'[i].id \in 1..turns'
  BY <1>0, <1>1, QueueKept
<1>4. queue' \in Seq(Notes) /\ got' \in [Chats -> Seq(Int)] /\ over' \in [Chats -> Endings]
  BY <1>0, <1>1 DEF Types
<1>5. ASSUME NEW p \in {"flush", "idle"}, pc' = [pc EXCEPT ![c] = p], NEW m \in ChatState,
             mine' = [mine EXCEPT ![c] = m], m.turn = mine[c].turn,
             NEW s \in Seq(Int), chan' = [chan EXCEPT ![c] = s],
             pc'[c] = p /\ mine'[c] = m /\ chan'[c] = s => ChatInv(c)'
      PROVE  IInv'
  <2>1. chan' \in [Chats -> Seq(Int)] /\ chan'[c] = s /\ \A d \in Chats \ {c} : chan'[d] = chan[d]
    BY <1>0, <1>5 DEF Types
  <2>2. p \in Holding <=> slot' = c
    BY <1>1, <1>2, <1>5 DEF Holding
  <2>3. m.turn <= turns /\ ~(turn' # 0 /\ m.turn = turn')
    BY <1>0, <1>1, <1>2, <1>5
  <2>4. p \notin {"turn", "stop"} /\ p \in {"lock", "call", "turn", "stop", "flush", "idle"}
    BY <1>5
  <2>5. pc'[c] = p /\ mine'[c] = m => ChatInv(c)'
    BY <1>5, <2>1
  <2> QED BY <1>1, <1>3, <1>4, <1>5, <2>1, <2>2, <2>3, <2>4, <2>5, ChatMoves
<1>6. CASE over[c] = "left" /\ Finish(c) /\ UNCHANGED <<chan, mine>>
  <2>1. mine' = [mine EXCEPT ![c] = mine[c]] /\ chan' = [chan EXCEPT ![c] = chan[c]]
        /\ pc' = [pc EXCEPT ![c] = "idle"]
    BY <1>0, <1>6 DEF Types, Finish
  <2>2. ASSUME pc'[c] = "idle" PROVE ChatInv(c)'
    BY <1>0, <1>1, <1>6, <2>2 DEF ChatInv
  <2> QED BY <1>0, <1>5, <2>1, <2>2
<1>7. Own(mine[c].turn, t) /\ (over[c] = "open" => got[c] \o chan[c] = t)
  BY <1>0, <1>1, <1>2 DEF ChatInv
<1>8. ASSUME Terminal(mine[c]) = "ok"
      PROVE  /\ f \in Seq(Int) /\ Prefix(t, f) /\ Own(mine[c].turn, f)
             /\ rest = SubSeq(f, Len(t) + 1, Len(f))
  <2>1. mine[c].result = "ok" /\ Prefix(t, f)
    BY <1>8, <1>0 DEF Terminal, ChatState
  <2>2. f # Nil /\ Own(mine[c].turn, f)
    BY <1>0, <2>1 DEF ChatInv
  <2>3. f \in Seq(Int)
    BY <1>0, <2>2 DEF ChatState
  <2> QED BY <1>8, <2>1, <2>2, <2>3
<1>9. CASE /\ rest # <<>> /\ chan' = [chan EXCEPT ![c] = Append(chan[c], Head(rest))]
           /\ mine' = [mine EXCEPT ![c].text = Append(t, Head(rest))] /\ UNCHANGED pc
  <2> DEFINE x == Head(rest)
             s == Append(chan[c], x)
             u == Append(t, x)
             m == [mine[c] EXCEPT !.text = u]
  <2>1. Terminal(mine[c]) = "ok"
    BY <1>9
  <2>2. Len(t) + 1 \in DOMAIN f /\ x = f[Len(t) + 1]
    <3>1. t \in Seq(Int) /\ f \in Seq(Int) /\ Prefix(t, f) /\ rest = SubSeq(f, Len(t) + 1, Len(f)) /\ rest # <<>>
      BY <1>0, <1>8, <1>9, <2>1
    <3> HIDE DEF t, f, rest
    <3> QED BY <3>1, RestOf
  <2>3. x \in Int /\ x # 0 /\ x \in {mine[c].turn, -mine[c].turn}
    <3>1. f \in Seq(Int) /\ Own(mine[c].turn, f)
      BY <1>8, <2>1
    <3> HIDE DEF t, f, x
    <3> QED BY <2>2, <3>1 DEF Own
  <2>4. mine' = [mine EXCEPT ![c] = m] /\ chan' = [chan EXCEPT ![c] = s] /\ pc' = [pc EXCEPT ![c] = "flush"]
    BY <1>0, <1>1, <1>9 DEF Types
  <2> HIDE DEF x
  <2>5. u \in Seq(Int) /\ s \in Seq(Int)
    BY <1>0, <2>3
  <2>6. /\ m \in ChatState /\ m.turn = mine[c].turn /\ m.text = u /\ m.final = f
        /\ m.result = mine[c].result /\ m.stream = mine[c].stream
    <3> HIDE DEF u
    <3> QED BY <1>0, <2>5 DEF ChatState
  <2>7. Own(m.turn, u)
    <3>1. Own(mine[c].turn, t) /\ mine[c].turn \in Int /\ t \in Seq(Int)
      BY <1>0, <1>7
    <3> HIDE DEF t
    <3>2. Own(mine[c].turn, Append(t, x))
      BY <2>3, <3>1, OwnAppend
    <3> QED BY <2>6, <3>2, Zenon
  <2>8. over[c] = "open" => got[c] \o s = u
    <3>1. got[c] \o s = Append(got[c] \o chan[c], x)
      BY <1>0, <2>3, AppendMoves
    <3> QED BY <1>7, <3>1, Zenon
  <2> HIDE DEF m, s, u
  <2>9. ASSUME pc'[c] = "flush", mine'[c] = m, chan'[c] = s PROVE ChatInv(c)'
    BY <1>0, <1>1, <1>2, <2>6, <2>7, <2>8, <2>9 DEF ChatInv
  <2> QED BY <1>5, <2>4, <2>5, <2>6, <2>9
<1>10. CASE rest = <<>> /\ chan' = [chan EXCEPT ![c] = Append(chan[c], 0)] /\ Finish(c) /\ UNCHANGED mine
  <2> DEFINE s == Append(chan[c], 0)
  <2>1. mine' = [mine EXCEPT ![c] = mine[c]] /\ chan' = [chan EXCEPT ![c] = s]
        /\ pc' = [pc EXCEPT ![c] = "idle"]
    BY <1>0, <1>10 DEF Types, Finish
  <2>2. s \in Seq(Int) /\ got[c] \o s = Append(got[c] \o chan[c], 0)
    <3>1. 0 \in Int
      OBVIOUS
    <3> QED BY <1>0, <3>1, AppendMoves
  <2>3. Terminal(mine[c]) = "ok" => t = f
    <3>1. SUFFICES ASSUME Terminal(mine[c]) = "ok" PROVE t = f
      OBVIOUS
    <3>2. t \in Seq(Int) /\ f \in Seq(Int) /\ Prefix(t, f) /\ rest = SubSeq(f, Len(t) + 1, Len(f)) /\ rest = <<>>
      BY <1>0, <1>8, <1>10, <3>1
    <3> HIDE DEF t, f, rest
    <3> QED BY <3>2, RestOf
  <2>4. over[c] = "open" => got[c] \o s = Append(t, 0)
    BY <1>7, <2>2, Zenon
  <2> HIDE DEF s
  <2>5. ASSUME pc'[c] = "idle", mine'[c] = mine[c], chan'[c] = s PROVE ChatInv(c)'
    BY <1>0, <1>1, <1>2, <2>3, <2>4, <2>5 DEF ChatInv
  <2> QED BY <1>0, <1>5, <2>1, <2>2, <2>5
<1> QED BY <1>6, <1>9, <1>10 DEF Flush

(* What a turn's loop reads, from the queue or from the helper: a note     *)
(* that ends the chat's own turn comes when the turn is over.              *)
LEMMA NoteTaken ==
  ASSUME IInv, logins \in Nat, NEW c \in Chats, NEW n \in TurnNotes \cup LoginNotes \cup Benign, TurnStep(c, n)
  PROVE  /\ n \in Notes /\ turn' \in {0, turn} /\ queue' \in Seq(Notes)
         /\ n.kind \in TerminalKinds /\ n.id = mine[c].turn => turn' = 0 \/ turn' # mine[c].turn
         /\ \A i \in DOMAIN queue' : queue'[i].kind \in TerminalKinds =>
              queue'[i].id # turn' /\ queue'[i].id \in 1..turns'
PROOF
<1>0. Types /\ TurnInv /\ turn \in Nat /\ turns \in Nat /\ queue \in Seq(Notes) /\ mine[c].turn \in Nat
  BY ChatStart DEF Types
<1>1. n \in Notes /\ turns' = turns
  BY NotesTyped DEF TurnStep
<1>2. CASE queue # <<>> /\ n = Head(queue) /\ queue' = Tail(queue) /\ turn' = turn
  <2>1. /\ n = queue[1] /\ 1 \in DOMAIN queue /\ queue' \in Seq(Notes)
        /\ \A i \in DOMAIN queue' : i + 1 \in DOMAIN queue /\ queue'[i] = queue[i + 1]
    BY <1>0, <1>2
  <2>2. \A i \in DOMAIN queue : queue[i].kind \in TerminalKinds => queue[i].id # turn /\ queue[i].id \in 1..turns
    BY <1>0 DEF TurnInv
  <2>3. n.kind \in TerminalKinds => n.id # turn
    BY <2>1, <2>2
  <2>4. \A i \in DOMAIN queue' : queue'[i].kind \in TerminalKinds =>
          queue'[i].id # turn' /\ queue'[i].id \in 1..turns'
    BY <1>1, <1>2, <2>1, <2>2
  <2> QED BY <1>1, <1>2, <2>1, <2>3, <2>4
<1>3. CASE queue = <<>> /\ turn' = Sent(n) /\ queue' = queue
  <2>1. turn' = IF n.kind \in TerminalKinds /\ n.id = turn THEN 0 ELSE turn
    BY <1>3 DEF Sent, Ends, TerminalKinds
  <2>2. \A i \in DOMAIN queue' : queue'[i].kind \in TerminalKinds =>
          queue'[i].id # turn' /\ queue'[i].id \in 1..turns'
    <3>1. DOMAIN <<>> = {}
      OBVIOUS
    <3> QED BY <1>3, <3>1
  <2> QED BY <1>0, <1>1, <1>3, <2>1, <2>2
<1> QED BY <1>2, <1>3 DEF TurnStep

(* What a notification does to the chat whose turn it reaches.             *)
LEMMA NoteHandled ==
  ASSUME IInv, NEW c \in Chats, NEW n \in Notes, HandleNote(c, n)
  PROVE  \/ UNCHANGED <<pc, slot, mine, chan>>
         \/ UNCHANGED chan /\ \E e : e # "ok" /\ Interrupted(c, e)
         \/ /\ n.id = mine[c].turn /\ mine' = [mine EXCEPT ![c].text = Append(mine[c].text, n.id)]
            /\ chan' = IF mine[c].stream THEN [chan EXCEPT ![c] = Append(chan[c], n.id)] ELSE chan
            /\ UNCHANGED <<pc, slot>>
         \/ /\ n.id = mine[c].turn /\ UNCHANGED <<chan, pc, slot>>
            /\ \E text \in {mine[c].text, Append(mine[c].text, n.id), <<-n.id>>} :
                  mine' = [mine EXCEPT ![c].final = text] /\ text # <<>>
         \/ /\ n.kind \in TerminalKinds /\ n.id = mine[c].turn /\ UNCHANGED chan
            /\ slot' \in {"none", "idle"}
            /\ \E e : (e = "ok" => mine[c].final # Nil) /\ ChatEnds(c, e)
PROOF
<1>1. CASE n.kind = "delta" /\ Delta(c, n)
  <2>1. on_event(c) # "ok"
    BY DEF on_event
  <2>2. \/ \E e \in {"CorrelationFailed", "ResponseTooLarge", on_event(c)} : Interrupted(c, e) /\ UNCHANGED chan
        \/ /\ n.id = mine[c].turn /\ mine' = [mine EXCEPT ![c].text = Append(mine[c].text, n.id)]
           /\ chan' = IF mine[c].stream THEN [chan EXCEPT ![c] = Append(chan[c], n.id)] ELSE chan
           /\ UNCHANGED <<pc, slot>>
    BY <1>1, Zenon DEF Delta
  <2> QED BY <2>1, <2>2
<1>2. CASE n.kind = "item" /\ Item(c, n)
  <2>1. CASE n.id # mine[c].turn
    BY <1>2, <2>1 DEF Item
  <2>2. CASE n.id = mine[c].turn
    BY <1>2, <2>2 DEF Item
  <2> QED BY <2>1, <2>2
<1>3. CASE n.kind \in TerminalKinds /\ Completed(c, n)
  <2>1. CASE n.id # mine[c].turn
    BY <1>3, <2>1 DEF Completed
  <2>2. CASE n.id = mine[c].turn
    <3> DEFINE result == CASE n.kind = "interrupted" -> "Interrupted"
                           [] n.kind = "turn_failed" -> "TurnFailed"
                           [] OTHER -> IF mine[c].final = Nil THEN "MalformedProtocol" ELSE "ok"
    <3>1. ChatEnds(c, result) /\ UNCHANGED chan /\ slot' \in {"none", "idle"}
      BY <1>3, <2>2 DEF Completed
    <3>2. result = "ok" => mine[c].final # Nil
      BY <1>3 DEF TerminalKinds
    <3> HIDE DEF result
    <3> QED BY <1>3, <2>2, <3>1, <3>2
  <2> QED BY <2>1, <2>2
<1>4. CASE /\ UNCHANGED chan
           /\ \E e \in {"ForbiddenAction", "CorrelationFailed"} : Interrupted(c, e)
  BY <1>4
<1>5. CASE LET l == apply_notification(Login, n)
           IN  /\ UNCHANGED chan
               /\ IF l.error # "" THEN Interrupted(c, l.error)
                  ELSE UNCHANGED <<pc, slot, active, control, mine>>
  <2> DEFINE l == apply_notification(Login, n)
  <2>1. l.error # "ok"
    BY DEF apply_notification, Login
  <2> HIDE DEF l
  <2>2. UNCHANGED chan /\ (Interrupted(c, l.error) \/ UNCHANGED <<pc, slot, mine>>)
    BY <1>5 DEF l
  <2> QED BY <2>1, <2>2
<1>6. CASE UNCHANGED <<pc, slot, active, control, mine, chan>>
  BY <1>6
<1> QED BY <1>1, <1>2, <1>3, <1>4, <1>5, <1>6, Zenon DEF HandleNote, TerminalKinds

(* A chat's loop over the notifications of its turn.                       *)
LEMMA TurnStepKeeps ==
  ASSUME IInv, logins \in Nat, NEW c \in Chats, NEW n \in TurnNotes \cup LoginNotes \cup Benign, TurnStep(c, n)
  PROVE  IInv'
PROOF
<1>0. /\ Types /\ ChatInv(c) /\ c \in Callers /\ mine[c] \in ChatState /\ mine[c].turn \in Nat
      /\ turn \in Nat /\ turns \in Nat /\ chan[c] \in Seq(Int) /\ got[c] \in Seq(Int)
      /\ mine[c].text \in Seq(Int) /\ (pc[c] \in Holding <=> slot = c) /\ mine[c].turn <= turns
      /\ (pc[c] \in {"turn", "stop"} => mine[c].turn >= 1)
  BY ChatStart
<1>1. /\ n \in Notes /\ turn' \in {0, turn} /\ queue' \in Seq(Notes)
      /\ n.kind \in TerminalKinds /\ n.id = mine[c].turn => turn' = 0 \/ turn' # mine[c].turn
  BY NoteTaken
<1>2. \A i \in DOMAIN queue' : queue'[i].kind \in TerminalKinds =>
        queue'[i].id # turn' /\ queue'[i].id \in 1..turns'
  BY NoteTaken
<1>3. pc[c] = "turn" /\ HandleNote(c, n) /\ UNCHANGED <<turns, got, over>>
  BY DEF TurnStep
<1>4. slot = c /\ mine[c].turn >= 1
  BY <1>0, <1>3 DEF Holding
<1>5. got' \in [Chats -> Seq(Int)] /\ over' \in [Chats -> Endings]
  BY <1>0, <1>3 DEF Types
<1>6. ASSUME NEW m \in ChatState, mine' = [mine EXCEPT ![c] = m], m.turn = mine[c].turn, UNCHANGED <<pc, slot>>,
             NEW s \in Seq(Int), chan' = [chan EXCEPT ![c] = s],
             pc'[c] = "turn" /\ mine'[c] = m /\ chan'[c] = s => ChatInv(c)'
      PROVE  IInv'
  <2>1. chan' \in [Chats -> Seq(Int)] /\ chan'[c] = s /\ \A d \in Chats \ {c} : chan'[d] = chan[d]
    BY <1>0, <1>6 DEF Types
  <2>2. pc' = [pc EXCEPT ![c] = "turn"]
    BY <1>0, <1>3, <1>6 DEF Types
  <2>3. "turn" \in Holding <=> slot' = c
    BY <1>4, <1>6 DEF Holding
  <2>4. m.turn <= turns /\ m.turn >= 1
    BY <1>0, <1>4, <1>6
  <2>5. pc'[c] = "turn" /\ mine'[c] = m => ChatInv(c)'
    BY <1>6, <2>1
  <2> QED BY <1>1, <1>2, <1>3, <1>5, <1>6, <2>1, <2>2, <2>3, <2>4, <2>5, ChatMoves
<1> DEFINE t == mine[c].text
<1>7. Own(mine[c].turn, t) /\ (mine[c].stream /\ over[c] = "open" => got[c] \o chan[c] = t)
  BY <1>0, <1>3 DEF ChatInv
<1>8. CASE UNCHANGED <<pc, slot, mine, chan>>
  <2>1. mine' = [mine EXCEPT ![c] = mine[c]] /\ chan' = [chan EXCEPT ![c] = chan[c]]
    BY <1>0, <1>8 DEF Types
  <2>2. ChatInv(c)'
    BY <1>0, <1>3, <1>8 DEF ChatInv
  <2> QED BY <1>0, <1>6, <1>8, <2>1, <2>2
<1>9. CASE UNCHANGED chan /\ \E e : e # "ok" /\ Interrupted(c, e)
  <2>1. PICK e : e # "ok" /\ Interrupted(c, e)
    BY <1>9
  <2> QED BY <1>1, <1>2, <1>3, <1>9, <2>1, InterruptedKeeps
<1>10. CASE /\ n.id = mine[c].turn /\ mine' = [mine EXCEPT ![c].text = Append(mine[c].text, n.id)]
            /\ chan' = IF mine[c].stream THEN [chan EXCEPT ![c] = Append(chan[c], n.id)] ELSE chan
            /\ UNCHANGED <<pc, slot>>
  <2> DEFINE x == n.id
             u == Append(t, x)
             m == [mine[c] EXCEPT !.text = u]
             s == IF mine[c].stream THEN Append(chan[c], x) ELSE chan[c]
  <2>1. x \in Int /\ x # 0 /\ x \in {mine[c].turn, -mine[c].turn}
    BY <1>0, <1>4, <1>10
  <2>2. mine' = [mine EXCEPT ![c] = m]
    BY <1>10
  <2>3. chan' = [chan EXCEPT ![c] = s]
    <3>1. CASE mine[c].stream
      BY <1>10, <3>1
    <3>2. CASE ~mine[c].stream
      BY <1>0, <1>10, <3>2 DEF Types
    <3> QED BY <3>1, <3>2
  <2> HIDE DEF x
  <2>4. u \in Seq(Int) /\ Append(chan[c], x) \in Seq(Int)
    BY <1>0, <2>1
  <2>5. /\ m \in ChatState /\ m.turn = mine[c].turn /\ m.text = u /\ m.final = mine[c].final
        /\ m.result = mine[c].result /\ m.stream = mine[c].stream
    <3> HIDE DEF u
    <3> QED BY <1>0, <2>4 DEF ChatState
  <2>6. Own(m.turn, u)
    <3>1. Own(mine[c].turn, t) /\ mine[c].turn \in Int /\ t \in Seq(Int)
      BY <1>0, <1>7
    <3> HIDE DEF t
    <3>2. Own(mine[c].turn, Append(t, x))
      BY <2>1, <3>1, OwnAppend
    <3> QED BY <2>5, <3>2, Zenon
  <2>7. s \in Seq(Int) /\ (mine[c].stream \/ s = <<>>)
    <3>1. mine[c].stream \/ chan[c] = <<>>
      BY <1>0 DEF ChatInv
    <3> QED BY <1>0, <2>4, <3>1
  <2>8. mine[c].stream /\ over[c] = "open" => got[c] \o s = u
    <3>1. got[c] \o Append(chan[c], x) = Append(got[c] \o chan[c], x)
      BY <1>0, <2>1, AppendMoves
    <3> QED BY <1>7, <3>1, Zenon
  <2> HIDE DEF m, s, u
  <2>9. ASSUME pc'[c] = "turn", mine'[c] = m, chan'[c] = s PROVE ChatInv(c)'
    BY <1>0, <1>3, <2>5, <2>6, <2>7, <2>8, <2>9 DEF ChatInv
  <2> QED BY <1>6, <1>10, <2>2, <2>3, <2>5, <2>7, <2>9
<1>11. CASE /\ n.id = mine[c].turn /\ UNCHANGED <<chan, pc, slot>>
            /\ \E text \in {mine[c].text, Append(mine[c].text, n.id), <<-n.id>>} :
                  mine' = [mine EXCEPT ![c].final = text] /\ text # <<>>
  <2>1. PICK text \in {t, Append(t, n.id), <<-n.id>>} : mine' = [mine EXCEPT ![c].final = text]
    BY <1>11
  <2> DEFINE x == n.id
             m == [mine[c] EXCEPT !.final = text]
  <2>2. x \in Int /\ -x \in Int /\ x # 0 /\ -x # 0 /\ x \in {mine[c].turn, -mine[c].turn}
        /\ -x \in {mine[c].turn, -mine[c].turn}
    BY <1>0, <1>4, <1>11
  <2>3. mine' = [mine EXCEPT ![c] = m] /\ chan' = [chan EXCEPT ![c] = chan[c]]
    BY <1>0, <1>11, <2>1 DEF Types
  <2>4. text \in Seq(Int) /\ Own(mine[c].turn, text)
    <3> HIDE DEF x
    <3>1. CASE text = t
      BY <1>0, <1>7, <3>1
    <3>2. CASE text = Append(t, x)
      <4>1. Own(mine[c].turn, t) /\ mine[c].turn \in Int /\ t \in Seq(Int)
        BY <1>0, <1>7
      <4> HIDE DEF t
      <4>2. Own(mine[c].turn, Append(t, x)) /\ Append(t, x) \in Seq(Int)
        BY <2>2, <4>1, OwnAppend
      <4> QED BY <3>2, <4>2, Zenon
    <3>3. CASE text = <<-x>>
      <4> DEFINE y == -x
      <4>1. y \in Int /\ y # 0 /\ y \in {mine[c].turn, -mine[c].turn} /\ text = <<y>>
        BY <2>2, <3>3
      <4> HIDE DEF y
      <4>2. <<y>> \in Seq(Int) /\ DOMAIN <<y>> = {1} /\ <<y>>[1] = y
        BY <4>1
      <4> QED BY <4>1, <4>2 DEF Own
    <3> QED BY <2>1, <3>1, <3>2, <3>3 DEF x
  <2>5. /\ m \in ChatState /\ m.turn = mine[c].turn /\ m.text = t /\ m.final = text
        /\ m.result = mine[c].result /\ m.stream = mine[c].stream
    BY <1>0, <2>4 DEF ChatState
  <2> HIDE DEF m
  <2>6. ASSUME pc'[c] = "turn", mine'[c] = m, chan'[c] = chan[c] PROVE ChatInv(c)'
    BY <1>0, <1>3, <2>4, <2>5, <2>6 DEF ChatInv
  <2> QED BY <1>0, <1>6, <1>11, <2>3, <2>5, <2>6
<1>12. CASE /\ n.kind \in TerminalKinds /\ n.id = mine[c].turn /\ UNCHANGED chan
            /\ slot' \in {"none", "idle"}
            /\ \E e : (e = "ok" => mine[c].final # Nil) /\ ChatEnds(c, e)
  <2>1. PICK e : (e = "ok" => mine[c].final # Nil) /\ ChatEnds(c, e)
    BY <1>12
  <2>2. /\ pc' \in [Callers -> {"idle", "lock", "call", "store", "turn", "stop", "flush"}]
        /\ pc'[c] \in {"idle", "flush"} /\ \A d \in Callers \ {c} : pc'[d] = pc[d]
        /\ mine' \in [Chats -> ChatState] /\ mine'[c].turn = mine[c].turn
        /\ \A d \in Chats \ {c} : mine'[d] = mine[d]
        /\ ChatInv(c)'
    BY <1>3, <1>12, <2>1, ChatEndsKeeps
  <2>3. turn' = 0 \/ turn' # mine[c].turn
    BY <1>1, <1>12
  <2> QED BY <1>1, <1>2, <1>3, <1>4, <1>12, <2>2, <2>3, EndsKeep
<1>13. \/ UNCHANGED <<pc, slot, mine, chan>>
       \/ UNCHANGED chan /\ \E e : e # "ok" /\ Interrupted(c, e)
       \/ /\ n.id = mine[c].turn /\ mine' = [mine EXCEPT ![c].text = Append(mine[c].text, n.id)]
          /\ chan' = IF mine[c].stream THEN [chan EXCEPT ![c] = Append(chan[c], n.id)] ELSE chan
          /\ UNCHANGED <<pc, slot>>
       \/ /\ n.id = mine[c].turn /\ UNCHANGED <<chan, pc, slot>>
          /\ \E text \in {mine[c].text, Append(mine[c].text, n.id), <<-n.id>>} :
                mine' = [mine EXCEPT ![c].final = text] /\ text # <<>>
       \/ /\ n.kind \in TerminalKinds /\ n.id = mine[c].turn /\ UNCHANGED chan
          /\ slot' \in {"none", "idle"}
          /\ \E e : (e = "ok" => mine[c].final # Nil) /\ ChatEnds(c, e)
  BY <1>1, <1>3, NoteHandled, Zenon
<1> QED BY <1>8, <1>9, <1>10, <1>11, <1>12, <1>13, Zenon

-----------------------------------------------------------------------------
(* The theorems. *)

(* The invariant holds in the initial state.                               *)
LEMMA InitHolds == Init => IInv /\ logins \in Nat
PROOF
<1> SUFFICES ASSUME Init PROVE IInv /\ logins \in Nat
  OBVIOUS
<1>0. <<>> \in Seq(Int) /\ <<>> \in Seq(Notes) /\ DOMAIN <<>> = {}
  OBVIOUS
<1>1. NoTurn \in ChatState /\ NoTurn.turn = 0 /\ NoTurn.text = <<>> /\ NoTurn.final = Nil
      /\ NoTurn.result = "" /\ NoTurn.stream = FALSE
  BY <1>0 DEF NoTurn, ChatState
<1>2. Types
  BY <1>0, <1>1 DEF Init, Types, Endings
<1>3. HoldInv
  BY CallersAreDistinct DEF Init, HoldInv, Holding
<1>4. TurnInv
  <2>1. /\ turn = 0 /\ turns = 0 /\ queue = <<>> /\ \A c \in Chats : mine[c] = NoTurn /\ pc[c] = "idle"
    BY DEF Init, Callers
  <2>2. \A c \in Chats : mine[c].turn = 0
    BY <1>1, <2>1
  <2>3. \A i \in DOMAIN queue : FALSE
    BY <1>0, <2>1
  <2> QED BY <2>1, <2>2, <2>3 DEF TurnInv
<1>5. ASSUME NEW c \in Chats PROVE ChatInv(c)
  <2>1. c \in Callers
    BY DEF Callers
  <2>2. mine[c] = NoTurn /\ chan[c] = <<>> /\ over[c] = "none" /\ pc[c] = "idle"
    BY <2>1 DEF Init
  <2>3. Own(NoTurn.turn, NoTurn.text)
    BY <1>1, OwnNothing, Zenon
  <2> QED BY <1>1, <2>2, <2>3 DEF ChatInv
<1> QED BY <1>2, <1>3, <1>4, <1>5 DEF IInv, Init

(* Every step keeps the invariant.                                         *)
LEMMA NextKeeps == IInv /\ logins \in Nat /\ [Next]_vars => IInv' /\ logins' \in Nat
PROOF
<1> SUFFICES ASSUME IInv, logins \in Nat, [Next]_vars PROVE IInv' /\ logins' \in Nat
  OBVIOUS
<1>1. CASE UNCHANGED vars
  <2>1. UNCHANGED <<pc, slot, queue, turn, turns, mine, chan, got, over, logins>>
    BY <1>1 DEF vars, sessionVars, loginVars, chatVars, streamVars
  <2> QED BY <2>1 DEF IInv, Types, HoldInv, TurnInv, ChatInv
<1>2. ASSUME NEW c \in Controls, ControlStep(c) \/ DropControl(c) \/ DropConnecting(c)
      PROVE  IInv' /\ logins' \in Nat
  <2>1. logins' = logins
    BY <1>2 DEF ControlStep, account, start_login, cancel_login, logout, models, shutdown, BeginControl,
                DropControl, DropConnecting, loginVars
  <2> QED BY <1>2, <2>1, ControlStepKeeps, DropsKeep
<1>3. ASSUME NEW c \in Chats, chat(c) \/ Leave(c) \/ Read(c) PROVE IInv' /\ logins' \in Nat
  <2>1. logins' = logins
    BY <1>3 DEF chat, Leave, Read, loginVars
  <2> QED BY <1>3, <2>1, chatKeeps, LeaveKeeps, ReadKeeps
<1>4. ASSUME NEW c \in Callers, Lock(c) \/ NoLock(c) PROVE IInv' /\ logins' \in Nat
  <2>1. logins' = logins
    BY <1>4 DEF Lock, NoLock
  <2> QED BY <1>4, <2>1, ControlProgress, ChatLocks DEF Callers
<1>5. ASSUME NEW c \in Callers, rpc(c) PROVE IInv' /\ logins' \in Nat
  <2>1. logins' = logins \/ logins' = logins + 1
    BY <1>5, Zenon DEF rpc
  <2>2. logins' \in Nat
    BY <2>1
  <2>3. IInv'
    BY <1>5, ControlProgress, ChatCalls DEF Callers
  <2> QED BY <2>2, <2>3
<1>6. ASSUME NEW c \in Controls, StoreLogin(c) \/ Terminate(c) PROVE IInv' /\ logins' \in Nat
  <2>1. logins' = logins
    BY <1>6 DEF StoreLogin, Terminate, loginVars
  <2> QED BY <1>6, <2>1, ControlProgress
<1>7. ASSUME NEW c \in Chats, ChatAnswer(c) \/ TurnStops(c) \/ interrupt_turn_and_confirm(c) \/ Flush(c)
      PROVE  IInv' /\ logins' \in Nat
  <2>1. logins' = logins
    BY <1>7 DEF ChatAnswer, TurnStops, interrupt_turn_and_confirm, Flush, loginVars
  <2> QED BY <1>7, <2>1, ChatAnswers, TurnStopsKeeps, StopKeeps, FlushKeeps
<1>8. ASSUME NEW c \in Chats, NEW n \in TurnNotes \cup LoginNotes \cup Benign, TurnStep(c, n)
      PROVE  IInv' /\ logins' \in Nat
  <2>1. logins' = logins
    BY <1>8 DEF TurnStep
  <2> QED BY <1>8, <2>1, TurnStepKeeps
<1>9. ASSUME NEW c \in Callers, NEW n \in TurnNotes \cup LoginNotes \cup Benign, Queue(c, n)
      PROVE  IInv' /\ logins' \in Nat
  <2>1. logins' = logins
    BY <1>9 DEF Queue, loginVars
  <2> QED BY <1>9, <2>1, QueueKeeps
<1>10. CASE Expire
  <2>1. UNCHANGED <<pc, slot, queue, turn, turns, mine, chan, got, over, logins>>
    BY <1>10 DEF Expire, sessionVars, chatVars, streamVars
  <2> QED BY <2>1 DEF IInv, Types, HoldInv, TurnInv, ChatInv
<1> QED BY <1>1, <1>2, <1>3, <1>4, <1>5, <1>6, <1>7, <1>8, <1>9, <1>10 DEF Next, Progress, AnyNote

(* The manager's state is well typed, the caller that took the session is  *)
(* the one that uses it, a chat's turn runs only while the chat waits for  *)
(* it, and what was streamed is the chat's text (lib.rs 497-719).          *)
THEOREM Invariance == Spec => []IInv
PROOF
<1>1. Init => IInv /\ logins \in Nat
  BY InitHolds
<1>2. IInv /\ logins \in Nat /\ [Next]_vars => (IInv /\ logins \in Nat)'
  BY NextKeeps
<1>3. Spec => [](IInv /\ logins \in Nat)
  BY <1>1, <1>2, PTL DEF Spec
<1> QED BY <1>3, PTL

(* The running turn whose identifier was read is that of the chat that has *)
(* the session.                                                            *)
RunInv == turn # 0 => slot \in Chats /\ mine[slot].turn = turn /\ pc[slot] \in {"turn", "stop"}

(* A step of caller c that does not move the running turn.                 *)
LEMMA RunKept ==
  ASSUME IInv, RunInv, NEW c \in Callers, turn' \in {0, turn},
         \A d \in Callers \ {c} : pc'[d] = pc[d],
         \A d \in Chats \ {c} : mine'[d] = mine[d],
         slot # c => turn' = 0 \/ slot' = slot \/ slot \in {"none", "idle"},
         slot = c /\ c \in Chats /\ pc[c] \in {"turn", "stop"} =>
           turn' = 0 \/ (slot' = c /\ mine'[c].turn = mine[c].turn /\ pc'[c] \in {"turn", "stop"})
  PROVE  RunInv'
PROOF
<1> SUFFICES ASSUME turn' # 0 PROVE slot' \in Chats /\ mine'[slot'].turn = turn' /\ pc'[slot'] \in {"turn", "stop"}
  BY DEF RunInv
<1>1. turn' = turn /\ slot \in Chats /\ mine[slot].turn = turn /\ pc[slot] \in {"turn", "stop"}
  BY DEF RunInv
<1>2. slot \in Callers /\ slot \notin {"none", "idle"}
  BY <1>1, CallersAreDistinct DEF Callers
<1>3. CASE slot = c
  BY <1>1, <1>3
<1>4. CASE slot # c
  BY <1>1, <1>2, <1>4
<1> QED BY <1>3, <1>4

(* Every step keeps it.                                                    *)
LEMMA NextRuns == IInv /\ logins \in Nat /\ RunInv /\ [Next]_vars => RunInv'
PROOF
<1> SUFFICES ASSUME IInv, logins \in Nat, RunInv, [Next]_vars PROVE RunInv'
  OBVIOUS
<1>0. /\ pc \in [Callers -> {"idle", "lock", "call", "store", "turn", "stop", "flush"}]
      /\ mine \in [Chats -> ChatState]
      /\ \A c \in Callers : pc[c] \in Holding <=> slot = c
  BY DEF IInv, Types, HoldInv
<1>1. ASSUME UNCHANGED <<slot, mine, pc, turn>> PROVE RunInv'
  BY <1>1 DEF RunInv
<1>a. ASSUME NEW c \in Callers, NEW p, pc' = [pc EXCEPT ![c] = p]
      PROVE  \A d \in Callers \ {c} : pc'[d] = pc[d]
  BY <1>0, <1>a
<1>b. ASSUME NEW c \in Callers, NEW e, OpEnds(c, e)
      PROVE  /\ \A d \in Callers \ {c} : pc'[d] = pc[d]
             /\ \A d \in Chats \ {c} : mine'[d] = mine[d]
  <2>1. CASE c \in Chats
    BY <1>0, <1>b, <2>1 DEF OpEnds, ChatEnds
  <2>2. CASE c \notin Chats
    BY <1>0, <1>b, <2>2 DEF OpEnds, Ended, Finish
  <2> QED BY <2>1, <2>2
<1>2. ASSUME NEW c \in Controls, ControlStep(c) \/ DropControl(c) \/ DropConnecting(c) \/ StoreLogin(c)
             \/ Terminate(c)
      PROVE  RunInv'
  <2>0. c \in Callers /\ c \notin Chats
    BY CallersAreDistinct DEF Callers
  <2>1. UNCHANGED mine /\ turn' \in {0, turn} /\ (turn' = 0 \/ slot' = slot)
    BY <1>2 DEF ControlStep, account, start_login, cancel_login, logout, models, shutdown, BeginControl,
                DropControl, DropConnecting, StoreLogin, Terminate, Ended, Killed, sessionVars, chatVars
  <2>2. pc' = pc \/ \E p : pc' = [pc EXCEPT ![c] = p]
    BY <1>2 DEF ControlStep, account, start_login, cancel_login, logout, models, shutdown, BeginControl,
                DropControl, DropConnecting, StoreLogin, Terminate, Ended, Finish
  <2>3. \A d \in Callers \ {c} : pc'[d] = pc[d]
    BY <1>a, <2>0, <2>2
  <2> QED BY <2>0, <2>1, <2>3, RunKept
<1>3. ASSUME NEW c \in Chats, chat(c) \/ Flush(c) PROVE RunInv'
  <2>0. c \in Callers /\ slot # c
    BY <1>0, <1>3 DEF Callers, Holding, chat, Flush
  <2>1. UNCHANGED <<slot, turn>>
    BY <1>3 DEF chat, Flush, sessionVars
  <2>2. pc' = pc \/ \E p : pc' = [pc EXCEPT ![c] = p]
    BY <1>3 DEF chat, Flush, Finish
  <2>3. mine' = mine \/ \E m : mine' = [mine EXCEPT ![c] = m]
    BY <1>3 DEF chat, Flush
  <2>4. \A d \in Callers \ {c} : pc'[d] = pc[d]
    BY <1>a, <2>0, <2>2
  <2>5. \A d \in Chats \ {c} : mine'[d] = mine[d]
    BY <1>0, <2>3
  <2> QED BY <2>0, <2>1, <2>4, <2>5, RunKept
<1>4. ASSUME NEW c \in Chats, Leave(c) \/ Read(c) PROVE RunInv'
  BY <1>1, <1>4 DEF Leave, Read, sessionVars, chatVars
<1>5. ASSUME NEW c \in Callers, Lock(c) \/ NoLock(c) PROVE RunInv'
  <2>1. UNCHANGED turn /\ slot # c /\ (slot' = slot \/ slot \in {"none", "idle"})
    BY <1>0, <1>5 DEF Lock, NoLock, Holding, sessionVars
  <2>2. \/ \E e : OpEnds(c, e)
        \/ UNCHANGED mine /\ \E p : pc' = [pc EXCEPT ![c] = p]
    BY <1>5, Zenon DEF Lock, NoLock, ensure_session, OpFails
  <2>3. /\ \A d \in Callers \ {c} : pc'[d] = pc[d]
        /\ \A d \in Chats \ {c} : mine'[d] = mine[d]
    BY <1>a, <1>b, <2>2
  <2> QED BY <2>1, <2>3, RunKept
<1>6. ASSUME NEW c \in Callers, rpc(c) PROVE RunInv'
  <2>1. pc[c] = "call" /\ turn' \in {0, turn}
    BY <1>6 DEF rpc, Killed
  <2>2. slot = c
    BY <1>0, <2>1 DEF Holding
  <2>3. \/ \E e : OpEnds(c, e)
        \/ UNCHANGED mine /\ \E p : pc' = [pc EXCEPT ![c] = p]
    BY <1>6, Zenon DEF rpc
  <2>4. /\ \A d \in Callers \ {c} : pc'[d] = pc[d]
        /\ \A d \in Chats \ {c} : mine'[d] = mine[d]
    BY <1>a, <1>b, <2>3
  <2> QED BY <2>1, <2>2, <2>4, RunKept
<1>7. ASSUME NEW c \in Chats, ChatAnswer(c) PROVE RunInv'
  <2>0. c \in Callers /\ pc[c] = "call" /\ slot = c
    BY <1>0, <1>7 DEF ChatAnswer, Callers, Holding
  <2>1. CASE UNCHANGED <<pc, slot, queue, turn, turns, mine>>
    BY <1>1, <2>1
  <2>2. CASE /\ turn' = turns + 1 /\ mine' = [mine EXCEPT ![c].turn = turns + 1]
             /\ pc' = [pc EXCEPT ![c] = "turn"] /\ UNCHANGED slot
    <3>1. mine[c] \in ChatState /\ mine' = [mine EXCEPT ![c] = [mine[c] EXCEPT !.turn = turns + 1]]
      BY <1>0, <2>2
    <3>2. mine'[c].turn = turns + 1
      BY <1>0, <3>1 DEF ChatState
    <3>3. pc'[c] = "turn" /\ slot' = c
      BY <1>0, <2>0, <2>2
    <3> QED BY <2>2, <3>2, <3>3 DEF RunInv
  <2>3. ASSUME NEW e, ChatEnds(c, e), turn' \in {0, turn} PROVE RunInv'
    <3>1. /\ \A d \in Callers \ {c} : pc'[d] = pc[d]
          /\ \A d \in Chats \ {c} : mine'[d] = mine[d]
      BY <1>b, <2>0, <2>3 DEF OpEnds
    <3> QED BY <2>0, <2>3, <3>1, RunKept
  <2>4. \/ UNCHANGED <<pc, slot, queue, turn, turns, mine>>
        \/ /\ turn' = turns + 1 /\ mine' = [mine EXCEPT ![c].turn = turns + 1]
           /\ pc' = [pc EXCEPT ![c] = "turn"] /\ UNCHANGED slot
        \/ \E e : Outcome(c, e)
        \/ ChatEnds(c, "InvalidRequest") /\ UNCHANGED turn
    BY <1>7, Zenon DEF ChatAnswer
  <2>5. ASSUME NEW e, Outcome(c, e) PROVE ChatEnds(c, e) /\ turn' \in {0, turn}
    BY <2>5 DEF Outcome, Killed, Returned
  <2> QED BY <2>1, <2>2, <2>3, <2>4, <2>5
<1>8. ASSUME NEW c \in Chats, interrupt_turn_and_confirm(c) PROVE RunInv'
  BY <1>8 DEF interrupt_turn_and_confirm, Killed, RunInv
<1>9. ASSUME NEW c \in Chats, NEW e, Interrupted(c, e), pc[c] = "turn", turn' \in {0, turn} PROVE RunInv'
  <2>0. c \in Callers /\ slot = c
    BY <1>0, <1>9 DEF Callers, Holding
  <2>1. /\ mine' = [mine EXCEPT ![c] = [mine[c] EXCEPT !.result = Class(e)]] /\ mine[c] \in ChatState
        /\ pc' = [pc EXCEPT ![c] = "stop"] /\ UNCHANGED slot
    BY <1>0, <1>9 DEF Interrupted
  <2>2. mine'[c].turn = mine[c].turn
    BY <1>0, <2>1 DEF ChatState
  <2>3. pc'[c] = "stop" /\ (\A d \in Callers \ {c} : pc'[d] = pc[d]) /\ \A d \in Chats \ {c} : mine'[d] = mine[d]
    BY <1>0, <2>0, <2>1
  <2> QED BY <1>9, <2>0, <2>1, <2>2, <2>3, RunKept
<1>10. ASSUME NEW c \in Chats, TurnStops(c) PROVE RunInv'
  BY <1>9, <1>10 DEF TurnStops
<1>11. ASSUME NEW c \in Chats, NEW n \in AnyNote, TurnStep(c, n) PROVE RunInv'
  <2>0. c \in Callers /\ pc[c] = "turn" /\ slot = c /\ HandleNote(c, n)
    BY <1>0, <1>11 DEF TurnStep, Callers, Holding
  <2>1. /\ n \in Notes /\ turn' \in {0, turn}
        /\ n.kind \in TerminalKinds /\ n.id = mine[c].turn => turn' = 0 \/ turn' # mine[c].turn
    BY <1>11, NoteTaken DEF AnyNote
  <2>3. CASE \E e : e # "ok" /\ Interrupted(c, e)
    BY <1>9, <2>0, <2>1, <2>3
  <2>4. CASE UNCHANGED <<pc, slot, mine>>
    BY <2>0, <2>1, <2>4, RunKept
  <2>5. CASE /\ mine' = [mine EXCEPT ![c].text = Append(mine[c].text, n.id)] /\ UNCHANGED <<pc, slot>>
    <3>1. /\ mine' = [mine EXCEPT ![c] = [mine[c] EXCEPT !.text = Append(mine[c].text, n.id)]]
          /\ mine[c] \in ChatState
      BY <1>0, <2>5
    <3>2. mine'[c].turn = mine[c].turn /\ \A d \in Chats \ {c} : mine'[d] = mine[d]
      BY <1>0, <3>1 DEF ChatState
    <3> QED BY <2>0, <2>1, <2>5, <3>2, RunKept
  <2>6. ASSUME NEW text, mine' = [mine EXCEPT ![c].final = text], UNCHANGED <<pc, slot>> PROVE RunInv'
    <3>1. mine' = [mine EXCEPT ![c] = [mine[c] EXCEPT !.final = text]] /\ mine[c] \in ChatState
      BY <1>0, <2>6
    <3>2. mine'[c].turn = mine[c].turn /\ \A d \in Chats \ {c} : mine'[d] = mine[d]
      BY <1>0, <3>1 DEF ChatState
    <3> QED BY <2>0, <2>1, <2>6, <3>2, RunKept
  <2>7. ASSUME NEW e, ChatEnds(c, e), n.kind \in TerminalKinds, n.id = mine[c].turn PROVE RunInv'
    <3>1. /\ \A d \in Callers \ {c} : pc'[d] = pc[d]
          /\ \A d \in Chats \ {c} : mine'[d] = mine[d]
      BY <1>b, <2>0, <2>7 DEF OpEnds
    <3>2. turn' = 0
      BY <2>0, <2>1, <2>7 DEF RunInv
    <3> QED BY <2>0, <3>1, <3>2, RunKept
  <2> QED BY <2>0, <2>1, <2>3, <2>4, <2>5, <2>6, <2>7, NoteHandled, Zenon
<1>12. ASSUME NEW c \in Callers, NEW n \in AnyNote, Queue(c, n) PROVE RunInv'
  BY <1>12 DEF Queue, Sent, RunInv
<1>13. CASE UNCHANGED vars \/ Expire
  BY <1>1, <1>13 DEF vars, sessionVars, chatVars, Expire
<1> QED BY <1>2, <1>3, <1>4, <1>5, <1>6, <1>7, <1>8, <1>10, <1>11, <1>12, <1>13 DEF Next, Progress

(* In a session put back for the next caller the only turns that may run   *)
(* are those whose identifier could not be read (lib.rs 589, 694-717).     *)
THEOREM SessionsAreQuiet == Spec => []SlotIsQuiet
PROOF
<1>1. Init => IInv /\ logins \in Nat /\ RunInv
  BY InitHolds DEF Init, RunInv
<1>2. IInv /\ logins \in Nat /\ RunInv /\ [Next]_vars => (IInv /\ logins \in Nat /\ RunInv)'
  BY NextKeeps, NextRuns
<1>3. RunInv => SlotIsQuiet
  <2> SUFFICES ASSUME RunInv, slot = "idle" PROVE RunningTurns \subseteq unnamed
    BY DEF SlotIsQuiet
  <2>1. turn = 0
    BY CallersAreDistinct DEF RunInv, Callers
  <2> QED BY <2>1 DEF RunningTurns
<1> QED BY <1>1, <1>2, <1>3, PTL DEF Spec

(* A stream that ended well gave its client the finished text of its own   *)
(* turn, whole and once (lib.rs 606-671, delivery.rs 955-1024).            *)
THEOREM AnswersAreWhole == Spec => []AnswerIsWhole
PROOF
<1>1. IInv => AnswerIsWhole
  <2> SUFFICES ASSUME IInv, NEW c \in Chats, over[c] = "ok"
               PROVE  /\ got[c] = mine[c].final
                      /\ \A i \in 1 .. Len(got[c]) : got[c][i] \in {mine[c].turn, -mine[c].turn}
    BY DEF AnswerIsWhole
  <2>1. got[c] = mine[c].final /\ Own(mine[c].turn, mine[c].final)
    BY DEF IInv, ChatInv
  <2>2. got[c] \in Seq(Int)
    BY DEF IInv, Types
  <2>3. DOMAIN got[c] = 1 .. Len(got[c])
    BY <2>2
  <2> QED BY <2>1, <2>3 DEF Own
<1> QED BY <1>1, Invariance, PTL

-----------------------------------------------------------------------------
(* The restart budget. *)

(* A restart that was allowed is paid for by the count of restarts, one    *)
(* after a dropped operation by the drop; an exemption not used yet is     *)
(* still to be paid out.  Before the first start there is nothing to drop. *)
Allowed == IF restarts <= MaxRestarts THEN restarts ELSE MaxRestarts

Owed == IF exempt THEN 1 ELSE 0

BudgetInv ==
  /\ restarts \in Nat /\ spawns \in Nat /\ drops \in Nat
  /\ ~started => slot = "none" /\ spawns = 0 /\ restarts = 0 /\ drops = 0 /\ ~exempt
  /\ spawns + Owed <= 1 + Allowed + drops

(* A step that starts no helper and drops none.                            *)
LEMMA BudgetKept ==
  ASSUME BudgetInv, UNCHANGED <<started, restarts, exempt, spawns, drops>>, slot # "none" \/ slot' = slot \/ slot' = "none"
  PROVE  BudgetInv'
PROOF BY DEF BudgetInv, Allowed, Owed

(* A helper is started.                                                    *)
LEMMA StartKept ==
  ASSUME BudgetInv, started' = TRUE, UNCHANGED drops,
         exempt' = IF started THEN FALSE ELSE exempt,
         restarts' = IF started /\ ~exempt THEN restarts + 1 ELSE restarts,
         spawns' = spawns \/ (spawns' = spawns + 1 /\ ~(started /\ ~exempt /\ restarts >= MaxRestarts))
  PROVE  BudgetInv'
PROOF
<1>0. restarts \in Nat /\ spawns \in Nat /\ drops \in Nat /\ MaxRestarts \in Nat
  BY RestartsAreFinite DEF BudgetInv
<1>1. CASE ~started
  BY <1>0, <1>1 DEF BudgetInv, Allowed, Owed
<1>2. CASE started /\ exempt
  BY <1>0, <1>2 DEF BudgetInv, Allowed, Owed
<1>3. CASE started /\ ~exempt
  BY <1>0, <1>3 DEF BudgetInv, Allowed, Owed
<1> QED BY <1>1, <1>2, <1>3

(* Every step keeps the budget.                                            *)
LEMMA NextKeepsBudget == IInv /\ BudgetInv /\ [Next]_vars => BudgetInv'
PROOF
<1> SUFFICES ASSUME IInv, BudgetInv, [Next]_vars PROVE BudgetInv'
  OBVIOUS
<1>0. ASSUME NEW c \in Callers, pc[c] \in Holding PROVE slot # "none"
  BY <1>0, CallersAreDistinct DEF IInv, HoldInv
<1>1. CASE UNCHANGED vars
  BY <1>1, BudgetKept DEF vars, sessionVars
<1>2. ASSUME NEW c \in Controls, ControlStep(c) PROVE BudgetInv'
  <2>1. UNCHANGED <<started, restarts, exempt, spawns, drops, slot>>
    BY <1>2 DEF ControlStep, account, start_login, cancel_login, logout, models, shutdown, BeginControl,
                sessionVars
  <2> QED BY <2>1, BudgetKept
<1>3. ASSUME NEW c \in Controls, DropControl(c) PROVE BudgetInv'
  <2>1. CASE slot # c
    BY <1>3, <2>1, BudgetKept DEF DropControl
  <2>2. CASE slot = c
    <3>1. /\ exempt' = TRUE /\ drops' = drops + 1 /\ UNCHANGED <<started, restarts, spawns>>
      BY <1>3, <2>2 DEF DropControl
    <3>2. started
      BY <2>2, CallersAreDistinct DEF BudgetInv, Callers
    <3>3. restarts \in Nat /\ spawns \in Nat /\ drops \in Nat /\ MaxRestarts \in Nat
      BY RestartsAreFinite DEF BudgetInv
    <3> QED BY <3>1, <3>2, <3>3 DEF BudgetInv, Allowed, Owed
  <2> QED BY <2>1, <2>2
<1>4. ASSUME NEW c \in Controls, DropConnecting(c) PROVE BudgetInv'
  <2>0. restarts \in Nat /\ spawns \in Nat /\ drops \in Nat /\ MaxRestarts \in Nat
    BY RestartsAreFinite DEF BudgetInv
  <2>1. /\ started' = TRUE /\ exempt' = TRUE /\ drops' = drops + 1 /\ spawns' = spawns + 1
        /\ ~(started /\ ~exempt /\ restarts >= MaxRestarts)
        /\ restarts' = IF started /\ ~exempt THEN restarts + 1 ELSE restarts
    BY <1>4 DEF DropConnecting
  <2>2. CASE ~started
    BY <2>0, <2>1, <2>2 DEF BudgetInv, Allowed, Owed
  <2>3. CASE started /\ exempt
    BY <2>0, <2>1, <2>3 DEF BudgetInv, Allowed, Owed
  <2>4. CASE started /\ ~exempt
    BY <2>0, <2>1, <2>4 DEF BudgetInv, Allowed, Owed
  <2> QED BY <2>2, <2>3, <2>4
<1>5. ASSUME NEW c \in Chats, chat(c) \/ Leave(c) \/ Read(c) PROVE BudgetInv'
  BY <1>5, BudgetKept DEF chat, Leave, Read, sessionVars
<1>6. ASSUME NEW c \in Callers, Lock(c) PROVE BudgetInv'
  <2>1. CASE slot = "none" /\ ensure_session(c)
    <3>1. /\ started' = TRUE /\ exempt' = (IF started THEN FALSE ELSE exempt)
          /\ restarts' = (IF started /\ ~exempt THEN restarts + 1 ELSE restarts)
          /\ spawns' = spawns \/ (spawns' = spawns + 1 /\ ~(started /\ ~exempt /\ restarts >= MaxRestarts))
      BY <2>1 DEF ensure_session
    <3>2. UNCHANGED drops
      BY <1>6 DEF Lock
    <3> QED BY <3>1, <3>2, StartKept
  <2>2. CASE slot = "idle"
    <3>1. UNCHANGED <<started, restarts, exempt, spawns, drops>>
      BY <1>6, <2>2 DEF Lock
    <3> QED BY <2>2, <3>1, BudgetKept
  <2> QED BY <1>6, <2>1, <2>2 DEF Lock
<1>7. ASSUME NEW c \in Callers, NoLock(c) PROVE BudgetInv'
  BY <1>7, BudgetKept DEF NoLock, sessionVars
<1>8. ASSUME NEW c \in Callers, rpc(c) PROVE BudgetInv'
  <2>1. UNCHANGED <<started, restarts, exempt, spawns, drops>> /\ pc[c] \in Holding
    BY <1>8 DEF rpc, Holding
  <2> QED BY <1>0, <2>1, BudgetKept
<1>9. ASSUME NEW c \in Controls, StoreLogin(c) \/ Terminate(c) PROVE BudgetInv'
  BY <1>9, BudgetKept DEF StoreLogin, Terminate, Killed, sessionVars
<1>10. ASSUME NEW c \in Chats, ChatAnswer(c) \/ TurnStops(c) \/ interrupt_turn_and_confirm(c)
       PROVE  BudgetInv'
  <2>1. UNCHANGED <<started, restarts, exempt, spawns, drops>> /\ pc[c] \in Holding /\ c \in Callers
    BY <1>10 DEF ChatAnswer, TurnStops, interrupt_turn_and_confirm, Holding, Callers
  <2> QED BY <1>0, <2>1, BudgetKept
<1>11. ASSUME NEW c \in Chats, Flush(c) PROVE BudgetInv'
  BY <1>11, BudgetKept DEF Flush, sessionVars
<1>12. ASSUME NEW c \in Chats, NEW n \in TurnNotes \cup LoginNotes \cup Benign, TurnStep(c, n)
       PROVE  BudgetInv'
  <2>1. UNCHANGED <<started, restarts, exempt, spawns, drops>> /\ pc[c] \in Holding /\ c \in Callers
    BY <1>12 DEF TurnStep, Holding, Callers
  <2> QED BY <1>0, <2>1, BudgetKept
<1>13. ASSUME NEW c \in Callers, NEW n \in TurnNotes \cup LoginNotes \cup Benign, Queue(c, n)
       PROVE  BudgetInv'
  BY <1>13, BudgetKept DEF Queue
<1>14. CASE Expire
  BY <1>14, BudgetKept DEF Expire, sessionVars
<1> QED BY <1>1, <1>2, <1>3, <1>4, <1>5, <1>6, <1>7, <1>8, <1>9, <1>10, <1>11, <1>12, <1>13, <1>14
        DEF Next, Progress, AnyNote

(* Helpers are started at most once, once more per allowed restart and     *)
(* once per operation dropped while it had the session or was starting one *)
(* (lib.rs 793-806, 953-976).                                              *)
THEOREM HelpersAreBounded == Spec => []RestartBudget
PROOF
<1>1. ASSUME Init PROVE BudgetInv
  <2>1. restarts = 0 /\ spawns = 0 /\ drops = 0 /\ slot = "none" /\ exempt = FALSE
    BY <1>1 DEF Init
  <2>2. Owed = 0
    BY <2>1 DEF Owed
  <2>3. Allowed = 0
    BY <2>1, RestartsAreFinite DEF Allowed
  <2>4. ~exempt
    BY <2>1
  <2> QED BY <2>1, <2>2, <2>3, <2>4 DEF BudgetInv
<1>2. IInv /\ BudgetInv /\ [Next]_vars => BudgetInv'
  BY NextKeepsBudget
<1>3. BudgetInv => RestartBudget
  BY RestartsAreFinite DEF BudgetInv, Allowed, Owed, RestartBudget
<1> QED BY <1>1, <1>2, <1>3, Invariance, PTL DEF Spec

-----------------------------------------------------------------------------
(* Guided setup *)

Journals ==
  [stage : {"provider", "saving-key", "model", "activating", "test", "verified", "disconnecting"},
   item : Nat, model : Models \cup {None}, models : SUBSET Models, verifiedAt : BOOLEAN]
Texts == [kind : {"starter", "custom", "policy", "off"}, model : Models \cup {None}, item : Nat]
Operations ==
  [name : {None, "discover", "refresh-models", "activate", "test", "repair", "disconnect"},
   at : {None, "list", "store", "note", "lookup", "journal", "write", "install", "restart",
         "serve", "stop", "clear", "confirm"},
   model : Models \cup {None}, state : Journals, current : Texts]

SetupTypes ==
  /\ journal \in Journals /\ doing \in Operations /\ config \in Texts
  /\ items \in Nat /\ edited \in BOOLEAN

(* What a journal says, whichever operation stopped after writing it.      *)
JournalSound ==
  /\ journal.model # None => journal.item # NoItem
  /\ journal.stage \in {"saving-key", "model"} => journal.model = None /\ journal.item # NoItem
  /\ journal.verifiedAt => journal.stage = "verified" /\ journal.model # None

(* The operation that runs knows the journal as it is, until the journal    *)
(* is no longer read.                                                      *)
StateIsJournal ==
  \/ doing.name = None
  \/ doing.name = "repair" /\ doing.at # "journal"
  \/ doing.name = "disconnect" /\ doing.at \in {"install", "restart"}
  \/ doing.state = journal

UntouchedStarter == edited \/ config = Starter

DiscoverFits ==
  doing.name = "discover" =>
    /\ UntouchedStarter
    /\ doing.at = "list" => journal.item = NoItem \/ journal.stage = "saving-key"
    /\ doing.at \in {"store", "note"} => journal.stage = "saving-key"

ActivateFits ==
  doing.name = "activate" =>
    /\ doing.model \in Models
    /\ doing.at = "journal" => journal.stage = "model" /\ UntouchedStarter
    /\ doing.at # "journal" => journal.stage = "activating" /\ journal.model = doing.model

TestFits ==
  doing.name = "test" =>
    /\ journal.model # None
    /\ edited \/ config = policy(journal.model, journal.item)
    /\ doing.at = "note" => journal.item \in keyring

RepairFits ==
  doing.name = "repair" /\ doing.at = "journal" => edited \/ doing.current = config

DisconnectFits ==
  doing.name = "disconnect" =>
    /\ doing.at \in {"write", "clear", "confirm"} => journal.stage = "disconnecting"
    /\ doing.at \in {"clear", "confirm", "install", "restart"} => UntouchedStarter

SetupInv ==
  /\ SetupTypes /\ JournalSound /\ StateIsJournal /\ NoItem \notin keyring
  /\ DiscoverFits /\ ActivateFits /\ TestFits /\ RepairFits /\ DisconnectFits
  /\ SetupConsistent

LEMMA SetupInitInv == SetupInit => SetupInv
PROOF
<1> SUFFICES ASSUME SetupInit PROVE SetupInv
  OBVIOUS
<1> USE SetupAssumption DEF SetupInit, Idle, NoJournal, Starter, Off, None, NoItem
<1>1. SetupTypes
  BY DEF SetupTypes, Journals, Texts, Operations
<1>2. JournalSound /\ StateIsJournal
  BY DEF JournalSound, StateIsJournal
<1>3. DiscoverFits /\ ActivateFits /\ TestFits /\ RepairFits /\ DisconnectFits
  BY DEF DiscoverFits, ActivateFits, TestFits, RepairFits, DisconnectFits
<1>4. SetupConsistent
  BY DEF SetupConsistent, unchanged
<1> QED
  BY <1>1, <1>2, <1>3, <1>4 DEF SetupInv

LEMMA SetupStepInv == SetupInv /\ [SetupNext]_setupVars => SetupInv'
PROOF
<1> SUFFICES ASSUME SetupInv, [SetupNext]_setupVars PROVE SetupInv'
  OBVIOUS
<1> USE SetupAssumption
<1> USE DEF SetupInv, SetupTypes, Journals, Texts, Operations, JournalSound, StateIsJournal,
            UntouchedStarter, DiscoverFits, ActivateFits, TestFits, RepairFits, DisconnectFits,
            SetupConsistent, unchanged, policy, Idle, NoJournal, Starter, Off, Custom, None, NoItem,
            At, GoTo, GoWith, Done, save, Quiet, disk
<1>1. CASE discover
  BY <1>1 DEF discover, Begin
<1>2. CASE discover_journal
  <2> DEFINE item == IF doing.state.item = NoItem THEN items + 1 ELSE doing.state.item
  <2>1. PICK listed \in SUBSET Models :
          /\ journal' = [NoJournal EXCEPT !.stage = "saving-key", !.item = item, !.models = listed]
          /\ doing' = [doing EXCEPT !.at = "store", !.state = journal']
          /\ items' = IF doing.state.item = NoItem THEN item ELSE items
    BY <1>2, Zenon DEF discover_journal
  <2>2. doing.name = "discover" /\ doing.at = "list"
    BY <1>2 DEF discover_journal
  <2>3. UNCHANGED <<config, keyring, unit, service, edited>>
    BY <1>2 DEF discover_journal
  <2>4. item \in Nat \ {0} /\ items' \in Nat
    BY <2>1
  <2>5. keyring' \subseteq {item}
    BY <2>2, <2>3
  <2> HIDE DEF item
  <2>6. journal' \in Journals /\ doing' \in Operations
    BY <2>1, <2>2, <2>4
  <2>7. /\ journal'.stage = "saving-key" /\ journal'.item = item
        /\ journal'.model = None /\ journal'.verifiedAt = FALSE
    BY <2>1, <2>4
  <2>8. doing'.name = "discover" /\ doing'.at = "store" /\ doing'.state = journal'
    BY <2>1, <2>2, <2>6
  <2>9. UntouchedStarter'
    BY <2>2, <2>3
  <2>10. SetupTypes' /\ JournalSound' /\ StateIsJournal'
    BY <2>3, <2>4, <2>6, <2>7, <2>8
  <2>11. DiscoverFits' /\ ActivateFits' /\ TestFits' /\ RepairFits' /\ DisconnectFits'
    BY <2>7, <2>8, <2>9
  <2>12. SetupConsistent' /\ NoItem \notin keyring'
    BY <2>3, <2>5, <2>7, <2>9
  <2> QED
    BY <2>10, <2>11, <2>12 DEF SetupInv
<1>3. CASE discover_store
  BY <1>3 DEF discover_store
<1>4. CASE discover_done
  BY <1>4 DEF discover_done
<1>5. CASE refresh_models
  BY <1>5 DEF refresh_models, Begin
<1>6. CASE refresh_done
  <2>1. doing.state = journal /\ doing' = Idle /\ UNCHANGED <<config, keyring, items, edited>>
    BY <1>6 DEF refresh_done
  <2>2. PICK listed \in SUBSET Models :
          journal' = [journal EXCEPT !.models = listed, !.verifiedAt = FALSE]
    BY <1>6, <2>1, Zenon DEF refresh_done, save
  <2>3. journal' \in Journals /\ doing' \in Operations
    BY <2>1, <2>2
  <2>4. /\ journal'.stage = journal.stage /\ journal'.item = journal.item
        /\ journal'.model = journal.model /\ journal'.verifiedAt = FALSE
    BY <2>2
  <2>5. SetupTypes' /\ JournalSound' /\ StateIsJournal'
    BY <2>1, <2>3, <2>4
  <2>6. DiscoverFits' /\ ActivateFits' /\ TestFits' /\ RepairFits' /\ DisconnectFits'
    BY <2>1
  <2>7. SetupConsistent' /\ NoItem \notin keyring'
    BY <2>1, <2>4
  <2> QED
    BY <2>5, <2>6, <2>7 DEF SetupInv
<1>7. CASE \E model \in Models : activate(model)
  BY <1>7 DEF activate, Begin
<1>8. CASE activate_journal
  BY <1>8 DEF activate_journal
<1>9. CASE activate_write
  BY <1>9 DEF activate_write
<1>10. CASE activate_done
  BY <1>10 DEF activate_done
<1>11. CASE install
  BY <1>11 DEF install, Restarting
<1>12. CASE restart
  <2>1. CASE doing.name = "activate"
    BY <1>12, <2>1 DEF restart, Restarting
  <2>2. CASE doing.name # "activate"
    <3>1. doing' = Idle /\ UNCHANGED <<config, journal, keyring, items, edited>>
      BY <1>12, <2>2 DEF restart
    <3> QED
      BY <3>1
  <2> QED
    BY <2>1, <2>2
<1>13. CASE test
  BY <1>13 DEF test, Begin
<1>14. CASE test_journal
  BY <1>14 DEF test_journal
<1>15. CASE test_serve
  BY <1>15 DEF test_serve
<1>16. CASE test_done
  BY <1>16 DEF test_done
<1>17. CASE repair
  BY <1>17 DEF repair, Begin
<1>18. CASE repair_journal
  <2>1. CASE doing.state.model = None
    BY <1>18, <2>1 DEF repair_journal
  <2>2. CASE doing.state.model # None
    <3>1. /\ doing.name = "repair" /\ doing.at = "journal" /\ doing.state = journal
          /\ doing' = [doing EXCEPT !.at = "install"]
          /\ UNCHANGED <<config, keyring, items, edited>>
      BY <1>18 DEF repair_journal
    <3>2. CASE doing.current = policy(journal.model, journal.item)
      <4>1. journal' = [journal EXCEPT !.verifiedAt = FALSE, !.stage = "test"]
        BY <1>18, <2>2, <3>1, <3>2 DEF repair_journal
      <4>2. journal' \in Journals /\ doing' \in Operations
        BY <3>1, <4>1
      <4>3. /\ journal'.stage = "test" /\ journal'.item = journal.item
            /\ journal'.model = journal.model /\ journal'.verifiedAt = FALSE
        BY <4>1
      <4>4. doing'.name = "repair" /\ doing'.at = "install"
        BY <3>1
      <4>5. SetupTypes' /\ JournalSound' /\ StateIsJournal'
        BY <2>2, <3>1, <4>2, <4>3, <4>4
      <4>6. DiscoverFits' /\ ActivateFits' /\ TestFits' /\ RepairFits' /\ DisconnectFits'
        BY <4>4
      <4>7. SetupConsistent' /\ NoItem \notin keyring'
        BY <3>1, <4>3
      <4> QED
        BY <4>5, <4>6, <4>7 DEF SetupInv
    <3>3. CASE doing.current # policy(journal.model, journal.item)
      <4>1. journal' = [journal EXCEPT !.verifiedAt = FALSE, !.stage = "model", !.model = None]
        BY <1>18, <2>2, <3>1, <3>3 DEF repair_journal
      <4>2. UntouchedStarter
        BY <2>2, <3>1, <3>3
      <4> QED
        BY <2>2, <3>1, <4>1, <4>2
    <3> QED
      BY <3>2, <3>3
  <2> QED
    BY <2>1, <2>2
<1>19. CASE disconnect
  BY <1>19 DEF disconnect, Begin
<1>20. CASE disconnect_stop
  BY <1>20 DEF disconnect_stop
<1>21. CASE disconnect_journal
  <2>1. /\ doing.name = "disconnect" /\ doing.at = "journal" /\ doing.state = journal
        /\ UNCHANGED <<config, keyring, items, edited>>
    BY <1>21 DEF disconnect_journal
  <2>2. /\ journal' = [journal EXCEPT !.stage = "disconnecting", !.verifiedAt = FALSE]
        /\ doing' = [doing EXCEPT !.at = "write", !.state = journal']
    BY <1>21, <2>1 DEF disconnect_journal
  <2>3. journal' \in Journals /\ doing' \in Operations
    BY <2>1, <2>2
  <2>4. /\ journal'.stage = "disconnecting" /\ journal'.item = journal.item
        /\ journal'.model = journal.model /\ journal'.verifiedAt = FALSE
    BY <2>2
  <2>5. doing'.name = "disconnect" /\ doing'.at = "write" /\ doing'.state = journal'
    BY <2>1, <2>2, <2>3
  <2>6. SetupTypes' /\ JournalSound' /\ StateIsJournal'
    BY <2>1, <2>3, <2>4, <2>5
  <2>7. DiscoverFits' /\ ActivateFits' /\ TestFits' /\ RepairFits' /\ DisconnectFits'
    BY <2>4, <2>5
  <2>8. SetupConsistent' /\ NoItem \notin keyring'
    BY <2>1, <2>4
  <2> QED
    BY <2>6, <2>7, <2>8 DEF SetupInv
<1>22. CASE disconnect_write
  BY <1>22 DEF disconnect_write
<1>23. CASE disconnect_clear
  BY <1>23 DEF disconnect_clear
<1>24. CASE disconnect_forget
  BY <1>24 DEF disconnect_forget
<1>25. CASE Abort
  BY <1>25 DEF Abort
<1>26. CASE EditPolicy
  BY <1>26 DEF EditPolicy
<1>27. CASE uninstall
  BY <1>27 DEF uninstall
<1>28. CASE Reload
  BY <1>28 DEF Reload
<1>29. CASE UNCHANGED setupVars
  BY <1>29 DEF setupVars
<1> QED
  BY <1>1, <1>2, <1>3, <1>4, <1>5, <1>6, <1>7, <1>8, <1>9, <1>10, <1>11, <1>12, <1>13, <1>14,
     <1>15, <1>16, <1>17, <1>18, <1>19, <1>20, <1>21, <1>22, <1>23, <1>24, <1>25, <1>26, <1>27,
     <1>28, <1>29 DEF SetupNext

(* However an operation is interrupted, the journal still names every key   *)
(* in the keyring, setup still recognises the policy it wrote, and what is  *)
(* recorded as verified has its key and its policy (setup_command.rs).     *)
THEOREM SetupStaysConsistent == SetupSpec => []SetupConsistent
PROOF
<1>1. SetupSpec => []SetupInv
  BY SetupInitInv, SetupStepInv, PTL DEF SetupSpec
<1>2. SetupInv => SetupConsistent
  BY DEF SetupInv
<1> QED
  BY <1>1, <1>2, PTL

-----------------------------------------------------------------------------
(* The ledger's files *)

Places == {"idle", "save", "write", "copy", "copying", "rename", "quarantine", "recover",
           "recovering"}
Content == Nat \cup {Absent, Torn}

LedgerTypes ==
  /\ up \in BOOLEAN /\ ledger \in Nat /\ loaded \in Nat
  /\ writer \in [Writers -> Places] /\ snapshot \in [Writers -> Nat]
  /\ handle \in [Writers -> {"none", "temporary", "path", "gone"}]
  /\ source \in [Writers -> Content]
  /\ path \in Content /\ backup \in Content /\ temporary \in Content
  /\ saved \in Nat \X Nat /\ corrupted \in BOOLEAN /\ cut \in BOOLEAN
  /\ race \in {"none", "past", "now"}

(* Writers that have not overlapped: one works at a time, and its file and   *)
(* the content it copies are where it put them.                             *)
OneWriter ==
  /\ writer["gateway"] = "idle" \/ writer["loader"] = "idle"
  /\ writer["gateway"] \in {"idle", "write", "copy", "copying", "rename"}
  /\ \A w \in Writers :
       /\ writer[w] = "write" => handle[w] = "temporary"
       /\ writer[w] \in {"copy", "copying", "rename"} => temporary = snapshot[w]
       /\ writer[w] = "copying" => source[w] = path
  /\ writer["loader"] = "recovering" =>
       handle["loader"] = "path" /\ source["loader"] = loaded /\ backup = loaded

(* What the last-good copy is worth: at least a total.                     *)
Backed(total) == backup >= total \/ total = 0

(* While no fault has struck the last-good copy when it was not good, a     *)
(* file that is not damaged is the last save, and the copy holds the save   *)
(* before it whenever the file can be damaged or is.                       *)
LedgerFits ==
  /\ writer["loader"] \in {"quarantine", "recover", "recovering"} => corrupted
  /\ corrupted /\ writer["loader"] \notin {"recover", "recovering"} => path = Torn
  /\ ~corrupted => path = saved[1] \/ (path = Absent /\ saved = <<0, 0>>)
  /\ ~corrupted /\ up /\ writer["gateway"] = "idle" /\ writer["loader"] = "idle" =>
       backup = Torn \/ Backed(saved[2])
  /\ corrupted /\ ~Exposed => Backed(saved[2])
  /\ \A w \in Writers :
       /\ ~corrupted /\ writer[w] = "rename" => Backed(saved[1])
       /\ corrupted /\ writer[w] = "rename" => backup = Torn
       /\ writer[w] \in {"copy", "copying"} => path # Absent

LedgerInv ==
  /\ LedgerTypes
  /\ race # "now" => OneWriter
  /\ race = "none" /\ ~cut => LedgerFits

LEMMA MaxWithZero ==
  ASSUME NEW a \in Int
  PROVE  Max({a, 0}) = IF a >= 0 THEN a ELSE 0
PROOF
<1> DEFINE m == IF a >= 0 THEN a ELSE 0
<1>1. m \in {a, 0} /\ \A y \in {a, 0} : m >= y
  OBVIOUS
<1>2. \A x \in {a, 0} : (\A y \in {a, 0} : x >= y) => x = m
  OBVIOUS
<1>3. Max({a, 0}) \in {a, 0} /\ \A y \in {a, 0} : Max({a, 0}) >= y
  BY <1>1, Zenon DEF Max
<1> QED
  BY <1>2, <1>3

LEMMA LedgerInvGivesWhole == LedgerInv => LedgerIsWhole
PROOF
<1> SUFFICES ASSUME LedgerInv, race = "none", ~cut, corrupted => ~Exposed
             PROVE  Loads >= (IF corrupted THEN saved[2] ELSE saved[1])
  BY DEF LedgerIsWhole, Faultless, Expected
<1> USE DEF LedgerInv, LedgerTypes, LedgerFits, Content, Absent, Torn, Intact, Backed
<1>1. CASE ~corrupted
  BY <1>1 DEF Loads
<1>2. CASE corrupted
  <2>1. path = Torn /\ Backed(saved[2])
    BY <1>2 DEF Exposed, Places, Writers
  <2>2. backup \in Int
    OBVIOUS
  <2>3. Max({backup, 0}) >= saved[2]
    BY <2>1, <2>2, MaxWithZero
  <2>4. ~Intact(path) /\ path # Absent
    BY <2>1
  <2>5. Loads = Max({backup, 0})
    <3> HIDE DEF Intact, Absent, Torn
    <3> QED
      BY <2>4 DEF Loads
  <2> QED
    BY <1>2, <2>3, <2>5
<1> QED
  BY <1>1, <1>2

LEMMA LedgerInitInv == FilesInit => LedgerInv
PROOF
<1> SUFFICES ASSUME FilesInit PROVE LedgerInv
  OBVIOUS
<1>1. LedgerTypes
  BY DEF FilesInit, LedgerTypes, Content, Places, Writers
<1>2. LedgerFits
  BY DEF FilesInit, LedgerFits, Backed, Exposed, Writers
<1>3. OneWriter
  BY DEF FilesInit, OneWriter, Writers
<1> QED
  BY <1>1, <1>2, <1>3 DEF LedgerInv

LEMMA LedgerStepInv ==
  ASSUME LedgerInv, LedgerStep \/ CrashGateway
  PROVE  LedgerInv'
PROOF
<1> USE DEF LedgerInv, LedgerTypes, OneWriter, LedgerFits, Content, Places, Absent, Torn, Backed,
            Exposed, Intact, SameFiles, historyVars, Writers, Other, Busy, Goes, Overlap, Left
<1>1. CASE Spend
  BY <1>1 DEF Spend
<1>2. ASSUME NEW w \in Writers, save_open(w)
      PROVE  LedgerInv'
  <2>1. CASE w = "gateway"
    BY <1>2, <2>1 DEF save_open, Saves
  <2>2. CASE w = "loader"
    BY <1>2, <2>2 DEF save_open, Saves
  <2> QED
    BY <2>1, <2>2
<1>3. ASSUME NEW w \in Writers, save_write(w)
      PROVE  LedgerInv'
  <2>1. CASE w = "gateway"
    BY <1>3, <2>1 DEF save_write
  <2>2. CASE w = "loader"
    BY <1>3, <2>2 DEF save_write
  <2> QED
    BY <2>1, <2>2
<1>4. ASSUME NEW w \in Writers, save_copy_open(w)
      PROVE  LedgerInv'
  <2>1. CASE w = "gateway"
    BY <1>4, <2>1 DEF save_copy_open, SaveFails
  <2>2. CASE w = "loader"
    BY <1>4, <2>2 DEF save_copy_open, SaveFails
  <2> QED
    BY <2>1, <2>2
<1>5. ASSUME NEW w \in Writers, save_copy(w)
      PROVE  LedgerInv'
  <2>1. CASE w = "gateway"
    BY <1>5, <2>1 DEF save_copy
  <2>2. CASE w = "loader"
    BY <1>5, <2>2 DEF save_copy
  <2> QED
    BY <2>1, <2>2
<1>6. ASSUME NEW w \in Writers, save_rename(w)
      PROVE  LedgerInv'
  <2>1. CASE temporary = Absent /\ SaveFails(w)
    <3>1. race # "now" => FALSE
      BY <1>6, <2>1 DEF save_rename
    <3>2. LedgerTypes' /\ race' = "now"
      BY <2>1, <3>1 DEF SaveFails
    <3> QED
      BY <3>2
  <2>2. CASE temporary # Absent /\ ~(temporary = Absent /\ SaveFails(w))
    <3>1. handle' \in [Writers -> {"none", "temporary", "path", "gone"}]
      <4>1. \A h \in {"none", "temporary", "path", "gone"} :
              h \in DOMAIN Replacing => Replacing[h] \in {"path", "gone"}
        BY DEF Replacing
      <4> QED
        BY <1>6, <2>2, <4>1 DEF save_rename, Moved
    <3>2. /\ path' = temporary /\ temporary' = Absent /\ backup' = backup
          /\ saved' = <<snapshot[w], IF race = "none" THEN saved[1] ELSE 0>>
          /\ corrupted' = FALSE /\ cut' = cut /\ up' = TRUE
          /\ writer' = [writer EXCEPT ![w] = "idle"] /\ writer[w] = "rename"
          /\ race' = IF Alone(w) THEN "none" ELSE IF Busy(Other(w)) THEN "now" ELSE race
          /\ loaded' = loaded /\ snapshot' = snapshot /\ source' = source
      BY <1>6, <2>2 DEF save_rename
    <3>3. LedgerTypes'
      <4>1. saved' \in Nat \X Nat
        BY <3>2
      <4>2. ledger' \in Nat /\ race' \in {"none", "past", "now"}
        BY <1>6, <2>2, <3>2 DEF save_rename
      <4> QED
        BY <3>1, <3>2, <4>1, <4>2
    <3>4. race' # "now" => race # "now" /\ writer[Other(w)] = "idle"
      BY <3>2 DEF Alone
    <3>5. race' # "now" => OneWriter'
      <4>1. race' # "now" => writer'["gateway"] = "idle" /\ writer'["loader"] = "idle"
        BY <3>2, <3>4
      <4> QED
        BY <4>1
    <3>6. race' = "none" /\ ~cut' => LedgerFits'
      <4> SUFFICES ASSUME race' = "none", ~cut' PROVE LedgerFits'
        OBVIOUS
      <4>1. writer'["gateway"] = "idle" /\ writer'["loader"] = "idle" /\ path' = snapshot[w]
        BY <3>2, <3>4
      <4>2. saved'[1] = snapshot[w] /\ saved'[2] = IF race = "none" THEN saved[1] ELSE 0
        BY <3>2
      <4>3. backup' = Torn \/ Backed(saved[2])'
        BY <3>2, <4>2
      <4> QED
        BY <3>2, <4>1, <4>2, <4>3
    <3> QED
      BY <3>3, <3>5, <3>6
  <2> QED
    BY <1>6, <2>1, <2>2 DEF save_rename
<1>7. CASE load_savings_ledger
  BY <1>7 DEF load_savings_ledger
<1>8. CASE quarantine
  BY <1>8 DEF quarantine, Moved, Removing
<1>9. CASE recover_refused
  BY <1>9 DEF recover_refused
<1>10. CASE recover_open
  BY <1>10 DEF recover_open
<1>11. CASE recover_copy
  BY <1>11 DEF recover_copy
<1>12. CASE Damage
  BY <1>12 DEF Damage
<1>13. CASE CrashGateway
  BY <1>13 DEF CrashGateway
<1> QED
  BY <1>1, <1>2, <1>3, <1>4, <1>5, <1>6, <1>7, <1>8, <1>9, <1>10, <1>11, <1>12, <1>13
     DEF LedgerStep

-----------------------------------------------------------------------------
(* Project directories *)

JobPlaces == {"free", "profile", "manifest", "activate", "quarantine", "remove"}

ProjectTypes ==
  /\ visible \in [Projects -> {NoDir} \cup SUBSET Files]
  /\ job \in [Commands -> [at : JobPlaces, project : Projects \cup {NoProject}, files : SUBSET Files]]
  /\ spoilt \in BOOLEAN

(* Only whole directories are renamed, into place or out of it.            *)
JobFits(j) ==
  /\ j.at # "free" => j.project \in Projects
  /\ j.at = "manifest" => j.files = {"profile"}
  /\ j.at = "activate" => j.files = Files
  /\ j.at = "remove" /\ ~spoilt => j.files = Files

ProjectInv == ProjectTypes /\ (\A c \in Commands : JobFits(job[c])) /\ ProjectsAreWhole

LEMMA NoDirIsNoFiles == \A f \in SUBSET Files : f # NoDir
PROOF
  BY DEF NoDir, Files

LEMMA ProjectInitInv == FilesInit => ProjectInv
PROOF
<1> SUFFICES ASSUME FilesInit PROVE ProjectInv
  OBVIOUS
<1>1. ProjectTypes
  BY DEF FilesInit, ProjectTypes, JobPlaces, NoCommand, NoProject
<1>2. \A c \in Commands : JobFits(job[c])
  BY DEF FilesInit, JobFits, NoCommand
<1>3. ProjectsAreWhole
  BY DEF FilesInit, ProjectsAreWhole
<1> QED
  BY <1>1, <1>2, <1>3 DEF ProjectInv

(* A command that ends or dies leaves a fitting table of commands.         *)
LEMMA CommandEnds ==
  ASSUME ProjectInv, NEW c \in Commands, job' = [job EXCEPT ![c] = NoCommand], spoilt => spoilt'
  PROVE  /\ job' \in [Commands -> [at : JobPlaces, project : Projects \cup {NoProject}, files : SUBSET Files]]
         /\ \A d \in Commands : JobFits(job[d])'
PROOF
  BY DEF ProjectInv, ProjectTypes, JobPlaces, JobFits, NoCommand, NoProject

LEMMA ProjectStepInv ==
  ASSUME ProjectInv, ProjectStep
  PROVE  ProjectInv'
PROOF
<1> USE DEF ProjectTypes, JobPlaces, JobFits, ProjectsAreWhole
<1> USE NoDirIsNoFiles
<1>1. ASSUME NEW c \in Commands, NEW p \in Projects, setup(c, p)
      PROVE  ProjectInv'
  BY <1>1 DEF ProjectInv, setup, NoCommand
<1>2. ASSUME NEW c \in Commands, NEW p \in Projects, rollback(c, p)
      PROVE  ProjectInv'
  BY <1>2 DEF ProjectInv, rollback, NoCommand
<1>3. ASSUME NEW c \in Commands, write_profile(c)
      PROVE  ProjectInv'
  BY <1>3 DEF ProjectInv, write_profile, Files
<1>4. ASSUME NEW c \in Commands, write_manifest(c)
      PROVE  ProjectInv'
  BY <1>4 DEF ProjectInv, write_manifest, Files
<1>5. ASSUME NEW c \in Commands, write_project_atomically(c)
      PROVE  ProjectInv'
  BY <1>5, CommandEnds DEF ProjectInv, write_project_atomically
<1>6. ASSUME NEW c \in Commands, rollback_rename(c)
      PROVE  ProjectInv'
  <2> DEFINE p == job[c].project
  <2>1. p \in Projects /\ visible[p] \in {NoDir} \cup SUBSET Files
    BY <1>6 DEF ProjectInv, rollback_rename
  <2>2. CASE visible[p] = NoDir
    BY <1>6, <2>2, CommandEnds DEF ProjectInv, rollback_rename
  <2>3. CASE visible[p] # NoDir
    BY <1>6, <2>1, <2>3 DEF ProjectInv, rollback_rename
  <2> QED
    BY <2>2, <2>3
<1>7. ASSUME NEW c \in Commands, rollback_remove(c)
      PROVE  ProjectInv'
  BY <1>7, CommandEnds DEF ProjectInv, rollback_remove
<1>8. ASSUME NEW c \in Commands, rollback_restore(c)
      PROVE  ProjectInv'
  <2> DEFINE p == job[c].project
  <2>1. PICK left \in SUBSET job[c].files :
          visible' = [visible EXCEPT ![p] = left] /\ spoilt' = (spoilt \/ left # job[c].files)
    BY <1>8 DEF rollback_restore
  <2>2. job' = [job EXCEPT ![c] = NoCommand] /\ job[c].at = "remove"
    BY <1>8 DEF rollback_restore
  <2>3. p \in Projects /\ left \in SUBSET Files
    BY <2>1, <2>2 DEF ProjectInv
  <2>4. spoilt' \in BOOLEAN /\ (spoilt => spoilt') /\ (~spoilt' => left = Files)
    BY <2>1, <2>2 DEF ProjectInv
  <2>5. visible' \in [Projects -> {NoDir} \cup SUBSET Files]
    BY <2>1, <2>3 DEF ProjectInv
  <2>6. ProjectsAreWhole'
    BY <2>1, <2>3, <2>4 DEF ProjectInv
  <2> QED
    BY <2>2, <2>4, <2>5, <2>6, CommandEnds DEF ProjectInv
<1>9. CASE merge_owned_projects
  BY <1>9 DEF ProjectInv, merge_owned_projects
<1> QED
  BY <1>1, <1>2, <1>3, <1>4, <1>5, <1>6, <1>7, <1>8, <1>9 DEF ProjectStep

-----------------------------------------------------------------------------
(* The helper's store *)

Modes == {"none", "private", "open", "used", "torn", "isolated", "edited"}
Stores == [mode : Modes, marker : Modes, config : Modes, auth : Modes, workspace : Modes,
           scratch : Modes]
Placed == {"chat", "ready", "home", "work", "auth", "config", "scratch", "spawn", "running"}
ServerPlaces == {"off", "stage", "marker", "rename"} \cup Placed

StoreTypes ==
  /\ home \in Stores /\ meddles \in Nat
  /\ server \in [Servers -> [at : ServerPlaces, made : BOOLEAN, staged : Stores, view : Stores]]

(* What a gateway has seen of the store stays so while it is at work, since *)
(* the user does not touch it then and other gateways only make it more    *)
(* private.                                                                *)
ServerFits(v, h, m) ==
  /\ v.at \in {"marker", "rename"} => v.staged.mode = "private"
  /\ v.at = "rename" => v.staged.marker = "private"
  /\ v.at \in Placed /\ m = 0 => h.mode # "none"
  /\ v.at \in {"work", "auth", "config", "scratch", "spawn"} => h.mode = "private"
  /\ v.at \in {"auth", "config", "scratch", "spawn"} => h.workspace = "private"
  /\ v.at \in {"scratch", "spawn"} => h.config = isolated_config
  /\ v.at = "spawn" => h.scratch = "private"
  /\ v.at = "running" =>
       /\ v.view.config = isolated_config
       /\ v.view.mode = "private" /\ v.view.workspace = "private" /\ v.view.scratch = "private"

StoreFits(h, m) == m = 0 /\ h.mode # "none" => h.mode = "private" /\ h.marker = "private"

StoreInv ==
  /\ StoreTypes /\ StoreFits(home, meddles)
  /\ \A s \in Servers : ServerFits(server[s], home, meddles)

LEMMA StoreInvGivesWhole == StoreInv => StoreIsWhole
PROOF
  BY DEF StoreInv, StoreFits, ServerFits, StoreIsWhole, verify_private_directory, verify_store_marker

LEMMA StoreInitInv == StoreInit => StoreInv
PROOF
  BY DEF StoreInit, StoreInv, StoreTypes, Stores, Modes, Placed, ServerPlaces, ServerFits, StoreFits,
         NoServer, NoStore

(* The store is at least as private as it was.                             *)
Kept(h) ==
  /\ home.mode # "none" => h.mode # "none"
  /\ home.mode = "private" => h.mode = "private"
  /\ home.workspace = "private" => h.workspace = "private"
  /\ home.scratch = "private" => h.scratch = "private"
  /\ home.config = isolated_config => h.config = isolated_config

IsServer(v) == v \in [at : ServerPlaces, made : BOOLEAN, staged : Stores, view : Stores]

(* One gateway moves: what has to be shown of it and of the store.         *)
LEMMA ServerMoves ==
  ASSUME StoreInv, NEW s \in Servers, IsServer(server'[s]), home' \in Stores, UNCHANGED meddles,
         server' \in [Servers -> {server'[s]} \cup {server[t] : t \in Servers}],
         \A t \in Servers \ {s} : server'[t] = server[t],
         Kept(home'), StoreFits(home', meddles), ServerFits(server'[s], home', meddles)
  PROVE  StoreInv'
PROOF
<1>1. ASSUME NEW t \in Servers
      PROVE  ServerFits(server'[t], home', meddles') /\ IsServer(server'[t])
  <2>1. CASE t = s
    BY <2>1
  <2>2. CASE t # s
    <3>1. server'[t] = server[t] /\ ServerFits(server[t], home, meddles)
      BY <2>2 DEF StoreInv
    <3> QED
      BY <3>1 DEF StoreInv, StoreTypes, IsServer, ServerFits, Kept
  <2> QED
    BY <2>1, <2>2
<1>2. StoreTypes'
  BY <1>1 DEF StoreInv, StoreTypes, IsServer
<1> QED
  BY <1>1, <1>2 DEF StoreInv

LEMMA RunsWith ==
  ASSUME NEW v, IsServer(v), NEW h
  PROVE  [v EXCEPT !.at = "running", !.view = h] =
           [at |-> "running", made |-> v.made, staged |-> v.staged, view |-> h]
PROOF
<1> DEFINE w == [v EXCEPT !.at = "running"]
<1>1. /\ w \in [at : ServerPlaces, made : BOOLEAN, staged : Stores, view : Stores]
      /\ w.at = "running" /\ w.made = v.made /\ w.staged = v.staged
  BY DEF IsServer, ServerPlaces, Placed
<1> HIDE DEF w
<1>2. [w EXCEPT !.view = h] =
        [at |-> "running", made |-> v.made, staged |-> v.staged, view |-> h]
  BY <1>1
<1> QED
  BY <1>2 DEF w

LEMMA StoreStepInv ==
  ASSUME StoreInv, NEW s \in Servers, StoreStep(s), UNCHANGED meddles
  PROVE  StoreInv'
PROOF
<1> DEFINE q == server[s]
           Going(x) == [at |-> x, made |-> FALSE, staged |-> q.staged, view |-> q.view]
           Staging(x, g) == [at |-> x, made |-> q.made, staged |-> g, view |-> q.view]
           Making == [at |-> q.at, made |-> TRUE, staged |-> q.staged, view |-> q.view]
           Better(h) == h \in Stores /\ Kept(h) /\ StoreFits(h, meddles)
<1>0. /\ IsServer(q) /\ home \in Stores /\ StoreFits(home, meddles) /\ ServerFits(q, home, meddles)
      /\ server \in [Servers -> [at : ServerPlaces, made : BOOLEAN, staged : Stores, view : Stores]]
  BY DEF StoreInv, StoreTypes, IsServer
<1>1. ASSUME NEW x, server' = [server EXCEPT ![s] = x], IsServer(x), Better(home'),
             ServerFits(x, home', meddles)
      PROVE  StoreInv'
  <2>1. /\ server'[s] = x
        /\ server' \in [Servers -> {server'[s]} \cup {server[t] : t \in Servers}]
        /\ \A t \in Servers \ {s} : server'[t] = server[t]
    BY <1>0, <1>1
  <2> QED
    BY <1>1, <2>1, ServerMoves, Zenon
<1>2. \A x : Goto(s, x) => server' = [server EXCEPT ![s] = Going(x)]
  BY <1>0 DEF Goto, IsServer
<1>3. \A x, g : Stage(s, x, g) => server' = [server EXCEPT ![s] = Staging(x, g)]
  BY <1>0 DEF Stage, IsServer
<1>4. server' = [server EXCEPT ![s].made = TRUE] => server' = [server EXCEPT ![s] = Making]
  BY <1>0 DEF IsServer
<1>5. home' = home => Better(home')
  BY <1>0 DEF Kept
<1>6. ASSUME NEW x, Goto(s, x), Better(home'), IsServer(Going(x)), ServerFits(Going(x), home', meddles)
      PROVE  StoreInv'
  BY <1>1, <1>2, <1>6
<1>7. ASSUME NEW x, NEW g, Stage(s, x, g), Better(home'), IsServer(Staging(x, g)),
             ServerFits(Staging(x, g), home', meddles)
      PROVE  StoreInv'
  BY <1>1, <1>3, <1>7
<1>8. ASSUME server' = [server EXCEPT ![s].made = TRUE], Better(home'), IsServer(Making),
             ServerFits(Making, home', meddles)
      PROVE  StoreInv'
  BY <1>1, <1>4, <1>8
<1> HIDE DEF Going, Staging, Making, Better
<1>9. CASE prepare_owned_store(s)
  <2>1. CASE home.mode = "private" /\ home.marker = "private" /\ Goto(s, "chat") /\ UNCHANGED home
    <3>1. IsServer(Going("chat")) /\ ServerFits(Going("chat"), home', meddles)
      BY <1>0, <2>1 DEF Going, Staging, Making, IsServer, Stores, Modes, Placed, ServerPlaces, ServerFits, isolated_config,
       Created, NoStore
    <3> QED
      BY <1>5, <1>6, <2>1, <3>1
  <2>2. ASSUME NEW mode \in Created, home' = home,
               Stage(s, "stage", [NoStore EXCEPT !.mode = mode])
        PROVE  StoreInv'
    <3> DEFINE g == [NoStore EXCEPT !.mode = mode]
    <3>1. IsServer(Staging("stage", g)) /\ ServerFits(Staging("stage", g), home', meddles)
      BY <1>0, <2>2 DEF Going, Staging, Making, IsServer, Stores, Modes, Placed, ServerPlaces, ServerFits, isolated_config,
       Created, NoStore
    <3> QED
      BY <1>5, <1>7, <2>2, <3>1
  <2> QED
    BY <1>9, <2>1, <2>2 DEF prepare_owned_store, verify_private_directory, verify_store_marker
<1>10. CASE stage_private(s)
  <2> DEFINE g == [q.staged EXCEPT !.mode = "private"]
  <2>1. IsServer(Staging("marker", g)) /\ ServerFits(Staging("marker", g), home', meddles)
    BY <1>0, <1>10 DEF stage_private, Going, Staging, Making, IsServer, Stores, Modes, Placed, ServerPlaces, ServerFits, isolated_config,
       Created, NoStore
  <2> QED
    BY <1>5, <1>7, <1>10, <2>1 DEF stage_private
<1>11. CASE create_store_marker(s)
  <2> DEFINE g == [q.staged EXCEPT !.marker = "torn"]
             k == [q.staged EXCEPT !.marker = "private"]
  <2>1. IsServer(Staging("marker", g)) /\ ServerFits(Staging("marker", g), home', meddles)
    BY <1>0, <1>11 DEF create_store_marker, Going, Staging, Making, IsServer, Stores, Modes, Placed, ServerPlaces, ServerFits, isolated_config,
       Created, NoStore
  <2>2. IsServer(Staging("rename", k)) /\ ServerFits(Staging("rename", k), home', meddles)
    BY <1>0, <1>11 DEF create_store_marker, Going, Staging, Making, IsServer, Stores, Modes, Placed, ServerPlaces, ServerFits, isolated_config,
       Created, NoStore
  <2> QED
    BY <1>5, <1>7, <1>11, <2>1, <2>2 DEF create_store_marker
<1>12. CASE rename_store(s)
  <2> DEFINE free == home = [NoStore EXCEPT !.mode = home.mode]
             at == IF free THEN "chat" ELSE "off"
             x == [at |-> at, made |-> q.made, staged |-> NoStore, view |-> q.view]
  <2>1. q.at = "rename" /\ q.staged.mode = "private" /\ q.staged.marker = "private"
    BY <1>0, <1>12 DEF rename_store, ServerFits
  <2>2. home' = IF free THEN q.staged ELSE home
    BY <1>12 DEF rename_store
  <2>3. server' = [server EXCEPT ![s] = x]
    BY <1>0, <1>12, <2>1, <2>2
       DEF rename_store, IsServer, verify_private_directory, verify_store_marker
  <2>4. Better(home')
    BY <1>0, <2>1, <2>2 DEF Better, Kept, StoreFits, IsServer, Stores, Modes, NoStore, isolated_config
  <2>5. IsServer(x) /\ ServerFits(x, home', meddles)
    BY <1>0, <2>1, <2>2 DEF Going, Staging, Making, IsServer, Stores, Modes, Placed, ServerPlaces, ServerFits, isolated_config,
       Created, NoStore
  <2> QED
    BY <1>1, <2>3, <2>4, <2>5
<1>13. CASE spawn_process(s)
  <2>1. IsServer(Going("home")) /\ ServerFits(Going("home"), home', meddles)
    BY <1>0, <1>13 DEF spawn_process, Going, Staging, Making, IsServer, Stores, Modes, Placed, ServerPlaces, ServerFits, isolated_config,
       Created, NoStore
  <2> QED
    BY <1>5, <1>6, <1>13, <2>1 DEF spawn_process
<1>14. CASE verify_private_file_or_absent(s)
  <2>1. /\ IsServer(Going("config")) /\ ServerFits(Going("config"), home', meddles)
        /\ IsServer(Going("ready")) /\ ServerFits(Going("ready"), home', meddles)
    BY <1>0, <1>14 DEF verify_private_file_or_absent, Going, Staging, Making, IsServer, Stores, Modes, Placed, ServerPlaces, ServerFits, isolated_config,
       Created, NoStore
  <2> QED
    BY <1>5, <1>6, <1>14, <2>1 DEF verify_private_file_or_absent
<1>15. CASE prepare_isolated_config(s)
  <2>0. q.at = "config"
    BY <1>15 DEF prepare_isolated_config
  <2>1. CASE q.made /\ home' = [home EXCEPT !.config = isolated_config] /\ Goto(s, "scratch")
    <3>1. Better(home')
      BY <1>0, <2>1 DEF Better, Kept, StoreFits, Stores, Modes, isolated_config
    <3>2. IsServer(Going("scratch")) /\ ServerFits(Going("scratch"), home', meddles)
      BY <1>0, <2>0, <2>1 DEF Going, Staging, Making, IsServer, Stores, Modes, Placed, ServerPlaces, ServerFits, isolated_config,
       Created, NoStore
    <3> QED
      BY <1>6, <2>1, <3>1, <3>2
  <2>2. CASE /\ home.config = "none" /\ home' = [home EXCEPT !.config = "torn"]
             /\ server' = [server EXCEPT ![s].made = TRUE]
    <3>1. Better(home')
      BY <1>0, <2>2 DEF Better, Kept, StoreFits, Stores, Modes, isolated_config
    <3>2. IsServer(Making) /\ ServerFits(Making, home', meddles)
      BY <1>0, <2>0, <2>2 DEF Going, Staging, Making, IsServer, Stores, Modes, Placed, ServerPlaces, ServerFits, isolated_config,
       Created, NoStore
    <3> QED
      BY <1>8, <2>2, <3>1, <3>2
  <2>3. CASE home.config = isolated_config /\ Goto(s, "scratch") /\ home' = home
    <3>1. IsServer(Going("scratch")) /\ ServerFits(Going("scratch"), home', meddles)
      BY <1>0, <2>0, <2>3 DEF Going, Staging, Making, IsServer, Stores, Modes, Placed, ServerPlaces, ServerFits, isolated_config,
       Created, NoStore
    <3> QED
      BY <1>5, <1>6, <2>3, <3>1
  <2>4. CASE Goto(s, "ready") /\ home' = home
    <3>1. IsServer(Going("ready")) /\ ServerFits(Going("ready"), home', meddles)
      BY <1>0, <2>0, <2>4 DEF Going, Staging, Making, IsServer, Stores, Modes, Placed, ServerPlaces, ServerFits, isolated_config,
       Created, NoStore
    <3> QED
      BY <1>5, <1>6, <2>4, <3>1
  <2> QED
    BY <1>0, <1>15, <2>1, <2>2, <2>3, <2>4 DEF prepare_isolated_config
<1>16. CASE start_helper(s)
  <2> DEFINE x == [at |-> "running", made |-> q.made, staged |-> q.staged, view |-> home]
  <2>1. server' = [server EXCEPT ![s] = x]
    <3>1. server' = [server EXCEPT ![s] = [q EXCEPT !.at = "running", !.view = home]]
      BY <1>0, <1>16 DEF start_helper
    <3>2. [q EXCEPT !.at = "running", !.view = home] = x
      BY <1>0, RunsWith, Zenon
    <3> QED
      BY <3>1, <3>2
  <2>2. IsServer(x) /\ ServerFits(x, home', meddles)
    BY <1>0, <1>16 DEF start_helper, Going, Staging, Making, IsServer, Stores, Modes, Placed, ServerPlaces, ServerFits, isolated_config,
       Created, NoStore
  <2> QED
    BY <1>1, <1>5, <1>16, <2>1, <2>2 DEF start_helper
<1>17. CASE StoreCredentials(s)
  <2>1. PICK mode \in Created : home' = [home EXCEPT !.auth = mode]
    BY <1>17 DEF StoreCredentials
  <2>2. Better(home')
    BY <1>0, <2>1 DEF Better, Kept, StoreFits, Stores, Modes, Created
  <2>3. server' = [server EXCEPT ![s] = q]
    BY <1>0, <1>17 DEF StoreCredentials
  <2>4. ServerFits(q, home', meddles)
    BY <1>0, <1>17, <2>1 DEF StoreCredentials, Going, Staging, Making, IsServer, Stores, Modes, Placed, ServerPlaces, ServerFits, isolated_config,
       Created, NoStore
  <2> QED
    BY <1>0, <1>1, <2>2, <2>3, <2>4
<1>18. CASE verify_auth_store_permissions(s)
  <2>1. IsServer(Going("ready")) /\ ServerFits(Going("ready"), home', meddles)
    BY <1>0, <1>18 DEF verify_auth_store_permissions, Going, Staging, Making, IsServer, Stores, Modes, Placed, ServerPlaces, ServerFits, isolated_config,
       Created, NoStore
  <2> QED
    BY <1>5, <1>6, <1>18, <2>1 DEF verify_auth_store_permissions
<1>19. CASE q.at = "chat" /\ MakePrivate(s)
  <2>1. Needs[q.at][1] = "workspace" /\ Needs[q.at][2] = "ready" /\ Needs[q.at][3] = "off"
    BY <1>19 DEF Needs
  <2>2. CASE home' = [home EXCEPT !.workspace = "private"] /\ Goto(s, "ready")
    <3>1. Better(home')
      BY <1>0, <1>19, <2>2 DEF Better, Kept, Stores, Modes, StoreFits, ServerFits, Placed
    <3>2. IsServer(Going("ready")) /\ ServerFits(Going("ready"), home', meddles)
      BY <1>0, <1>19, <2>2 DEF Going, Staging, Making, IsServer, Stores, Modes, Placed, ServerPlaces, ServerFits, isolated_config,
       Created, NoStore
    <3> QED
      BY <1>6, <2>2, <3>1, <3>2
  <2>3. ASSUME NEW mode \in Created, home.workspace = "none", home' = [home EXCEPT !.workspace = mode],
               server' = [server EXCEPT ![s].made = TRUE]
        PROVE  StoreInv'
    <3>1. Better(home')
      BY <1>0, <1>19, <2>3 DEF Better, Kept, Stores, Modes, StoreFits, ServerFits, Placed, Created
    <3>2. IsServer(Making) /\ ServerFits(Making, home', meddles)
      BY <1>0, <1>19, <2>3 DEF Going, Staging, Making, IsServer, Stores, Modes, Placed, ServerPlaces, ServerFits, isolated_config,
       Created, NoStore
    <3> QED
      BY <1>8, <2>3, <3>1, <3>2
  <2>4. CASE home.workspace = "private" /\ Goto(s, "ready") /\ home' = home
    <3>1. IsServer(Going("ready")) /\ ServerFits(Going("ready"), home', meddles)
      BY <1>0, <1>19, <2>4 DEF Going, Staging, Making, IsServer, Stores, Modes, Placed, ServerPlaces, ServerFits, isolated_config,
       Created, NoStore
    <3> QED
      BY <1>5, <1>6, <2>4, <3>1
  <2>5. CASE Goto(s, "off") /\ home' = home
    <3>1. IsServer(Going("off")) /\ ServerFits(Going("off"), home', meddles)
      BY <1>0, <1>19, <2>5 DEF Going, Staging, Making, IsServer, Stores, Modes, Placed, ServerPlaces, ServerFits, isolated_config,
       Created, NoStore
    <3> QED
      BY <1>5, <1>6, <2>5, <3>1
  <2> QED
    BY <1>0, <1>19, <2>1, <2>2, <2>3, <2>4, <2>5
       DEF MakePrivate, verify_private_directory_metadata, verify_empty_directory
<1>20. CASE q.at = "home" /\ MakePrivate(s)
  <2>1. Needs[q.at][1] = "mode" /\ Needs[q.at][2] = "work" /\ Needs[q.at][3] = "ready"
    BY <1>20 DEF Needs
  <2>2. CASE home' = [home EXCEPT !.mode = "private"] /\ Goto(s, "work")
    <3>1. Better(home')
      BY <1>0, <1>20, <2>2 DEF Better, Kept, Stores, Modes, StoreFits, ServerFits, Placed
    <3>2. IsServer(Going("work")) /\ ServerFits(Going("work"), home', meddles)
      BY <1>0, <1>20, <2>2 DEF Going, Staging, Making, IsServer, Stores, Modes, Placed, ServerPlaces, ServerFits, isolated_config,
       Created, NoStore
    <3> QED
      BY <1>6, <2>2, <3>1, <3>2
  <2>3. ASSUME NEW mode \in Created, home.mode = "none", home' = [home EXCEPT !.mode = mode],
               server' = [server EXCEPT ![s].made = TRUE]
        PROVE  StoreInv'
    <3>1. Better(home')
      BY <1>0, <1>20, <2>3 DEF Better, Kept, Stores, Modes, StoreFits, ServerFits, Placed, Created
    <3>2. IsServer(Making) /\ ServerFits(Making, home', meddles)
      BY <1>0, <1>20, <2>3 DEF Going, Staging, Making, IsServer, Stores, Modes, Placed, ServerPlaces, ServerFits, isolated_config,
       Created, NoStore
    <3> QED
      BY <1>8, <2>3, <3>1, <3>2
  <2>4. CASE home.mode = "private" /\ Goto(s, "work") /\ home' = home
    <3>1. IsServer(Going("work")) /\ ServerFits(Going("work"), home', meddles)
      BY <1>0, <1>20, <2>4 DEF Going, Staging, Making, IsServer, Stores, Modes, Placed, ServerPlaces, ServerFits, isolated_config,
       Created, NoStore
    <3> QED
      BY <1>5, <1>6, <2>4, <3>1
  <2>5. CASE Goto(s, "ready") /\ home' = home
    <3>1. IsServer(Going("ready")) /\ ServerFits(Going("ready"), home', meddles)
      BY <1>0, <1>20, <2>5 DEF Going, Staging, Making, IsServer, Stores, Modes, Placed, ServerPlaces, ServerFits, isolated_config,
       Created, NoStore
    <3> QED
      BY <1>5, <1>6, <2>5, <3>1
  <2> QED
    BY <1>0, <1>20, <2>1, <2>2, <2>3, <2>4, <2>5
       DEF MakePrivate, verify_private_directory_metadata, verify_empty_directory
<1>21. CASE q.at = "work" /\ MakePrivate(s)
  <2>1. Needs[q.at][1] = "workspace" /\ Needs[q.at][2] = "auth" /\ Needs[q.at][3] = "ready"
    BY <1>21 DEF Needs
  <2>2. CASE home' = [home EXCEPT !.workspace = "private"] /\ Goto(s, "auth")
    <3>1. Better(home')
      BY <1>0, <1>21, <2>2 DEF Better, Kept, Stores, Modes, StoreFits, ServerFits, Placed
    <3>2. IsServer(Going("auth")) /\ ServerFits(Going("auth"), home', meddles)
      BY <1>0, <1>21, <2>2 DEF Going, Staging, Making, IsServer, Stores, Modes, Placed, ServerPlaces, ServerFits, isolated_config,
       Created, NoStore
    <3> QED
      BY <1>6, <2>2, <3>1, <3>2
  <2>3. ASSUME NEW mode \in Created, home.workspace = "none", home' = [home EXCEPT !.workspace = mode],
               server' = [server EXCEPT ![s].made = TRUE]
        PROVE  StoreInv'
    <3>1. Better(home')
      BY <1>0, <1>21, <2>3 DEF Better, Kept, Stores, Modes, StoreFits, ServerFits, Placed, Created
    <3>2. IsServer(Making) /\ ServerFits(Making, home', meddles)
      BY <1>0, <1>21, <2>3 DEF Going, Staging, Making, IsServer, Stores, Modes, Placed, ServerPlaces, ServerFits, isolated_config,
       Created, NoStore
    <3> QED
      BY <1>8, <2>3, <3>1, <3>2
  <2>4. CASE home.workspace = "private" /\ Goto(s, "auth") /\ home' = home
    <3>1. IsServer(Going("auth")) /\ ServerFits(Going("auth"), home', meddles)
      BY <1>0, <1>21, <2>4 DEF Going, Staging, Making, IsServer, Stores, Modes, Placed, ServerPlaces, ServerFits, isolated_config,
       Created, NoStore
    <3> QED
      BY <1>5, <1>6, <2>4, <3>1
  <2>5. CASE Goto(s, "ready") /\ home' = home
    <3>1. IsServer(Going("ready")) /\ ServerFits(Going("ready"), home', meddles)
      BY <1>0, <1>21, <2>5 DEF Going, Staging, Making, IsServer, Stores, Modes, Placed, ServerPlaces, ServerFits, isolated_config,
       Created, NoStore
    <3> QED
      BY <1>5, <1>6, <2>5, <3>1
  <2> QED
    BY <1>0, <1>21, <2>1, <2>2, <2>3, <2>4, <2>5
       DEF MakePrivate, verify_private_directory_metadata, verify_empty_directory
<1>22. CASE q.at = "scratch" /\ MakePrivate(s)
  <2>1. Needs[q.at][1] = "scratch" /\ Needs[q.at][2] = "spawn" /\ Needs[q.at][3] = "ready"
    BY <1>22 DEF Needs
  <2>2. CASE home' = [home EXCEPT !.scratch = "private"] /\ Goto(s, "spawn")
    <3>1. Better(home')
      BY <1>0, <1>22, <2>2 DEF Better, Kept, Stores, Modes, StoreFits, ServerFits, Placed
    <3>2. IsServer(Going("spawn")) /\ ServerFits(Going("spawn"), home', meddles)
      BY <1>0, <1>22, <2>2 DEF Going, Staging, Making, IsServer, Stores, Modes, Placed, ServerPlaces, ServerFits, isolated_config,
       Created, NoStore
    <3> QED
      BY <1>6, <2>2, <3>1, <3>2
  <2>3. ASSUME NEW mode \in Created, home.scratch = "none", home' = [home EXCEPT !.scratch = mode],
               server' = [server EXCEPT ![s].made = TRUE]
        PROVE  StoreInv'
    <3>1. Better(home')
      BY <1>0, <1>22, <2>3 DEF Better, Kept, Stores, Modes, StoreFits, ServerFits, Placed, Created
    <3>2. IsServer(Making) /\ ServerFits(Making, home', meddles)
      BY <1>0, <1>22, <2>3 DEF Going, Staging, Making, IsServer, Stores, Modes, Placed, ServerPlaces, ServerFits, isolated_config,
       Created, NoStore
    <3> QED
      BY <1>8, <2>3, <3>1, <3>2
  <2>4. CASE home.scratch = "private" /\ Goto(s, "spawn") /\ home' = home
    <3>1. IsServer(Going("spawn")) /\ ServerFits(Going("spawn"), home', meddles)
      BY <1>0, <1>22, <2>4 DEF Going, Staging, Making, IsServer, Stores, Modes, Placed, ServerPlaces, ServerFits, isolated_config,
       Created, NoStore
    <3> QED
      BY <1>5, <1>6, <2>4, <3>1
  <2>5. CASE Goto(s, "ready") /\ home' = home
    <3>1. IsServer(Going("ready")) /\ ServerFits(Going("ready"), home', meddles)
      BY <1>0, <1>22, <2>5 DEF Going, Staging, Making, IsServer, Stores, Modes, Placed, ServerPlaces, ServerFits, isolated_config,
       Created, NoStore
    <3> QED
      BY <1>5, <1>6, <2>5, <3>1
  <2> QED
    BY <1>0, <1>22, <2>1, <2>2, <2>3, <2>4, <2>5
       DEF MakePrivate, verify_private_directory_metadata, verify_empty_directory
<1> QED
  BY <1>9, <1>10, <1>11, <1>12, <1>13, <1>14, <1>15, <1>16, <1>17, <1>18, <1>19, <1>20, <1>21, <1>22
     DEF StoreStep, prepare_private_directory, create_private_directory

(* A gateway that stops or dies forgets what it was doing, not the store.  *)
LEMMA RestartInv ==
  ASSUME StoreInv, NEW s \in Servers, Restart(s)
  PROVE  StoreInv'
PROOF
<1>1. server' = [server EXCEPT ![s] = NoServer] /\ UNCHANGED <<home, meddles>>
  BY DEF Restart
<1>2. /\ server'[s] = NoServer
      /\ server' \in [Servers -> {server'[s]} \cup {server[t] : t \in Servers}]
      /\ \A t \in Servers \ {s} : server'[t] = server[t]
  BY <1>1 DEF StoreInv, StoreTypes
<1>3. IsServer(NoServer) /\ ServerFits(NoServer, home', meddles)
  BY DEF IsServer, ServerPlaces, Placed, Stores, Modes, NoServer, NoStore, ServerFits
<1>4. home' \in Stores /\ Kept(home') /\ StoreFits(home', meddles)
  BY <1>1 DEF StoreInv, StoreTypes, Kept
<1> QED
  BY <1>1, <1>2, <1>3, <1>4, ServerMoves

(* The user meddles while no gateway is at work.                           *)
LEMMA MeddleInv ==
  ASSUME StoreInv, Meddle
  PROVE  StoreInv'
PROOF
<1>1. meddles' = meddles + 1 /\ meddles' # 0 /\ meddles' \in Nat /\ UNCHANGED server
  BY DEF Meddle, StoreInv, StoreTypes
<1>2. home' \in Stores
  BY DEF Meddle, StoreInv, StoreTypes, Stores, Modes, NoStore
<1>3. ASSUME NEW s \in Servers
      PROVE  ServerFits(server[s], home', meddles')
  <2>1. server[s].at \in {"off", "ready", "running"}
    BY DEF Meddle, Working
  <2> QED
    BY <1>1, <2>1 DEF StoreInv, ServerFits
<1> QED
  BY <1>1, <1>2, <1>3 DEF StoreInv, StoreTypes, StoreFits

-----------------------------------------------------------------------------

HostVars == <<fileVars, storeVars>>
HostNext ==
  (FilesNext /\ UNCHANGED storeVars) \/ (StoreNext /\ UNCHANGED <<ledgerVars, projectVars>>)
HostInv == LedgerInv /\ ProjectInv /\ StoreInv

LEMMA UntouchedFiles == LedgerInv /\ UNCHANGED ledgerVars => LedgerInv'
PROOF
  BY DEF LedgerInv, LedgerTypes, OneWriter, LedgerFits, Backed, Exposed, ledgerVars, historyVars

LEMMA UntouchedProjects == ProjectInv /\ UNCHANGED <<visible, job, spoilt>> => ProjectInv'
PROOF
  BY DEF ProjectInv, ProjectTypes, JobFits, ProjectsAreWhole

LEMMA UntouchedStore == StoreInv /\ UNCHANGED storeVars => StoreInv'
PROOF
  BY DEF StoreInv, StoreTypes, storeVars

LEMMA HostStepInv == HostInv /\ [HostNext]_HostVars => HostInv'
PROOF
<1> SUFFICES ASSUME HostInv, [HostNext]_HostVars PROVE HostInv'
  OBVIOUS
<1> USE DEF HostInv
<1>1. CASE LedgerStep /\ UNCHANGED <<projectVars, crashes>> /\ UNCHANGED storeVars
  BY <1>1, LedgerStepInv, UntouchedProjects, UntouchedStore DEF projectVars
<1>2. CASE ProjectStep /\ UNCHANGED <<ledgerVars, crashes>> /\ UNCHANGED storeVars
  BY <1>2, ProjectStepInv, UntouchedFiles, UntouchedStore
<1>3. CASE CrashGateway /\ UNCHANGED storeVars
  <2>1. UNCHANGED <<visible, job, spoilt>>
    BY <1>3 DEF CrashGateway
  <2> QED
    BY <1>3, <2>1, LedgerStepInv, UntouchedProjects, UntouchedStore
<1>4. ASSUME NEW c \in Commands, CrashCommand(c), UNCHANGED storeVars
      PROVE  HostInv'
  <2>1. /\ job' = [job EXCEPT ![c] = NoCommand]
        /\ UNCHANGED ledgerVars /\ UNCHANGED <<visible, spoilt>>
    BY <1>4 DEF CrashCommand
  <2>2. ProjectInv'
    BY <2>1, CommandEnds DEF ProjectInv, ProjectTypes, ProjectsAreWhole
  <2> QED
    BY <1>4, <2>1, <2>2, UntouchedFiles, UntouchedStore
<1>5. CASE StoreNext /\ UNCHANGED <<ledgerVars, projectVars>>
  <2>1. LedgerInv' /\ ProjectInv'
    BY <1>5, UntouchedFiles, UntouchedProjects DEF projectVars
  <2>2. StoreInv'
    <3>1. ASSUME NEW s \in Servers, StoreStep(s), UNCHANGED <<meddles, crashes>>
          PROVE  StoreInv'
      BY <3>1, StoreStepInv
    <3> QED
      BY <1>5, <3>1, RestartInv, MeddleInv DEF StoreNext
  <2> QED
    BY <2>1, <2>2
<1>6. CASE UNCHANGED HostVars
  BY <1>6, UntouchedFiles, UntouchedProjects, UntouchedStore DEF HostVars, fileVars, projectVars
<1> QED
  BY <1>1, <1>2, <1>3, <1>4, <1>5, <1>6 DEF HostNext, FilesNext

(* Whatever a crash of a gateway or of a command interrupts, the next start *)
(* finds its files whole: SavingsLedger::save and load_resilient            *)
(* (pricing.rs; a reload's load and save that overlapped a save of the       *)
(* serving gateway is excepted until the gateway saves alone),              *)
(* write_project_atomically and rollback (project_command.rs) *)
(* and the checks before a helper starts (codex_app_server.rs, process.rs). *)
THEOREM StartsFindWholeFiles == HostSpec => []StartFindsWholeFiles
PROOF
<1>1. FilesInit /\ StoreInit => HostInv
  BY LedgerInitInv, ProjectInitInv, StoreInitInv DEF HostInv
<1>2. HostInv => StartFindsWholeFiles
  BY LedgerInvGivesWhole, StoreInvGivesWhole DEF HostInv, ProjectInv, StartFindsWholeFiles
<1>3. HostSpec => []HostInv
  BY <1>1, HostStepInv, PTL DEF HostSpec, HostNext, HostVars
<1> QED
  BY <1>2, <1>3, PTL
=============================================================================
