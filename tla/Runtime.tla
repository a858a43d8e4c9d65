------------------------------ MODULE Runtime -------------------------------
(***************************************************************************)
(* The embedded runtime: the C ABI's calls under the STATE mutex, the      *)
(* server thread with its control channel, the HTTP handlers and the       *)
(* database thread with its job queue.                                     *)
(*                                                                         *)
(* A call that waits for the server thread does so without the mutex,      *)
(* except ggfm_server_start and ggfm_server_transfer_save, which keep it.  *)
(* Handlers are tasks that the runtime drops at an await once the server   *)
(* thread has left its control loop; a job that is already in the queue is *)
(* run all the same.                                                       *)
(*                                                                         *)
(* Every prepare_shutdown writes a copy of its own and publishes it over   *)
(* what was published before, by whichever instance: one whose stop is     *)
(* still being joined works beside its successor on the same file.         *)
(***************************************************************************)
EXTENDS Naturals, Sequences, FiniteSets

CONSTANTS
  Thread,     \* threads of the application that call the C ABI
  Server,     \* server instances; one that has ended may be started again
  Request,    \* mutating HTTP requests, each sent once
  None,       \* no thread, no server
  Allowed     \* what each thread may call

Calls == {"start", "login", "prepare", "stop", "transfer"}

ASSUME RuntimeAssumption ==
  /\ Allowed \in [Thread -> SUBSET Calls]
  /\ None \notin Thread /\ None \notin Server

(* What the control channel carries: who asked, and what for.              *)
Control == [op : {"login", "prepare", "stop"}, from : Thread]

(* The server thread's place in the command it serves.                     *)
Steps == {"idle", "begin", "login", "loggedIn", "checkpoint", "checkpointed", "backup",
          "publish", "reply"}

(* Jobs of the database thread: a handler's mutation, or one the server    *)
(* thread waits for.                                                       *)
Job == [kind : {"mutation"}, req : Request] \cup [kind : {"login", "checkpoint", "backup"}]

VARIABLES
  lock,       \* who holds the mutex of STATE across steps
  state,      \* STATE: the instance, or None
  call,       \* thread -> its call in progress
  control,    \* instance -> its control channel
  phase,      \* instance -> its thread
  serving,    \* instance -> the command being served
  step,       \* instance -> how far
  session,    \* instance -> a session has been published
  db,         \* instance -> its database connection is open
  queue,      \* instance -> its job queue
  handler,    \* request -> its handler
  committed,  \* requests whose mutation has been committed
  snapshot,   \* what the snapshot published last holds
  unsaved,    \* instance -> what the copy it has not published yet holds
  due,        \* history: instance -> answered when its stop was called
  behind,     \* history: instance -> those that held a copy at that moment
  overtaken   \* history: instances over whose snapshot one of these published

vars == <<lock, state, call, control, phase, serving, step, session, db, queue,
          handler, committed, snapshot, unsaved, due, behind, overtaken>>

server == <<control, phase, serving, step, session, db, queue>>
owed == <<due, behind, overtaken>>
data == <<committed, snapshot, unsaved, due, behind, overtaken>>

Idle == [op |-> "none", srv |-> None]
NoCommand == [op |-> "none", from |-> None]
Unsent == [at |-> "new", srv |-> None]

HandlersOf(s) == {r \in Request : handler[r].srv = s}
Detached(s) ==
  [r \in Request |-> IF handler[r].srv = s THEN [at |-> handler[r].at, srv |-> None] ELSE handler[r]]
Live(r) == handler[r].at \in {"arrived", "queued", "committed"}

Init ==
  /\ lock = None /\ state = None
  /\ call = [t \in Thread |-> Idle]
  /\ control = [s \in Server |-> <<>>]
  /\ phase = [s \in Server |-> "off"]
  /\ serving = [s \in Server |-> NoCommand]
  /\ step = [s \in Server |-> "idle"]
  /\ session = [s \in Server |-> FALSE]
  /\ db = [s \in Server |-> FALSE]
  /\ queue = [s \in Server |-> <<>>]
  /\ handler = [r \in Request |-> Unsent]
  /\ committed = {} /\ snapshot = {} /\ unsaved = [s \in Server |-> {}]
  /\ due = [s \in Server |-> {}] /\ behind = [s \in Server |-> {}] /\ overtaken = {}

-----------------------------------------------------------------------------
(* The calls of the C ABI.                                                 *)
Calling(t, op) == call[t] = Idle /\ op \in Allowed[t] /\ lock = None

Return(t) == call' = [call EXCEPT ![t] = Idle]

(* ggfm_server_stop is waiting for the instance's thread to end.           *)
Joined(s) == \E t \in Thread : call[t] = [op |-> "stop", srv |-> s]

(* ggfm_server_start spawns the server thread and waits for it under the   *)
(* mutex; a second start finds STATE occupied and changes nothing.         *)
StartCall(t, s) ==
  /\ Calling(t, "start") /\ state = None
  /\ phase[s] = "off" /\ ~ Joined(s)
  /\ lock' = t
  /\ call' = [call EXCEPT ![t] = [op |-> "start", srv |-> s]]
  /\ phase' = [phase EXCEPT ![s] = "opening"]
  /\ UNCHANGED <<state, control, serving, step, session, db, queue, handler, data>>

StartReturn(t) ==
  LET s == call[t].srv IN
  /\ call[t].op = "start"
  /\ \/ phase[s] = "up" /\ state' = s
     \/ phase[s] = "off" /\ UNCHANGED state
  /\ lock' = None /\ Return(t)
  /\ UNCHANGED <<server, handler, data>>

(* begin_login and prepare_shutdown send their command under the mutex and *)
(* wait for the answer without it.                                         *)
Ask(t, op) ==
  /\ Calling(t, op) /\ state # None
  /\ control' = [control EXCEPT ![state] = Append(@, [op |-> op, from |-> t])]
  /\ call' = [call EXCEPT ![t] = [op |-> op, srv |-> state]]
  /\ UNCHANGED <<lock, state, phase, serving, step, session, db, queue, handler, data>>

(* ggfm_server_stop takes the instance out of STATE, so that nobody else   *)
(* can send to it any more, sends Stop and joins the server thread.        *)
Owe(s) ==
  /\ due' = [due EXCEPT ![s] = {r \in HandlersOf(s) : handler[r].at = "answered"}]
  /\ behind' = [behind EXCEPT ![s] = {o \in Server : step[o] = "publish"}]
  /\ UNCHANGED overtaken

StopLeavingState(t) ==          \* mutant of StopCall
  /\ Calling(t, "stop") /\ state # None
  /\ control' = [control EXCEPT ![state] = Append(@, [op |-> "stop", from |-> t])]
  /\ call' = [call EXCEPT ![t] = [op |-> "stop", srv |-> state]]
  /\ Owe(state)
  /\ UNCHANGED <<lock, state, phase, serving, step, session, db, queue, handler,
                 committed, snapshot, unsaved>>

StopCall(t) ==
  /\ Calling(t, "stop") /\ state # None
  /\ control' = [control EXCEPT ![state] = Append(@, [op |-> "stop", from |-> t])]
  /\ call' = [call EXCEPT ![t] = [op |-> "stop", srv |-> state]]
  /\ state' = None
  /\ Owe(state)
  /\ UNCHANGED <<lock, phase, serving, step, session, db, queue, handler,
                 committed, snapshot, unsaved>>

StopReturnAtOnce(t) ==          \* mutant of StopReturn: the thread is not joined
  /\ call[t].op = "stop"
  /\ Return(t)
  /\ UNCHANGED <<lock, state, server, handler, data>>

StopReturn(t) ==
  /\ call[t].op = "stop" /\ phase[call[t].srv] = "off"
  /\ Return(t)
  /\ UNCHANGED <<lock, state, server, handler, data>>

(* ggfm_server_transfer_save keeps the mutex while it copies.              *)
TransferCall(t) ==
  /\ Calling(t, "transfer") /\ state = None
  /\ lock' = t
  /\ call' = [call EXCEPT ![t] = [op |-> "transfer", srv |-> None]]
  /\ UNCHANGED <<state, server, handler, data>>

TransferReturn(t) ==
  /\ call[t].op = "transfer"
  /\ lock' = None /\ Return(t)
  /\ UNCHANGED <<state, server, handler, data>>

-----------------------------------------------------------------------------
(* The server thread: open the database, configure it and bind the port.   *)
OpenDatabase(s) ==
  /\ phase[s] = "opening"
  /\ \/ phase' = [phase EXCEPT ![s] = "configuring"] /\ db' = [db EXCEPT ![s] = TRUE]
     \/ phase' = [phase EXCEPT ![s] = "off"] /\ UNCHANGED db
  /\ UNCHANGED <<lock, state, call, control, serving, step, session, queue, handler, data>>

Bind(s) ==
  /\ phase[s] = "configuring"
  /\ \E p \in {"up", "closing"} : phase' = [phase EXCEPT ![s] = p]
  /\ UNCHANGED <<lock, state, call, control, serving, step, session, db, queue, handler, data>>

(* The control loop receives a command, in the order they were sent.       *)
Receive(s) ==
  /\ phase[s] = "up" /\ step[s] = "idle" /\ control[s] # <<>>
  /\ serving' = [serving EXCEPT ![s] = Head(control[s])]
  /\ control' = [control EXCEPT ![s] = Tail(@)]
  /\ step' = [step EXCEPT ![s] = "begin"]
  /\ UNCHANGED <<lock, state, call, phase, session, db, queue, handler, data>>

Enqueue(s, kind) == queue' = [queue EXCEPT ![s] = Append(@, [kind |-> kind])]
Goto(s, next) == step' = [step EXCEPT ![s] = next]

BeginUnlessStop(s) ==           \* mutant of Begin: Stop takes no snapshot
  /\ step[s] = "begin"
  /\ IF serving[s].op = "login" THEN Enqueue(s, "login") /\ Goto(s, "login")
     ELSE IF session[s] /\ serving[s].op = "prepare"
       THEN Enqueue(s, "checkpoint") /\ Goto(s, "checkpoint")
     ELSE Goto(s, "reply") /\ UNCHANGED queue
  /\ UNCHANGED <<lock, state, call, control, phase, serving, session, db, handler, data>>

(* begin_login hands one job to the database thread and then publishes the *)
(* session; prepare_shutdown hands it two, one after the other, and none   *)
(* without a session.                                                      *)
Begin(s) ==
  /\ step[s] = "begin"
  /\ IF serving[s].op = "login" THEN Enqueue(s, "login") /\ Goto(s, "login")
     ELSE IF session[s] THEN Enqueue(s, "checkpoint") /\ Goto(s, "checkpoint")
     ELSE Goto(s, "reply") /\ UNCHANGED queue
  /\ UNCHANGED <<lock, state, call, control, phase, serving, session, db, handler, data>>

Continue(s) ==
  /\ \/ /\ step[s] = "loggedIn"
        /\ session' = [session EXCEPT ![s] = TRUE]
        /\ Goto(s, "reply") /\ UNCHANGED queue
     \/ /\ step[s] = "checkpointed"
        /\ Enqueue(s, "backup") /\ Goto(s, "backup")
        /\ UNCHANGED session
  /\ UNCHANGED <<lock, state, call, control, phase, serving, db, handler, data>>

(* A stop whose prepare_shutdown fails leaves no snapshot: its error is    *)
(* ignored.                                                                *)
Excuse(s) == due' = IF serving[s].op = "stop" THEN [due EXCEPT ![s] = {}] ELSE due

(* publish_backup, on the server thread itself.  When it fails the current *)
(* snapshot is what it was, under one of its two names.                    *)
Publish(s) ==
  /\ step[s] = "publish"
  /\ \/ /\ snapshot' = unsaved[s]
        /\ overtaken' = (overtaken \cup {x \in Server : s \in behind[x]}) \ {s}
        /\ UNCHANGED due
     \/ Excuse(s) /\ UNCHANGED <<snapshot, overtaken>>
  /\ unsaved' = [unsaved EXCEPT ![s] = {}]
  /\ behind' = [x \in Server |-> behind[x] \ {s}]
  /\ Goto(s, "reply")
  /\ UNCHANGED <<lock, state, call, control, phase, serving, session, db, queue,
                 handler, committed>>

ReplyIfSaved(s) ==              \* mutant of Reply: nothing to save, no answer
  /\ step[s] = "reply"
  /\ IF serving[s].op = "stop"
     THEN phase' = [phase EXCEPT ![s] = "closing"] /\ UNCHANGED call
     ELSE /\ UNCHANGED phase
          /\ IF session[s] \/ serving[s].op = "login" THEN Return(serving[s].from)
             ELSE UNCHANGED call
  /\ serving' = [serving EXCEPT ![s] = NoCommand]
  /\ Goto(s, "idle")
  /\ UNCHANGED <<lock, state, control, session, db, queue, handler, data>>

(* A command is done: the caller is answered, or the loop ends.            *)
Reply(s) ==
  /\ step[s] = "reply"
  /\ IF serving[s].op = "stop"
     THEN phase' = [phase EXCEPT ![s] = "closing"] /\ UNCHANGED call
     ELSE Return(serving[s].from) /\ UNCHANGED phase
  /\ serving' = [serving EXCEPT ![s] = NoCommand]
  /\ Goto(s, "idle")
  /\ UNCHANGED <<lock, state, control, session, db, queue, handler, data>>

-----------------------------------------------------------------------------
(* The database thread.  A mutation that is refused changes nothing and is *)
(* left out.                                                               *)
RunMutation(s) ==
  LET r == Head(queue[s]).req IN
  /\ db[s] /\ queue[s] # <<>> /\ Head(queue[s]).kind = "mutation"
  /\ queue' = [queue EXCEPT ![s] = Tail(@)]
  /\ committed' = committed \cup {r}
  /\ handler' = IF handler[r].at = "queued" THEN [handler EXCEPT ![r].at = "committed"]
                ELSE handler
  /\ UNCHANGED <<lock, state, call, control, phase, serving, step, session, db,
                 snapshot, unsaved, owed>>

(* A job of the server thread.  One that fails ends its command; VACUUM    *)
(* INTO also does when another instance has taken the copy's name.         *)
RunControlJob(s) ==
  LET kind == Head(queue[s]).kind IN
  /\ db[s] /\ queue[s] # <<>> /\ kind # "mutation"
  /\ queue' = [queue EXCEPT ![s] = Tail(@)]
  /\ \/ /\ Goto(s, CASE kind = "login" -> "loggedIn"
                     [] kind = "checkpoint" -> "checkpointed"
                     [] kind = "backup" -> "publish")
        /\ unsaved' = IF kind = "backup" THEN [unsaved EXCEPT ![s] = committed] ELSE unsaved
        /\ UNCHANGED due
     \/ Goto(s, "reply") /\ Excuse(s) /\ UNCHANGED unsaved
  /\ UNCHANGED <<lock, state, call, control, phase, serving, session, db, handler,
                 committed, snapshot, behind, overtaken>>

-----------------------------------------------------------------------------
(* A handler: the request arrives at a server with a session, its job goes *)
(* to the database thread, the reply of the job becomes its answer.  The   *)
(* listener may accept it even after the shutdown signal.                  *)
Arrive(r, s) ==
  /\ handler[r] = Unsent
  /\ phase[s] \in {"up", "closing"} /\ session[s]
  /\ handler' = [handler EXCEPT ![r] = [at |-> "arrived", srv |-> s]]
  /\ UNCHANGED <<lock, state, call, server, data>>

AnswerEarly(r) ==               \* mutant of Submit: answers before the commit
  LET s == handler[r].srv IN
  /\ handler[r].at = "arrived"
  /\ queue' = [queue EXCEPT ![s] = Append(@, [kind |-> "mutation", req |-> r])]
  /\ handler' = [handler EXCEPT ![r].at = "answered"]
  /\ UNCHANGED <<lock, state, call, control, phase, serving, step, session, db, data>>

Submit(r) ==
  LET s == handler[r].srv IN
  /\ handler[r].at = "arrived"
  /\ queue' = [queue EXCEPT ![s] = Append(@, [kind |-> "mutation", req |-> r])]
  /\ handler' = [handler EXCEPT ![r].at = "queued"]
  /\ UNCHANGED <<lock, state, call, control, phase, serving, step, session, db, data>>

Answer(r) ==
  /\ handler[r].at = "committed"
  /\ handler' = [handler EXCEPT ![r].at = "answered"]
  /\ UNCHANGED <<lock, state, call, server, data>>

(* The runtime is dropped: a task ends at its await, whatever it awaited.  *)
Cancel(r) ==
  /\ Live(r) /\ phase[handler[r].srv] = "closing"
  /\ handler' = [handler EXCEPT ![r].at = "cancelled"]
  /\ UNCHANGED <<lock, state, call, server, data>>

(* The last clone of the actor goes: its queue is closed, what is in it is *)
(* still run, the thread is joined and the server thread ends.             *)
Settle(s) ==
  /\ due' = [due EXCEPT ![s] = {}] /\ behind' = [behind EXCEPT ![s] = {}]
  /\ overtaken' = overtaken \ {s}

CloseAtOnce(s) ==               \* mutant of Close: the queue is not drained
  /\ phase[s] = "closing"
  /\ \A r \in HandlersOf(s) : ~ Live(r)
  /\ queue' = [queue EXCEPT ![s] = <<>>]
  /\ db' = [db EXCEPT ![s] = FALSE]
  /\ phase' = [phase EXCEPT ![s] = "off"]
  /\ session' = [session EXCEPT ![s] = FALSE]
  /\ handler' = Detached(s) /\ Settle(s)
  /\ UNCHANGED <<lock, state, call, control, serving, step, committed, snapshot, unsaved>>

Close(s) ==
  /\ phase[s] = "closing"
  /\ \A r \in HandlersOf(s) : ~ Live(r)
  /\ queue[s] = <<>>
  /\ db' = [db EXCEPT ![s] = FALSE]
  /\ phase' = [phase EXCEPT ![s] = "off"]
  /\ session' = [session EXCEPT ![s] = FALSE]
  /\ handler' = Detached(s) /\ Settle(s)
  /\ UNCHANGED <<lock, state, call, control, serving, step, queue, committed, snapshot,
                 unsaved>>

-----------------------------------------------------------------------------
ThreadStep(t) == StartReturn(t) \/ StopReturn(t) \/ TransferReturn(t)

ServerStep(s) ==
  \/ OpenDatabase(s) \/ Bind(s)
  \/ Receive(s) \/ Begin(s) \/ Continue(s) \/ Publish(s) \/ Reply(s)
  \/ Close(s)

DatabaseStep(s) == RunMutation(s) \/ RunControlJob(s)

HandlerStep(r) == Submit(r) \/ Answer(r) \/ Cancel(r)

Next ==
  \/ \E t \in Thread :
       \/ \E s \in Server : StartCall(t, s)
       \/ Ask(t, "login") \/ Ask(t, "prepare") \/ StopCall(t) \/ TransferCall(t)
       \/ ThreadStep(t)
  \/ \E s \in Server : ServerStep(s) \/ DatabaseStep(s)
  \/ \E r \in Request : HandlerStep(r) \/ \E s \in Server : Arrive(r, s)

(* The threads of the operating system and the tasks of the runtime make   *)
(* progress; calls and requests need never be made.                        *)
Fairness ==
  /\ \A t \in Thread : WF_vars(ThreadStep(t))
  /\ \A s \in Server : WF_vars(ServerStep(s)) /\ WF_vars(DatabaseStep(s))
  /\ \A r \in Request : WF_vars(HandlerStep(r))

Spec == Init /\ [][Next]_vars /\ Fairness

-----------------------------------------------------------------------------
(* Every variable has its type, and an instance in STATE is up.            *)
TypeOK ==
  /\ lock \in Thread \cup {None} /\ state \in Server \cup {None}
  /\ call \in [Thread -> [op : Calls \cup {"none"}, srv : Server \cup {None}]]
  /\ control \in [Server -> Seq(Control)]
  /\ phase \in [Server -> {"off", "opening", "configuring", "up", "closing"}]
  /\ serving \in [Server -> Control \cup {NoCommand}]
  /\ step \in [Server -> Steps]
  /\ session \in [Server -> BOOLEAN] /\ db \in [Server -> BOOLEAN]
  /\ queue \in [Server -> Seq(Job)]
  /\ handler \in [Request -> [at : {"new", "arrived", "queued", "committed", "answered",
                                    "cancelled"}, srv : Server \cup {None}]]
  /\ committed \subseteq Request /\ snapshot \subseteq Request
  /\ unsaved \in [Server -> SUBSET Request] /\ due \in [Server -> SUBSET Request]
  /\ behind \in [Server -> SUBSET Server] /\ overtaken \subseteq Server
  /\ state # None => phase[state] = "up" /\ db[state]

(* One connection writes to the save file: that of the instance, or that   *)
(* of a transfer.  Only an instance that ggfm_server_stop is still joining *)
(* can be another (actor.rs: "Owns the sole read-write SQLite connection"; *)
(* ggfm_server_transfer_save: "Offline import/export").                    *)
SoleWriter ==
  Cardinality({s \in Server : db[s] /\ ~ Joined(s)})
    + Cardinality({t \in Thread : call[t].op = "transfer"}) <= 1

(* A request is answered only after its commit, whatever the shutdown does *)
(* to its handler (DatabaseActor::execute).                                *)
AnsweredIsCommitted ==
  \A r \in Request : handler[r].at = "answered" => r \in committed

(* The server thread never leaves its loop with a command unserved: nobody *)
(* waits for an answer that cannot come (ggfm_server_stop).                *)
CommandsAreServed ==
  \A s \in Server : phase[s] \in {"closing", "off"} => control[s] = <<>>

(* When an instance has left its loop, and its snapshot did not fail, the  *)
(* published one holds every request that had been answered when its stop  *)
(* was called.  The one exception is another instance, its own stop still  *)
(* being joined, which had taken its copy before that moment and published *)
(* it later: the older copy replaces the newer (prepare_shutdown from      *)
(* Control::Stop, against that of another server thread).                  *)
StopSavesAnswered ==
  \A s \in Server \ overtaken : phase[s] = "closing" => due[s] \subseteq snapshot

(* Every call of the C ABI returns.                                        *)
CallsReturn == \A t \in Thread : (call[t] # Idle) ~> (call[t] = Idle)

(* A mutation that has been handed to the database thread is committed,    *)
(* even if its handler is cancelled (ActorInner::drop drains the queue).   *)
QueuedIsCommitted ==
  \A r \in Request : (handler[r].at = "queued") ~> (r \in committed)
=============================================================================
