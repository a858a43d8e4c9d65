---------------------------- MODULE RuntimeProofs ----------------------------
(***************************************************************************)
(* Proofs about Runtime for every number of threads, instances and         *)
(* requests, and whatever each thread may call.                            *)
(*                                                                         *)
(* The mutex of STATE is held exactly by a start or a transfer, and then   *)
(* STATE is empty (Mutex); an instance that runs is in STATE, being        *)
(* started or being joined by ggfm_server_stop (Owned).  Every command     *)
(* has a caller of its own who waits for it, and nothing follows a Stop    *)
(* (Commands); the server thread has at most one job in the queue, that of *)
(* its step (Jobs).  What had been answered when the stop was called goes  *)
(* from the database to the snapshot with the steps of that stop, and is   *)
(* in every copy, of any instance, that was taken after that call (Saved). *)
(***************************************************************************)
EXTENDS Runtime, FiniteSetTheorems, TLAPS

(* The mutex is held by whoever starts or transfers, with STATE empty.     *)
Mutex ==
  \A t \in Thread :
    /\ call[t].op \in {"start", "transfer"} <=> lock = t
    /\ lock = t => state = None

Starting(s) == \E t \in Thread : call[t] = [op |-> "start", srv |-> s]

(* An instance that runs is in STATE, being joined or being started.       *)
Owned ==
  \A s \in Server :
    /\ phase[s] # "off" => s = state \/ Joined(s) \/ Starting(s)
    /\ Joined(s) => s # state /\ ~ Starting(s)

(* What an instance has in each phase.                                     *)
Phases ==
  \A s \in Server :
    /\ db[s] <=> phase[s] \in {"configuring", "up", "closing"}
    /\ session[s] => phase[s] \in {"up", "closing"}
    /\ step[s] # "idle" \/ control[s] # <<>> => phase[s] = "up"

(* Who sent a command waits for it, and for no other.                      *)
Awaited(c, s) == call[c.from].op = c.op /\ call[c.from].srv = s

Serving ==
  \A s \in Server :
    /\ step[s] = "idle" <=> serving[s] = NoCommand
    /\ step[s] \in {"login", "loggedIn"} => serving[s].op = "login"
    /\ serving[s] # NoCommand => Awaited(serving[s], s)

(* Nothing is sent after Stop.                                             *)
Commands ==
  \A s \in Server :
    /\ serving[s].op = "stop" => control[s] = <<>>
    /\ \A i \in 1 .. Len(control[s]) :
         /\ Awaited(control[s][i], s)
         /\ serving[s].from # control[s][i].from
         /\ control[s][i].op = "stop" => i = Len(control[s])
         /\ \A j \in 1 .. Len(control[s]) : control[s][i].from = control[s][j].from => i = j

(* The job of the server thread is that of its step.                       *)
Jobs ==
  \A s \in Server : \A i \in 1 .. Len(queue[s]) :
    queue[s][i].kind # "mutation" =>
      /\ queue[s][i].kind = step[s]
      /\ \A j \in 1 .. Len(queue[s]) : queue[s][j].kind # "mutation" => i = j

(* A handler belongs to an instance with a session, and what it answers is *)
(* committed.                                                              *)
Handlers ==
  \A r \in Request :
    /\ handler[r].srv \in Server => session[handler[r].srv]
    /\ handler[r].at \in {"committed", "answered"} => r \in committed

(* What a stop owes is committed, then in the copy its instance makes and  *)
(* in the published one, and in all copies but those there were before.    *)
Published(s) ==
  \/ phase[s] = "closing"
  \/ serving[s].op = "stop" /\ step[s] = "reply"

Saved ==
  /\ snapshot \subseteq committed
  /\ \A s \in Server :
       /\ due[s] \subseteq committed /\ unsaved[s] \subseteq committed
       /\ ~ session[s] => due[s] = {}
       /\ serving[s].op = "stop" /\ step[s] = "publish" => due[s] \subseteq unsaved[s]
       /\ Published(s) /\ s \notin overtaken => due[s] \subseteq snapshot
       /\ \A o \in Server \ behind[s] : step[o] = "publish" => due[s] \subseteq unsaved[o]

(* The types in groups, for the proofs.                                    *)
CallTypes ==
  /\ lock \in Thread \cup {None} /\ state \in Server \cup {None}
  /\ call \in [Thread -> [op : Calls \cup {"none"}, srv : Server \cup {None}]]

ControlTypes ==
  /\ control \in [Server -> Seq(Control)] /\ serving \in [Server -> Control \cup {NoCommand}]

PhaseTypes ==
  /\ phase \in [Server -> {"off", "opening", "configuring", "up", "closing"}]
  /\ step \in [Server -> Steps]
  /\ session \in [Server -> BOOLEAN] /\ db \in [Server -> BOOLEAN]

JobTypes == queue \in [Server -> Seq(Job)]

HandlerTypes ==
  /\ handler \in [Request -> [at : {"new", "arrived", "queued", "committed", "answered",
                                    "cancelled"}, srv : Server \cup {None}]]
  /\ committed \subseteq Request

DataTypes ==
  /\ committed \subseteq Request /\ snapshot \subseteq Request
  /\ unsaved \in [Server -> SUBSET Request] /\ due \in [Server -> SUBSET Request]
  /\ behind \in [Server -> SUBSET Server] /\ overtaken \subseteq Server

StateIsUp == state # None => phase[state] = "up" /\ db[state]

LEMMA TypeParts ==
  TypeOK <=> /\ CallTypes /\ ControlTypes /\ PhaseTypes /\ JobTypes /\ HandlerTypes
             /\ DataTypes /\ StateIsUp
BY DEF TypeOK, CallTypes, ControlTypes, PhaseTypes, JobTypes, HandlerTypes, DataTypes, StateIsUp

IInv ==
  /\ TypeOK
  /\ Mutex
  /\ Owned
  /\ Phases
  /\ Serving
  /\ Commands
  /\ Jobs
  /\ Handlers
  /\ Saved
-----------------------------------------------------------------------------

(* What a channel and a job queue hold after one more and after one less.  *)
LEMMA AppendFacts ==
  ASSUME NEW T, NEW q \in Seq(T), NEW e \in T
  PROVE  /\ Append(q, e) \in Seq(T) /\ Len(q) \in Nat
         /\ Len(Append(q, e)) = Len(q) + 1 /\ Append(q, e)[Len(q) + 1] = e
         /\ \A i \in 1 .. Len(q) : Append(q, e)[i] = q[i]
OBVIOUS

LEMMA TailFacts ==
  ASSUME NEW T, NEW q \in Seq(T), q # <<>>
  PROVE  /\ Head(q) \in T /\ Head(q) = q[1] /\ Tail(q) \in Seq(T)
         /\ Len(q) \in Nat /\ Len(q) >= 1 /\ Len(Tail(q)) = Len(q) - 1
         /\ \A i \in 1 .. Len(q) - 1 : Tail(q)[i] = q[i + 1]
OBVIOUS

(* A command is sent to the instance in STATE, or received by the loop.    *)
LEMMA Sent ==
  ASSUME CallTypes, ControlTypes, state # None,
         NEW t \in Thread, NEW op \in {"login", "prepare", "stop"},
         control' = [control EXCEPT ![state] = Append(@, [op |-> op, from |-> t])]
  PROVE  /\ state \in Server /\ Len(control[state]) \in Nat
         /\ control' \in [Server -> Seq(Control)]
         /\ \A s \in Server : s # state => control'[s] = control[s]
         /\ Len(control'[state]) = Len(control[state]) + 1
         /\ control'[state][Len(control[state]) + 1] = [op |-> op, from |-> t]
         /\ \A i \in 1 .. Len(control[state]) : control'[state][i] = control[state][i]
<1> DEFINE c == [op |-> op, from |-> t]
<1>1. c \in Control
  BY DEF Control
<1>2. state \in Server /\ control[state] \in Seq(Control)
  BY DEF CallTypes, ControlTypes
<1>3. control' = [control EXCEPT ![state] = Append(control[state], c)]
  OBVIOUS
<1> HIDE DEF c
<1>4. control'[state] = Append(control[state], c) /\ control' \in [Server -> Seq(Control)]
  BY <1>1, <1>2, <1>3, AppendFacts DEF ControlTypes
<1>5. \A s \in Server : s # state => control'[s] = control[s]
  BY <1>2, <1>3 DEF ControlTypes
<1> QED
  BY <1>1, <1>2, <1>4, <1>5, AppendFacts DEF c

LEMMA Received ==
  ASSUME ControlTypes, NEW s \in Server, control[s] # <<>>,
         control' = [control EXCEPT ![s] = Tail(@)]
  PROVE  /\ Head(control[s]) \in Control /\ Head(control[s]) = control[s][1]
         /\ control' \in [Server -> Seq(Control)]
         /\ \A x \in Server : x # s => control'[x] = control[x]
         /\ Len(control[s]) \in Nat /\ Len(control[s]) >= 1
         /\ Len(control'[s]) = Len(control[s]) - 1
         /\ \A i \in 1 .. Len(control'[s]) : control'[s][i] = control[s][i + 1]
<1>1. control[s] \in Seq(Control) /\ control'[s] = Tail(control[s])
  BY DEF ControlTypes
<1>2. Tail(control[s]) \in Seq(Control)
  BY <1>1, TailFacts
<1>3. /\ control' \in [Server -> Seq(Control)]
      /\ \A x \in Server : x # s => control'[x] = control[x]
  BY <1>2 DEF ControlTypes
<1> QED
  BY <1>1, <1>3, TailFacts

(* A job enters the queue, or is taken from it.                            *)
LEMMA Enqueued ==
  ASSUME JobTypes, NEW s \in Server, NEW j \in Job,
         queue' = [queue EXCEPT ![s] = Append(@, j)]
  PROVE  /\ JobTypes' /\ Len(queue[s]) \in Nat
         /\ \A x \in Server : x # s => queue'[x] = queue[x]
         /\ Len(queue'[s]) = Len(queue[s]) + 1 /\ queue'[s][Len(queue[s]) + 1] = j
         /\ \A i \in 1 .. Len(queue[s]) : queue'[s][i] = queue[s][i]
<1>1. queue[s] \in Seq(Job) /\ queue'[s] = Append(queue[s], j)
  BY DEF JobTypes
<1>2. Append(queue[s], j) \in Seq(Job)
  BY <1>1, AppendFacts
<1>3. JobTypes' /\ \A x \in Server : x # s => queue'[x] = queue[x]
  BY <1>2 DEF JobTypes
<1> QED
  BY <1>1, <1>3, AppendFacts

LEMMA Dequeued ==
  ASSUME JobTypes, NEW s \in Server, queue[s] # <<>>, queue' = [queue EXCEPT ![s] = Tail(@)]
  PROVE  /\ Head(queue[s]) = queue[s][1] /\ Head(queue[s]) \in Job
         /\ JobTypes'
         /\ \A x \in Server : x # s => queue'[x] = queue[x]
         /\ Len(queue[s]) \in Nat /\ Len(queue[s]) >= 1
         /\ Len(queue'[s]) = Len(queue[s]) - 1
         /\ \A i \in 1 .. Len(queue'[s]) : queue'[s][i] = queue[s][i + 1]
<1>1. queue[s] \in Seq(Job) /\ queue'[s] = Tail(queue[s])
  BY DEF JobTypes
<1>2. Tail(queue[s]) \in Seq(Job)
  BY <1>1, TailFacts
<1>3. JobTypes' /\ \A x \in Server : x # s => queue'[x] = queue[x]
  BY <1>2 DEF JobTypes
<1>4. /\ Head(queue[s]) = queue[s][1] /\ Head(queue[s]) \in Job
      /\ Len(queue[s]) \in Nat /\ Len(queue[s]) >= 1
      /\ Len(Tail(queue[s])) = Len(queue[s]) - 1
      /\ \A i \in 1 .. Len(queue[s]) - 1 : Tail(queue[s])[i] = queue[s][i + 1]
  BY <1>1, TailFacts
<1> QED
  BY <1>1, <1>3, <1>4

LEMMA KindOfJob ==
  ASSUME NEW j \in Job
  PROVE  /\ j.kind \in {"mutation", "login", "checkpoint", "backup"}
         /\ j.kind = "mutation" => j.req \in Request
BY DEF Job

LEMMA KindsInQueue ==
  ASSUME JobTypes, NEW s \in Server, NEW i \in 1 .. Len(queue[s])
  PROVE  queue[s][i].kind \in {"mutation", "login", "checkpoint", "backup"}
<1>1. queue[s][i] \in Job
  BY DEF JobTypes
<1> QED
  BY <1>1, KindOfJob

(* A command that is served has its caller waiting.                        *)
LEMMA Served ==
  ASSUME CallTypes, ControlTypes, Serving, NEW s \in Server, step[s] # "idle"
  PROVE  /\ serving[s] # NoCommand /\ serving[s].from \in Thread
         /\ serving[s].op \in {"login", "prepare", "stop"}
         /\ call[serving[s].from] = [op |-> serving[s].op, srv |-> s]
         /\ call[serving[s].from].srv = s
<1>1. serving[s] \in Control /\ serving[s] # NoCommand
  BY DEF ControlTypes, Serving
<1> QED
  BY <1>1 DEF CallTypes, Control, Serving, Awaited

(* A thread without a call in progress waits for no command.               *)
LEMMA IdleAskedNothing ==
  ASSUME ControlTypes, Serving, NEW t \in Thread, call[t].op = "none", NEW s \in Server
  PROVE  serving[s].from # t
<1>1. CASE serving[s] = NoCommand
  BY <1>1, RuntimeAssumption DEF NoCommand
<1>2. CASE serving[s] # NoCommand
  BY <1>2 DEF ControlTypes, Control, Serving, Awaited
<1> QED
  BY <1>1, <1>2

(* Who joins or starts an instance changes with these two calls only.      *)
LEMMA OthersStay ==
  ASSUME CallTypes, NEW t \in Thread, NEW c, call' = [call EXCEPT ![t] = c],
         call[t].op \notin {"start", "stop"}, c.op \notin {"start", "stop"}
  PROVE  \A s \in Server : (Joined(s)' <=> Joined(s)) /\ (Starting(s)' <=> Starting(s))
<1>1. \A u \in Thread : call'[u] = IF u = t THEN c ELSE call[u]
  BY DEF CallTypes
<1>2. \A u \in Thread, o \in {"start", "stop"}, s \in Server :
        call'[u] = [op |-> o, srv |-> s] <=> call[u] = [op |-> o, srv |-> s]
  BY <1>1
<1> QED
  BY <1>2 DEF Joined, Starting

LEMMA OwnedUntouched ==
  ASSUME Owned, UNCHANGED state,
         \A s \in Server : (Joined(s)' <=> Joined(s)) /\ (Starting(s)' <=> Starting(s)),
         \A s \in Server : phase'[s] # "off" => phase[s] # "off"
  PROVE  Owned'
BY DEF Owned

LEMMA SameCalls ==
  ASSUME UNCHANGED call
  PROVE  \A s \in Server : (Joined(s)' <=> Joined(s)) /\ (Starting(s)' <=> Starting(s))
BY DEF Joined, Starting

(* With the mutex free nobody starts, and only one thread can.             *)
LEMMA OneStarts ==
  ASSUME CallTypes, Mutex, NEW s \in Server
  PROVE  /\ lock = None => ~ Starting(s)
         /\ Starting(s) => lock \in Thread /\ call[lock].srv = s
BY RuntimeAssumption DEF CallTypes, Mutex, Starting

(* The answer to a command touches the thread that waits for it, and Stop  *)
(* is not answered but ends the loop.                                      *)
LEMMA ReplyEffect ==
  ASSUME CallTypes, ControlTypes, PhaseTypes, Serving, NEW s \in Server, Reply(s)
  PROVE  /\ serving[s].op = "stop" =>
              /\ UNCHANGED call /\ phase' = [phase EXCEPT ![s] = "closing"]
              /\ Joined(s)
         /\ serving[s].op # "stop" =>
              /\ UNCHANGED phase /\ serving[s].op \in {"login", "prepare"}
              /\ serving[s].from \in Thread
              /\ call[serving[s].from] = [op |-> serving[s].op, srv |-> s]
              /\ call[serving[s].from].srv = s
              /\ call' = [call EXCEPT ![serving[s].from] = Idle]
<1>1. step[s] # "idle"
  BY DEF Reply
<1>2. /\ serving[s].from \in Thread /\ serving[s].op \in {"login", "prepare", "stop"}
      /\ call[serving[s].from] = [op |-> serving[s].op, srv |-> s]
      /\ call[serving[s].from].srv = s
  BY <1>1, Served
<1>3. CASE serving[s].op = "stop"
  BY <1>2, <1>3 DEF Reply, Joined
<1>4. CASE serving[s].op # "stop"
  BY <1>2, <1>4 DEF Reply, Return
<1> QED
  BY <1>3, <1>4

(* What is in the queue of an instance besides mutations.                  *)
LEMMA NoControlJob ==
  ASSUME JobTypes, Jobs, NEW s \in Server, step[s] \notin {"login", "checkpoint", "backup"}
  PROVE  \A i \in 1 .. Len(queue[s]) : queue[s][i].kind = "mutation"
BY KindsInQueue DEF Jobs

LEMMA ControlJob ==
  ASSUME JobTypes, Jobs, NEW s \in Server, queue[s] # <<>>, Head(queue[s]).kind # "mutation"
  PROVE  /\ Head(queue[s]).kind = step[s] /\ step[s] \in {"login", "checkpoint", "backup"}
         /\ \A i \in 1 .. Len(queue[s]) : i # 1 => queue[s][i].kind = "mutation"
<1>1. Head(queue[s]) = queue[s][1] /\ Len(queue[s]) \in Nat /\ Len(queue[s]) >= 1
  BY TailFacts DEF JobTypes
<1>2. 1 \in 1 .. Len(queue[s])
  BY <1>1
<1> QED
  BY <1>1, <1>2, KindsInQueue DEF Jobs

LEMMA JobsQuiet ==
  ASSUME JobTypes, PhaseTypes, Jobs, NEW s \in Server, UNCHANGED queue,
         step[s] \notin {"login", "checkpoint", "backup"},
         \A x \in Server : x # s => step'[x] = step[x]
  PROVE  Jobs'
BY NoControlJob DEF Jobs

LEMMA JobsQueued ==
  ASSUME JobTypes, PhaseTypes, Jobs, NEW s \in Server,
         step[s] \notin {"login", "checkpoint", "backup"},
         NEW k \in {"login", "checkpoint", "backup"}, Enqueue(s, k), Goto(s, k)
  PROVE  Jobs'
<1> DEFINE j == [kind |-> k]
<1>1. j \in Job /\ j.kind = k /\ queue' = [queue EXCEPT ![s] = Append(@, j)]
  BY DEF Job, Enqueue
<1> HIDE DEF j
<1>2. /\ Len(queue[s]) \in Nat /\ Len(queue'[s]) = Len(queue[s]) + 1
      /\ queue'[s][Len(queue[s]) + 1] = j
      /\ \A i \in 1 .. Len(queue[s]) : queue'[s][i] = queue[s][i]
      /\ \A x \in Server : x # s => queue'[x] = queue[x]
  BY <1>1, Enqueued
<1>3. \A i \in 1 .. Len(queue[s]) : queue[s][i].kind = "mutation"
  BY NoControlJob
<1>4. \A i \in 1 .. Len(queue'[s]) :
        queue'[s][i].kind # "mutation" => i = Len(queue[s]) + 1 /\ queue'[s][i].kind = k
  BY <1>1, <1>2, <1>3
<1>5. \A x \in Server : step'[x] = IF x = s THEN k ELSE step[x]
  BY DEF Goto, PhaseTypes
<1> QED
  BY <1>2, <1>4, <1>5 DEF Jobs

(* The step a job of the server thread leads to.                           *)
LEMMA ControlJobEffect ==
  ASSUME JobTypes, PhaseTypes, Jobs, NEW s \in Server, RunControlJob(s)
  PROVE  /\ step[s] \in {"login", "checkpoint", "backup"}
         /\ \A x \in Server : x # s => step'[x] = step[x]
         /\ \/ step'[s] = "reply" /\ UNCHANGED unsaved /\ Excuse(s)
            \/ /\ step[s] = "login" /\ step'[s] = "loggedIn" /\ UNCHANGED <<due, unsaved>>
            \/ /\ step[s] = "checkpoint" /\ step'[s] = "checkpointed"
               /\ UNCHANGED <<due, unsaved>>
            \/ /\ step[s] = "backup" /\ step'[s] = "publish" /\ UNCHANGED due
               /\ unsaved' = [unsaved EXCEPT ![s] = committed]
<1>1. step[s] = Head(queue[s]).kind /\ step[s] \in {"login", "checkpoint", "backup"}
  BY ControlJob DEF RunControlJob
<1> QED
  BY <1>1 DEF RunControlJob, Goto, PhaseTypes

(* A command in a channel has its caller waiting.                          *)
LEMMA CallerWaits ==
  ASSUME ControlTypes, Commands, NEW s \in Server, NEW i \in 1 .. Len(control[s])
  PROVE  /\ control[s][i] \in Control /\ control[s][i].from \in Thread
         /\ control[s][i].op \in {"login", "prepare", "stop"}
         /\ call[control[s][i].from].op = control[s][i].op
         /\ call[control[s][i].from].srv = s
<1>1. control[s][i] \in Control
  BY DEF ControlTypes
<1> QED
  BY <1>1 DEF Control, Commands, Awaited

(* Nobody has sent a Stop to the instance in STATE.                        *)
LEMMA StateIsNotStopped ==
  ASSUME CallTypes, ControlTypes, Owned, Serving, Commands, state \in Server
  PROVE  /\ serving[state].op # "stop"
         /\ \A i \in 1 .. Len(control[state]) : control[state][i].op # "stop"
<1>1. ~ Joined(state)
  BY DEF Owned
<1>2. ASSUME serving[state].op = "stop" PROVE FALSE
  <2>1. serving[state] # NoCommand
    BY <1>2 DEF NoCommand
  <2>2. serving[state].from \in Thread
        /\ call[serving[state].from] = [op |-> "stop", srv |-> state]
    BY <1>2, <2>1 DEF CallTypes, ControlTypes, Control, Serving, Awaited
  <2> QED
    BY <1>1, <2>2 DEF Joined
<1>3. ASSUME NEW i \in 1 .. Len(control[state]), control[state][i].op = "stop" PROVE FALSE
  <2>1. control[state][i].from \in Thread
    BY CallerWaits
  <2>2. call[control[state][i].from] = [op |-> "stop", srv |-> state]
    BY <1>3, <2>1 DEF CallTypes, Commands, Awaited
  <2> QED
    BY <1>1, <2>1, <2>2 DEF Joined
<1> QED
  BY <1>2, <1>3

LEMMA SendCommand ==
  ASSUME CallTypes, ControlTypes, Owned, Serving, Commands, state # None,
         NEW t \in Thread, NEW op \in {"login", "prepare", "stop"}, call[t] = Idle,
         control' = [control EXCEPT ![state] = Append(@, [op |-> op, from |-> t])],
         call' = [call EXCEPT ![t] = [op |-> op, srv |-> state]], UNCHANGED serving
  PROVE  Commands'
<1> DEFINE n == Len(control[state]) + 1
           c == [op |-> op, from |-> t]
<1>1. /\ state \in Server /\ Len(control[state]) \in Nat
      /\ \A s \in Server : s # state => control'[s] = control[s]
      /\ Len(control'[state]) = n /\ control'[state][n] = c
      /\ \A i \in 1 .. Len(control[state]) : control'[state][i] = control[state][i]
  BY Sent
<1>2. \A u \in Thread : u # t => call'[u] = call[u]
  BY DEF CallTypes
<1>3. c.op = op /\ c.from = t /\ Idle.op = "none"
  BY DEF Idle
<1>4. call'[t].op = c.op /\ call'[t].srv = state
  BY <1>3 DEF CallTypes
<1>5. \A s \in Server : \A i \in 1 .. Len(control[s]) :
        /\ control[s][i].from \in Thread /\ control[s][i].from # t
        /\ call'[control[s][i].from] = call[control[s][i].from]
  <2>1. ASSUME NEW s \in Server, NEW i \in 1 .. Len(control[s])
        PROVE  control[s][i].from \in Thread /\ control[s][i].from # t
    BY <1>3, CallerWaits
  <2> QED
    BY <1>2, <2>1
<1>6. \A s \in Server : serving[s].from # t
  BY <1>3, IdleAskedNothing
<1>7. /\ serving[state].op # "stop"
      /\ \A i \in 1 .. Len(control[state]) : control[state][i].op # "stop"
  BY <1>1, StateIsNotStopped
<1> HIDE DEF c
<1>8. ASSUME NEW s \in Server, s # state
      PROVE  /\ serving'[s].op = "stop" => control'[s] = <<>>
             /\ \A i \in 1 .. Len(control'[s]) :
                  /\ call'[control'[s][i].from].op = control'[s][i].op
                  /\ call'[control'[s][i].from].srv = s
                  /\ serving'[s].from # control'[s][i].from
                  /\ control'[s][i].op = "stop" => i = Len(control'[s])
                  /\ \A j \in 1 .. Len(control'[s]) :
                       control'[s][i].from = control'[s][j].from => i = j
  BY <1>1, <1>5, <1>8 DEF Commands, Awaited
<1>9. ASSUME NEW i \in 1 .. n
      PROVE  /\ call'[control'[state][i].from].op = control'[state][i].op
             /\ call'[control'[state][i].from].srv = state
             /\ serving'[state].from # control'[state][i].from
             /\ control'[state][i].op = "stop" => i = n
             /\ \A j \in 1 .. n : control'[state][i].from = control'[state][j].from => i = j
  <2>1. CASE i = n
    BY <1>1, <1>3, <1>4, <1>5, <1>6, <2>1
  <2>2. CASE i # n
    <3>1. i \in 1 .. Len(control[state]) /\ control'[state][i] = control[state][i]
      BY <1>1, <2>2
    <3>2. /\ call[control[state][i].from].op = control[state][i].op
          /\ call[control[state][i].from].srv = state
      BY <1>1, <3>1 DEF Commands, Awaited
    <3>3. \A j \in 1 .. n : control'[state][i].from = control'[state][j].from => i = j
      BY <1>1, <1>3, <1>5, <3>1 DEF Commands
    <3> QED
      BY <1>1, <1>5, <1>7, <3>1, <3>2, <3>3 DEF Commands
  <2> QED
    BY <2>1, <2>2
<1> QED
  BY <1>1, <1>7, <1>8, <1>9 DEF Commands, Awaited

(* A call ends that no command waits for.                                  *)
LEMMA CommandsKept ==
  ASSUME ControlTypes, Commands, UNCHANGED control,
         \A s \in Server : serving'[s] \in {serving[s], NoCommand},
         \A s \in Server : \A i \in 1 .. Len(control[s]) :
           call'[control[s][i].from] = call[control[s][i].from]
  PROVE  Commands'
<1>1. NoCommand.op = "none" /\ NoCommand.from = None
  BY DEF NoCommand
<1>2. \A s \in Server : \A i \in 1 .. Len(control[s]) : control[s][i].from # None
  BY CallerWaits, RuntimeAssumption
<1> QED
  BY <1>1, <1>2 DEF Commands, Awaited

(* Every step keeps the types.                                             *)
LEMMA CallTypesStep ==
  ASSUME CallTypes, ControlTypes, PhaseTypes, Serving, [Next]_vars
  PROVE  CallTypes'
<1>1. ASSUME NEW t \in Thread, NEW s \in Server, StartCall(t, s)
      PROVE  CallTypes'
  BY <1>1 DEF StartCall, Calls, CallTypes
<1>2. ASSUME NEW t \in Thread, Ask(t, "login") \/ Ask(t, "prepare")
      PROVE  CallTypes'
  <2>1. PICK op \in {"login", "prepare"} : Ask(t, op)
    BY <1>2
  <2>2. /\ call' = [call EXCEPT ![t] = [op |-> op, srv |-> state]]
        /\ UNCHANGED <<lock, state>> /\ op \in Calls
    BY <2>1 DEF Ask, Calls
  <2> QED
    BY <2>2 DEF CallTypes
<1>3. ASSUME NEW t \in Thread, StopCall(t)
      PROVE  CallTypes'
  BY <1>3, RuntimeAssumption
    DEF StopCall, server, data, Calls, Idle, Return, Calling, CallTypes
<1>4. ASSUME NEW t \in Thread, TransferCall(t)
      PROVE  CallTypes'
  BY <1>4 DEF TransferCall, server, data, Calls, Return, CallTypes
<1>5. ASSUME NEW t \in Thread, StartReturn(t)
      PROVE  CallTypes'
  BY <1>5 DEF StartReturn, Calls, Idle, Return, CallTypes
<1>6. ASSUME NEW t \in Thread, StopReturn(t)
      PROVE  CallTypes'
  BY <1>6 DEF StopReturn, Idle, Return, CallTypes
<1>7. ASSUME NEW t \in Thread, TransferReturn(t)
      PROVE  CallTypes'
  BY <1>7 DEF TransferReturn, Idle, Return, CallTypes
<1>8. ASSUME NEW s \in Server, Reply(s)
      PROVE  CallTypes'
  BY <1>8 DEF Reply, Idle, Return, CallTypes
<1>9. CASE UNCHANGED <<lock, state, call>>
  BY <1>9 DEF CallTypes
<1> QED
  BY <1>1, <1>2, <1>3, <1>4, <1>5, <1>6, <1>7, <1>8, <1>9
    DEF Next, ThreadStep, ServerStep, DatabaseStep, HandlerStep, OpenDatabase,
      Bind, Receive, Begin, Continue, Publish, Close, RunMutation,
      RunControlJob, Submit, Answer, Cancel, Arrive, server, data, vars

LEMMA ControlTypesStep ==
  ASSUME CallTypes, ControlTypes, [Next]_vars
  PROVE  ControlTypes'
<1>1. ASSUME NEW t \in Thread, Ask(t, "login") \/ Ask(t, "prepare")
      PROVE  ControlTypes'
  <2>1. PICK op \in {"login", "prepare"} : Ask(t, op)
    BY <1>1
  <2>2. /\ control' = [control EXCEPT ![state] = Append(@, [op |-> op, from |-> t])]
        /\ UNCHANGED serving /\ state # None
    BY <2>1 DEF Ask
  <2> QED
    BY <2>2, Sent DEF ControlTypes
<1>2. ASSUME NEW t \in Thread, StopCall(t)
      PROVE  ControlTypes'
  <2>1. /\ control' = [control EXCEPT ![state] = Append(@, [op |-> "stop", from |-> t])]
        /\ UNCHANGED serving /\ state # None
    BY <1>2 DEF StopCall
  <2> QED
    BY <2>1, Sent DEF ControlTypes
<1>3. ASSUME NEW s \in Server, Receive(s)
      PROVE  ControlTypes'
  <2>1. /\ control[s] # <<>> /\ control' = [control EXCEPT ![s] = Tail(@)]
        /\ serving' = [serving EXCEPT ![s] = Head(control[s])]
    BY <1>3 DEF Receive
  <2> QED
    BY <2>1, Received DEF ControlTypes
<1>4. ASSUME NEW s \in Server, Reply(s)
      PROVE  ControlTypes'
  BY <1>4 DEF Reply, server, data, ControlTypes
<1>5. CASE UNCHANGED <<control, serving>>
  BY <1>5 DEF ControlTypes
<1> QED
  BY <1>1, <1>2, <1>3, <1>4, <1>5
    DEF Next, ThreadStep, ServerStep, DatabaseStep, HandlerStep, StartCall,
      TransferCall, StartReturn, StopReturn, TransferReturn, OpenDatabase, Bind,
      Begin, Continue, Publish, Close, RunMutation, RunControlJob, Submit,
      Answer, Cancel, Arrive, server, data, vars

LEMMA PhaseTypesStep ==
  ASSUME PhaseTypes, JobTypes, [Next]_vars
  PROVE  PhaseTypes'
<1>1. ASSUME NEW t \in Thread, NEW s \in Server, StartCall(t, s)
      PROVE  PhaseTypes'
  BY <1>1 DEF StartCall, PhaseTypes, Goto
<1>2. ASSUME NEW s \in Server, OpenDatabase(s)
      PROVE  PhaseTypes'
  BY <1>2 DEF OpenDatabase, PhaseTypes, Goto
<1>3. ASSUME NEW s \in Server, Bind(s)
      PROVE  PhaseTypes'
  BY <1>3 DEF Bind, PhaseTypes, Goto
<1>4. ASSUME NEW s \in Server, Receive(s)
      PROVE  PhaseTypes'
  BY <1>4 DEF Receive, PhaseTypes, Goto, Steps
<1>5. ASSUME NEW s \in Server, Begin(s)
      PROVE  PhaseTypes'
  BY <1>5 DEF Begin, PhaseTypes, Goto, Steps
<1>6. ASSUME NEW s \in Server, Continue(s)
      PROVE  PhaseTypes'
  BY <1>6 DEF Continue, PhaseTypes, Goto, Steps
<1>7. ASSUME NEW s \in Server, Publish(s)
      PROVE  PhaseTypes'
  BY <1>7 DEF Publish, server, data, PhaseTypes, Goto, Steps
<1>8. ASSUME NEW s \in Server, Reply(s)
      PROVE  PhaseTypes'
  BY <1>8 DEF Reply, server, data, PhaseTypes, Goto, Steps
<1>9. ASSUME NEW s \in Server, Close(s)
      PROVE  PhaseTypes'
  BY <1>9 DEF Close, server, PhaseTypes, Goto, Steps
<1>10. ASSUME NEW s \in Server, RunControlJob(s)
      PROVE  PhaseTypes'
  <2>1. /\ queue[s] # <<>> /\ Head(queue[s]).kind # "mutation"
        /\ queue' = [queue EXCEPT ![s] = Tail(@)]
    BY <1>10 DEF RunControlJob
  <2>2. Head(queue[s]).kind \in {"login", "checkpoint", "backup"}
    BY <2>1, Dequeued, KindOfJob
  <2> QED
    BY <1>10, <2>2 DEF RunControlJob, Goto, PhaseTypes, Steps
<1>11. CASE UNCHANGED <<phase, step, session, db>>
  BY <1>11 DEF PhaseTypes
<1> QED
  BY <1>1, <1>2, <1>3, <1>4, <1>5, <1>6, <1>7, <1>8, <1>9, <1>10, <1>11
    DEF Next, ThreadStep, ServerStep, DatabaseStep, HandlerStep, Ask, StopCall,
      TransferCall, StartReturn, StopReturn, TransferReturn, RunMutation,
      Submit, Answer, Cancel, Arrive, server, data, vars

LEMMA JobTypesStep ==
  ASSUME JobTypes, HandlerTypes, [Next]_vars
  PROVE  JobTypes'
<1>1. ASSUME NEW s \in Server, Begin(s)
      PROVE  JobTypes'
  <2>1. UNCHANGED queue \/ \E k \in {"login", "checkpoint"} : Enqueue(s, k)
    BY <1>1 DEF Begin
  <2>2. CASE UNCHANGED queue
    BY <2>2 DEF JobTypes
  <2>3. ASSUME NEW k \in {"login", "checkpoint", "backup"}, Enqueue(s, k)
        PROVE  JobTypes'
    <3>1. [kind |-> k] \in Job /\ queue' = [queue EXCEPT ![s] = Append(@, [kind |-> k])]
      BY <2>3 DEF Job, Enqueue
    <3> QED
      BY <3>1, Enqueued
  <2> QED
    BY <2>1, <2>2, <2>3
<1>2. ASSUME NEW s \in Server, Continue(s)
      PROVE  JobTypes'
  <2>1. UNCHANGED queue \/ \E k \in {"backup"} : Enqueue(s, k)
    BY <1>2 DEF Continue
  <2>2. CASE UNCHANGED queue
    BY <2>2 DEF JobTypes
  <2>3. ASSUME NEW k \in {"login", "checkpoint", "backup"}, Enqueue(s, k)
        PROVE  JobTypes'
    <3>1. [kind |-> k] \in Job /\ queue' = [queue EXCEPT ![s] = Append(@, [kind |-> k])]
      BY <2>3 DEF Job, Enqueue
    <3> QED
      BY <3>1, Enqueued
  <2> QED
    BY <2>1, <2>2, <2>3
<1>3. ASSUME NEW s \in Server, RunMutation(s)
      PROVE  JobTypes'
  <2>1. queue[s] # <<>> /\ queue' = [queue EXCEPT ![s] = Tail(@)]
    BY <1>3 DEF RunMutation
  <2> QED
    BY <2>1, Dequeued
<1>4. ASSUME NEW s \in Server, RunControlJob(s)
      PROVE  JobTypes'
  <2>1. queue[s] # <<>> /\ queue' = [queue EXCEPT ![s] = Tail(@)]
    BY <1>4 DEF RunControlJob
  <2> QED
    BY <2>1, Dequeued
<1>5. ASSUME NEW r \in Request, Submit(r)
      PROVE  JobTypes'
  <2> DEFINE s == handler[r].srv
             j == [kind |-> "mutation", req |-> r]
  <2>1. j \in Job /\ queue' = [queue EXCEPT ![s] = Append(@, j)]
    BY <1>5 DEF Submit, Job
  <2> HIDE DEF s, j
  <2>2. CASE s \in Server
    BY <2>1, <2>2, Enqueued
  <2>3. CASE s \notin Server
    BY <2>1, <2>3 DEF JobTypes
  <2> QED
    BY <2>2, <2>3
<1>6. CASE UNCHANGED queue
  BY <1>6 DEF JobTypes
<1> QED
  BY <1>1, <1>2, <1>3, <1>4, <1>5, <1>6
    DEF Next, ThreadStep, ServerStep, DatabaseStep, HandlerStep, StartCall, Ask,
      StopCall, TransferCall, StartReturn, StopReturn, TransferReturn,
      OpenDatabase, Bind, Receive, Publish, Reply, Close, Answer, Cancel,
      Arrive, server, data, vars

LEMMA HandlerTypesStep ==
  ASSUME HandlerTypes, JobTypes, [Next]_vars
  PROVE  HandlerTypes'
<1>1. ASSUME NEW s \in Server, Close(s)
      PROVE  HandlerTypes'
  BY <1>1 DEF Close, server, data, HandlerTypes, Unsent, Detached
<1>2. ASSUME NEW s \in Server, RunMutation(s)
      PROVE  HandlerTypes'
  <2> DEFINE r == Head(queue[s]).req
  <2>1. r \in Request
    BY <1>2, Dequeued, KindOfJob DEF RunMutation
  <2>2. /\ committed' = committed \cup {r}
        /\ handler' = IF handler[r].at = "queued" THEN [handler EXCEPT ![r].at = "committed"]
                      ELSE handler
    BY <1>2 DEF RunMutation
  <2> HIDE DEF r
  <2> QED
    BY <2>1, <2>2 DEF HandlerTypes
<1>3. ASSUME NEW r \in Request, Submit(r)
      PROVE  HandlerTypes'
  BY <1>3 DEF Submit, server, data, HandlerTypes, Unsent, Detached
<1>4. ASSUME NEW r \in Request, Answer(r)
      PROVE  HandlerTypes'
  BY <1>4 DEF Answer, server, data, HandlerTypes, Unsent, Detached
<1>5. ASSUME NEW r \in Request, Cancel(r)
      PROVE  HandlerTypes'
  BY <1>5 DEF Cancel, data, HandlerTypes, Unsent, Detached
<1>6. ASSUME NEW r \in Request, NEW s \in Server, Arrive(r, s)
      PROVE  HandlerTypes'
  BY <1>6 DEF Arrive, data, HandlerTypes, Unsent, Detached
<1>7. CASE UNCHANGED <<handler, committed>>
  BY <1>7 DEF HandlerTypes
<1> QED
  BY <1>1, <1>2, <1>3, <1>4, <1>5, <1>6, <1>7
    DEF Next, ThreadStep, ServerStep, DatabaseStep, HandlerStep, StartCall, Ask,
      StopCall, TransferCall, StartReturn, StopReturn, TransferReturn,
      OpenDatabase, Bind, Receive, Begin, Continue, Publish, Reply,
      RunControlJob, server, data, vars

LEMMA DataTypesStep ==
  ASSUME HandlerTypes, HandlerTypes', DataTypes, [Next]_vars
  PROVE  DataTypes'
<1>1. ASSUME NEW t \in Thread, StopCall(t)
      PROVE  DataTypes'
  BY <1>1 DEF StopCall, Owe, DataTypes, HandlersOf
<1>2. ASSUME NEW s \in Server, Publish(s)
      PROVE  DataTypes'
  BY <1>2 DEF Publish, Excuse, DataTypes
<1>3. ASSUME NEW s \in Server, RunMutation(s)
      PROVE  DataTypes'
  BY <1>3 DEF RunMutation, owed, HandlerTypes, DataTypes
<1>4. ASSUME NEW s \in Server, RunControlJob(s)
      PROVE  DataTypes'
  BY <1>4 DEF RunControlJob, Excuse, DataTypes
<1>5. ASSUME NEW s \in Server, Close(s)
      PROVE  DataTypes'
  BY <1>5 DEF Close, Settle, DataTypes
<1>6. CASE UNCHANGED data
  BY <1>6 DEF data, DataTypes
<1> QED
  BY <1>1, <1>2, <1>3, <1>4, <1>5, <1>6
    DEF Next, ThreadStep, ServerStep, DatabaseStep, HandlerStep, StartCall, Ask,
      TransferCall, StartReturn, StopReturn, TransferReturn, OpenDatabase, Bind,
      Receive, Begin, Continue, Reply, Submit, Answer, Cancel, Arrive, data, vars

(* Only a Stop takes the instance in STATE down, and it leaves STATE.      *)
LEMMA StateIsUpStep ==
  ASSUME CallTypes, ControlTypes, PhaseTypes, Mutex, Owned, Phases, Serving, StateIsUp, [Next]_vars
  PROVE  StateIsUp'
<1>1. ASSUME NEW t \in Thread, NEW s \in Server, StartCall(t, s)
      PROVE  StateIsUp'
  BY <1>1 DEF StartCall, StateIsUp
<1>2. ASSUME NEW t \in Thread, StartReturn(t)
      PROVE  StateIsUp'
  BY <1>2 DEF StartReturn, server, CallTypes, Phases, StateIsUp
<1>3. ASSUME NEW t \in Thread, StopCall(t)
      PROVE  StateIsUp'
  BY <1>3 DEF StopCall, server, Phases, StateIsUp
<1>4. ASSUME NEW s \in Server, OpenDatabase(s)
      PROVE  StateIsUp'
  BY <1>4 DEF OpenDatabase, CallTypes, PhaseTypes, StateIsUp
<1>5. ASSUME NEW s \in Server, Bind(s)
      PROVE  StateIsUp'
  BY <1>5 DEF Bind, PhaseTypes, StateIsUp
<1>6. ASSUME NEW s \in Server, Reply(s)
      PROVE  StateIsUp'
  <2>1. UNCHANGED <<state, db>>
    BY <1>6 DEF Reply
  <2>2. \/ UNCHANGED phase
        \/ Joined(s) /\ phase' = [phase EXCEPT ![s] = "closing"]
    BY <1>6, ReplyEffect
  <2> QED
    BY <2>1, <2>2 DEF StateIsUp, Owned, PhaseTypes, CallTypes
<1>7. ASSUME NEW s \in Server, Close(s)
      PROVE  StateIsUp'
  BY <1>7, RuntimeAssumption
    DEF Close, server, data, Calling, CallTypes, PhaseTypes, Mutex, Owned,
      Phases, StateIsUp
<1>8. CASE UNCHANGED <<state, phase, db>>
  BY <1>8 DEF StateIsUp
<1> QED
  BY <1>1, <1>2, <1>3, <1>4, <1>5, <1>6, <1>7, <1>8
    DEF Next, ThreadStep, ServerStep, DatabaseStep, HandlerStep, Ask,
      TransferCall, StopReturn, TransferReturn, Receive, Begin, Continue,
      Publish, RunMutation, RunControlJob, Submit, Answer, Cancel, Arrive,
      server, data, vars

(* The mutex changes hands with a start or a transfer only.                *)
LEMMA MutexStep ==
  ASSUME CallTypes, ControlTypes, PhaseTypes, Mutex, Serving, [Next]_vars
  PROVE  Mutex'
<1>1. ASSUME NEW t \in Thread, NEW s \in Server, StartCall(t, s)
      PROVE  Mutex'
  BY <1>1, RuntimeAssumption DEF StartCall, Calling, CallTypes, Mutex
<1>2. ASSUME NEW t \in Thread, Ask(t, "login") \/ Ask(t, "prepare")
      PROVE  Mutex'
  <2>1. PICK op \in {"login", "prepare"} : Ask(t, op)
    BY <1>2
  <2>2. /\ call[t].op = "none" /\ UNCHANGED <<lock, state>>
        /\ call' = [call EXCEPT ![t] = [op |-> op, srv |-> state]]
    BY <2>1 DEF Ask, Calling, Idle
  <2> QED
    BY <2>2 DEF Mutex, CallTypes
<1>3. ASSUME NEW t \in Thread, StopCall(t)
      PROVE  Mutex'
  BY <1>3, RuntimeAssumption
    DEF StopCall, server, data, Calling, Return, Idle, CallTypes, Mutex
<1>4. ASSUME NEW t \in Thread, TransferCall(t)
      PROVE  Mutex'
  BY <1>4, RuntimeAssumption
    DEF TransferCall, server, data, Calling, Return, CallTypes, Mutex
<1>5. ASSUME NEW t \in Thread, StartReturn(t)
      PROVE  Mutex'
  BY <1>5, RuntimeAssumption
    DEF StartReturn, Calling, Return, Idle, CallTypes, Mutex
<1>6. ASSUME NEW t \in Thread, StopReturn(t)
      PROVE  Mutex'
  BY <1>6, RuntimeAssumption
    DEF StopReturn, Calling, Return, Idle, CallTypes, Mutex
<1>7. ASSUME NEW t \in Thread, TransferReturn(t)
      PROVE  Mutex'
  BY <1>7, RuntimeAssumption
    DEF TransferReturn, Calling, Return, Idle, CallTypes, Mutex
<1>8. ASSUME NEW s \in Server, Reply(s)
      PROVE  Mutex'
  <2>1. UNCHANGED <<lock, state>>
    BY <1>8 DEF Reply
  <2>2. CASE serving[s].op = "stop"
    BY <1>8, <2>1, <2>2, ReplyEffect DEF Mutex
  <2>3. CASE serving[s].op # "stop"
    <3> DEFINE u == serving[s].from
    <3>1. /\ u \in Thread /\ call[u] = [op |-> serving[s].op, srv |-> s]
          /\ serving[s].op \in {"login", "prepare"} /\ call' = [call EXCEPT ![u] = Idle]
      BY <1>8, <2>3, ReplyEffect
    <3>2. call[u].op \in {"login", "prepare"} /\ Idle.op = "none"
      BY <3>1 DEF Idle
    <3> HIDE DEF u
    <3> QED
      BY <2>1, <3>1, <3>2 DEF Mutex, CallTypes
  <2> QED
    BY <2>2, <2>3
<1>9. CASE UNCHANGED <<lock, state, call>>
  BY <1>9 DEF Mutex
<1> QED
  BY <1>1, <1>2, <1>3, <1>4, <1>5, <1>6, <1>7, <1>8, <1>9
    DEF Next, ThreadStep, ServerStep, DatabaseStep, HandlerStep, OpenDatabase,
      Bind, Receive, Begin, Continue, Publish, Close, RunMutation,
      RunControlJob, Submit, Answer, Cancel, Arrive, server, data, vars

(* A start takes an instance nobody joins; a stop joins the one in STATE.  *)
LEMMA OwnedStep ==
  ASSUME CallTypes, ControlTypes, PhaseTypes, Mutex, Phases, Owned, Serving, StateIsUp, [Next]_vars
  PROVE  Owned'
<1>1. ASSUME NEW t \in Thread, NEW s \in Server, StartCall(t, s)
      PROVE  Owned'
  <2>1. /\ call[t] = Idle /\ lock = None /\ state = None /\ state' = state /\ ~ Joined(s)
        /\ call' = [call EXCEPT ![t] = [op |-> "start", srv |-> s]]
        /\ phase' = [phase EXCEPT ![s] = "opening"]
    BY <1>1 DEF StartCall, Calling
  <2>2. \A u \in Thread :
          call'[u] = IF u = t THEN [op |-> "start", srv |-> s] ELSE call[u]
    BY <2>1 DEF CallTypes
  <2>3. \A x \in Server : ~ Starting(x)
    BY <2>1, OneStarts
  <2>4. \A x \in Server : Joined(x)' <=> Joined(x)
    BY <2>1, <2>2 DEF Joined, Idle
  <2>5. \A x \in Server : Starting(x)' <=> x = s
    <3>1. Starting(s)'
      BY <2>2 DEF Starting
    <3>2. ASSUME NEW x \in Server, Starting(x)' PROVE x = s
      BY <2>2, <2>3, <3>2 DEF Starting
    <3> QED
      BY <3>1, <3>2
  <2> QED
    BY <2>1, <2>3, <2>4, <2>5 DEF Owned, PhaseTypes
<1>2. ASSUME NEW t \in Thread, Ask(t, "login") \/ Ask(t, "prepare")
      PROVE  Owned'
  <2>1. PICK op \in {"login", "prepare"} : Ask(t, op)
    BY <1>2
  <2>2. /\ call[t].op = "none" /\ UNCHANGED <<state, phase>>
        /\ call' = [call EXCEPT ![t] = [op |-> op, srv |-> state]]
    BY <2>1 DEF Ask, Calling, Idle
  <2> QED
    BY <2>2, OthersStay, OwnedUntouched
<1>3. ASSUME NEW t \in Thread, StopCall(t)
      PROVE  Owned'
  <2>1. /\ call[t] = Idle /\ lock = None /\ state # None /\ state' = None
        /\ call' = [call EXCEPT ![t] = [op |-> "stop", srv |-> state]]
        /\ UNCHANGED phase
    BY <1>3 DEF StopCall, Calling
  <2>2. \A u \in Thread :
          call'[u] = IF u = t THEN [op |-> "stop", srv |-> state] ELSE call[u]
    BY <2>1 DEF CallTypes
  <2>3. \A x \in Server : ~ Starting(x)
    BY <2>1, OneStarts
  <2>4. \A x \in Server : ~ Starting(x)'
    BY <2>2, <2>3 DEF Starting
  <2>5. \A x \in Server : Joined(x) => Joined(x)'
    BY <2>1, <2>2 DEF Joined, Idle
  <2>6. \A x \in Server : x = state => Joined(x)'
    BY <2>2 DEF Joined
  <2>7. \A x \in Server : x # None
    BY RuntimeAssumption
  <2> QED
    BY <2>1, <2>3, <2>4, <2>5, <2>6, <2>7 DEF Owned
<1>4. ASSUME NEW t \in Thread, TransferCall(t)
      PROVE  Owned'
  <2>1. /\ call[t].op = "none" /\ UNCHANGED <<state, phase>>
        /\ call' = [call EXCEPT ![t] = [op |-> "transfer", srv |-> None]]
    BY <1>4 DEF TransferCall, Calling, Idle, server
  <2> QED
    BY <2>1, OthersStay, OwnedUntouched
<1>5. ASSUME NEW t \in Thread, StartReturn(t)
      PROVE  Owned'
  <2> DEFINE s == call[t].srv
  <2>1. /\ call[t].op = "start" /\ call' = [call EXCEPT ![t] = Idle] /\ UNCHANGED phase
        /\ \/ phase[s] = "up" /\ state' = s
           \/ phase[s] = "off" /\ UNCHANGED state
    BY <1>5 DEF StartReturn, Return, server
  <2>2. lock = t /\ state = None
    BY <2>1 DEF Mutex
  <2>3. \A u \in Thread : call'[u] = IF u = t THEN Idle ELSE call[u]
    BY <2>1 DEF CallTypes
  <2>4. \A x \in Server : Starting(x) => x = s
    <3>1. ASSUME NEW x \in Server, Starting(x) PROVE call[t].srv = x
      BY <2>2, <3>1, OneStarts
    <3> QED
      BY <3>1
  <2>5. \A x \in Server : ~ Starting(x)'
    <3>1. ASSUME NEW x \in Server, NEW u \in Thread, call'[u] = [op |-> "start", srv |-> x]
          PROVE  FALSE
      <4>1. u # t /\ call[u] = [op |-> "start", srv |-> x]
        BY <2>3, <3>1 DEF Idle
      <4> QED
        BY <2>2, <4>1 DEF Mutex
    <3> QED
      BY <3>1 DEF Starting
  <2>6. \A x \in Server : Joined(x)' <=> Joined(x)
    BY <2>1, <2>3 DEF Joined, Idle
  <2>7. s \in Server => Starting(s)
    <3>1. call[t] = [op |-> "start", srv |-> s]
      BY <2>1 DEF CallTypes
    <3> QED
      BY <3>1 DEF Starting
  <2>8. \A x \in Server : x # None
    BY RuntimeAssumption
  <2> HIDE DEF s
  <2> QED
    BY <2>1, <2>2, <2>4, <2>5, <2>6, <2>7, <2>8 DEF Owned
<1>6. ASSUME NEW t \in Thread, StopReturn(t)
      PROVE  Owned'
  <2> DEFINE s == call[t].srv
  <2>1. /\ call[t].op = "stop" /\ phase[s] = "off" /\ UNCHANGED <<state, phase>>
        /\ call' = [call EXCEPT ![t] = Idle]
    BY <1>6 DEF StopReturn, Return, server
  <2>2. \A u \in Thread : call'[u] = IF u = t THEN Idle ELSE call[u]
    BY <2>1 DEF CallTypes
  <2>3. \A x \in Server : Starting(x)' <=> Starting(x)
    BY <2>1, <2>2 DEF Starting, Idle
  <2>4. \A x \in Server : Joined(x)' => Joined(x)
    BY <2>2 DEF Joined, Idle
  <2>5. \A x \in Server : phase[x] # "off" /\ Joined(x) => Joined(x)'
    <3>1. ASSUME NEW x \in Server, phase[x] # "off", NEW u \in Thread,
                 call[u] = [op |-> "stop", srv |-> x]
          PROVE  call'[u] = [op |-> "stop", srv |-> x]
      BY <2>1, <2>2, <3>1
    <3> QED
      BY <3>1 DEF Joined
  <2> HIDE DEF s
  <2> QED
    BY <2>1, <2>3, <2>4, <2>5 DEF Owned
<1>7. ASSUME NEW t \in Thread, TransferReturn(t)
      PROVE  Owned'
  <2>1. /\ call[t].op = "transfer" /\ UNCHANGED <<state, phase>>
        /\ call' = [call EXCEPT ![t] = Idle] /\ Idle.op = "none"
    BY <1>7 DEF TransferReturn, Return, Idle, server
  <2> QED
    BY <2>1, OthersStay, OwnedUntouched
<1>8. ASSUME NEW s \in Server, OpenDatabase(s)
      PROVE  Owned'
  BY <1>8, SameCalls, OwnedUntouched DEF OpenDatabase, server, PhaseTypes
<1>9. ASSUME NEW s \in Server, Bind(s)
      PROVE  Owned'
  BY <1>9, SameCalls, OwnedUntouched DEF Bind, server, PhaseTypes
<1>10. ASSUME NEW s \in Server, Reply(s)
      PROVE  Owned'
  <2>1. UNCHANGED state
    BY <1>10 DEF Reply
  <2>2. \A x \in Server : (Joined(x)' <=> Joined(x)) /\ (Starting(x)' <=> Starting(x))
    <3>1. CASE serving[s].op = "stop"
      BY <1>10, <3>1, ReplyEffect, SameCalls
    <3>2. CASE serving[s].op # "stop"
      <4> DEFINE u == serving[s].from
      <4>1. /\ u \in Thread /\ call[u].op \in {"login", "prepare"}
            /\ call' = [call EXCEPT ![u] = Idle] /\ Idle.op = "none"
        <5>1. /\ u \in Thread /\ call[u] = [op |-> serving[s].op, srv |-> s]
              /\ serving[s].op \in {"login", "prepare"} /\ call' = [call EXCEPT ![u] = Idle]
          BY <1>10, <3>2, ReplyEffect
        <5> QED
          BY <5>1 DEF Idle
      <4> HIDE DEF u
      <4> QED
        BY <4>1, OthersStay
    <3> QED
      BY <3>1, <3>2
  <2>3. \A x \in Server : phase'[x] # "off" => phase[x] # "off"
    BY <1>10, ReplyEffect DEF Reply, Phases, PhaseTypes
  <2> QED
    BY <2>1, <2>2, <2>3, OwnedUntouched
<1>11. ASSUME NEW s \in Server, Close(s)
      PROVE  Owned'
  BY <1>11, SameCalls, OwnedUntouched DEF Close, server, PhaseTypes
<1>12. CASE UNCHANGED <<state, call, phase>>
  BY <1>12 DEF Owned, Joined, Starting
<1> QED
  BY <1>1, <1>2, <1>3, <1>4, <1>5, <1>6, <1>7, <1>8, <1>9, <1>10, <1>11, <1>12
    DEF Next, ThreadStep, ServerStep, DatabaseStep, HandlerStep, Receive, Begin,
      Continue, Publish, RunMutation, RunControlJob, Submit, Answer, Cancel,
      Arrive, server, data, vars

(* The server thread serves its channel while it is up.                    *)
LEMMA PhasesStep ==
  ASSUME CallTypes, ControlTypes, PhaseTypes, JobTypes, StateIsUp, Phases, Commands, Jobs, [Next]_vars
  PROVE  Phases'
<1>1. ASSUME NEW t \in Thread, NEW s \in Server, StartCall(t, s)
      PROVE  Phases'
  BY <1>1 DEF StartCall, Phases
<1>2. ASSUME NEW t \in Thread, Ask(t, "login") \/ Ask(t, "prepare")
      PROVE  Phases'
  BY <1>2 DEF Ask, Ask, ControlTypes, Phases, StateIsUp
<1>3. ASSUME NEW t \in Thread, StopCall(t)
      PROVE  Phases'
  BY <1>3 DEF StopCall, ControlTypes, Phases, StateIsUp
<1>4. ASSUME NEW s \in Server, OpenDatabase(s)
      PROVE  Phases'
  BY <1>4 DEF OpenDatabase, PhaseTypes, Phases
<1>5. ASSUME NEW s \in Server, Bind(s)
      PROVE  Phases'
  BY <1>5
    DEF Bind, server, data, ControlTypes, CallTypes, PhaseTypes, Phases,
      StateIsUp, Commands, Goto
<1>6. ASSUME NEW s \in Server, Receive(s)
      PROVE  Phases'
  BY <1>6 DEF Receive, Phases
<1>7. ASSUME NEW s \in Server, Begin(s)
      PROVE  Phases'
  BY <1>7 DEF Begin, PhaseTypes, Phases, Goto
<1>8. ASSUME NEW s \in Server, Continue(s)
      PROVE  Phases'
  BY <1>8 DEF Continue, PhaseTypes, Phases, Goto
<1>9. ASSUME NEW s \in Server, Publish(s)
      PROVE  Phases'
  BY <1>9 DEF Publish, PhaseTypes, Phases, Goto
<1>10. ASSUME NEW s \in Server, Reply(s)
      PROVE  Phases'
  BY <1>10 DEF Reply, PhaseTypes, Phases, Commands, Goto
<1>11. ASSUME NEW s \in Server, Close(s)
      PROVE  Phases'
  BY <1>11 DEF Close, PhaseTypes, Phases, Commands, Goto
<1>12. ASSUME NEW s \in Server, RunControlJob(s)
      PROVE  Phases'
  <2>1. /\ step[s] # "idle" /\ \A x \in Server : x # s => step'[x] = step[x]
        /\ UNCHANGED <<phase, control, session, db>>
    BY <1>12, ControlJobEffect DEF RunControlJob
  <2> QED
    BY <2>1 DEF Phases
<1>13. CASE UNCHANGED <<control, phase, step, session, db>>
  BY <1>13 DEF Phases
<1> QED
  BY <1>1, <1>2, <1>3, <1>4, <1>5, <1>6, <1>7, <1>8, <1>9, <1>10, <1>11, <1>12,
     <1>13
    DEF Next, ThreadStep, ServerStep, DatabaseStep, HandlerStep, TransferCall,
      StartReturn, StopReturn, TransferReturn, RunMutation, Submit, Answer,
      Cancel, Arrive, server, data, vars

(* Who waits for the command being served.                                 *)
LEMMA ServingStep ==
  ASSUME CallTypes, ControlTypes, PhaseTypes, JobTypes, Jobs, Phases, Serving, Commands, [Next]_vars
  PROVE  Serving'
<1>1. ASSUME NEW t \in Thread, NEW s \in Server, StartCall(t, s)
      PROVE  Serving'
  BY <1>1, RuntimeAssumption DEF StartCall, Serving, Awaited, Calling, Idle
<1>2. ASSUME NEW t \in Thread, Ask(t, "login") \/ Ask(t, "prepare")
      PROVE  Serving'
  <2>1. PICK op \in {"login", "prepare"} : Ask(t, op)
    BY <1>2
  <2>2. /\ call[t].op = "none" /\ UNCHANGED <<step, serving>>
        /\ call' = [call EXCEPT ![t] = [op |-> op, srv |-> state]]
    BY <2>1 DEF Ask, Calling, Idle
  <2>3. \A x \in Server : serving[x].from # t
    BY <2>2, IdleAskedNothing
  <2> QED
    BY <2>2, <2>3, Served DEF CallTypes, Serving, Awaited
<1>3. ASSUME NEW t \in Thread, StopCall(t)
      PROVE  Serving'
  BY <1>3, RuntimeAssumption
    DEF StopCall, server, data, CallTypes, ControlTypes, PhaseTypes, Control,
      NoCommand, Serving, Commands, Awaited, Calling, Return, Idle, Goto,
      Enqueue
<1>4. ASSUME NEW t \in Thread, TransferCall(t)
      PROVE  Serving'
  BY <1>4
    DEF TransferCall, server, ControlTypes, Control, Serving, Commands, Awaited,
      Calling, Idle
<1>5. ASSUME NEW t \in Thread, StartReturn(t)
      PROVE  Serving'
  BY <1>5
    DEF StartReturn, server, ControlTypes, Control, Serving, Commands, Awaited,
      Return
<1>6. ASSUME NEW t \in Thread, StopReturn(t)
      PROVE  Serving'
  <2> DEFINE s == call[t].srv
  <2>1. /\ call[t].op = "stop" /\ phase[s] = "off" /\ UNCHANGED <<step, serving>>
        /\ call' = [call EXCEPT ![t] = Idle]
    BY <1>6 DEF StopReturn, Return, server
  <2>2. ASSUME NEW x \in Server, serving[x] # NoCommand
        PROVE  call'[serving[x].from] = call[serving[x].from]
    <3>1. step[x] # "idle" /\ phase[x] = "up"
      BY <2>2 DEF Serving, Phases
    <3>2. serving[x].from \in Thread /\ call[serving[x].from].srv = x
      BY <3>1, Served
    <3> QED
      BY <2>1, <3>1, <3>2
  <2> HIDE DEF s
  <2> QED
    BY <2>1, <2>2 DEF Serving, Awaited
<1>7. ASSUME NEW t \in Thread, TransferReturn(t)
      PROVE  Serving'
  BY <1>7, RuntimeAssumption
    DEF TransferReturn, server, data, CallTypes, ControlTypes, PhaseTypes,
      Control, NoCommand, Serving, Commands, Awaited, Calling, Return, Idle,
      Goto, Enqueue
<1>8. ASSUME NEW s \in Server, Receive(s)
      PROVE  Serving'
  BY <1>8, RuntimeAssumption
    DEF Receive, ControlTypes, PhaseTypes, NoCommand, Serving, Commands, Awaited
<1>9. ASSUME NEW s \in Server, Begin(s)
      PROVE  Serving'
  BY <1>9 DEF Begin, PhaseTypes, Serving, Awaited, Goto
<1>10. ASSUME NEW s \in Server, Continue(s)
      PROVE  Serving'
  BY <1>10 DEF Continue, PhaseTypes, Serving, Awaited, Goto
<1>11. ASSUME NEW s \in Server, Publish(s)
      PROVE  Serving'
  BY <1>11 DEF Publish, PhaseTypes, Serving, Awaited, Goto
<1>12. ASSUME NEW s \in Server, Reply(s)
      PROVE  Serving'
  <2>1. /\ \A x \in Server : serving'[x] = IF x = s THEN NoCommand ELSE serving[x]
        /\ \A x \in Server : step'[x] = IF x = s THEN "idle" ELSE step[x]
    BY <1>12 DEF Reply, Goto, ControlTypes, PhaseTypes
  <2>2. ASSUME NEW x \in Server, x # s, serving[x] # NoCommand
        PROVE  call'[serving[x].from] = call[serving[x].from]
    <3>1. step[x] # "idle"
      BY <2>2 DEF Serving
    <3>2. serving[x].from \in Thread /\ call[serving[x].from].srv = x
      BY <3>1, Served
    <3>3. CASE serving[s].op = "stop"
      BY <1>12, <3>3, ReplyEffect
    <3>4. CASE serving[s].op # "stop"
      <4>1. /\ serving[s].from \in Thread /\ call[serving[s].from].srv = s
            /\ call' = [call EXCEPT ![serving[s].from] = Idle]
        BY <1>12, <3>4, ReplyEffect
      <4> QED
        BY <2>2, <3>2, <4>1
    <3> QED
      BY <3>3, <3>4
  <2> QED
    BY <2>1, <2>2 DEF Serving, Awaited
<1>13. ASSUME NEW s \in Server, RunControlJob(s)
      PROVE  Serving'
  <2>1. /\ step[s] # "idle" /\ \A x \in Server : x # s => step'[x] = step[x]
        /\ step'[s] # "idle" /\ (step'[s] \in {"login", "loggedIn"} => step[s] = "login")
    BY <1>13, ControlJobEffect
  <2>2. UNCHANGED <<serving, call>>
    BY <1>13 DEF RunControlJob
  <2> QED
    BY <2>1, <2>2 DEF Serving, Awaited
<1>14. CASE UNCHANGED <<call, serving, step>>
  BY <1>14 DEF Serving, Awaited
<1> QED
  BY <1>1, <1>2, <1>3, <1>4, <1>5, <1>6, <1>7, <1>8, <1>9, <1>10, <1>11, <1>12,
     <1>13, <1>14
    DEF Next, ThreadStep, ServerStep, DatabaseStep, HandlerStep, OpenDatabase,
      Bind, Close, RunMutation, Submit, Answer, Cancel, Arrive, server, data,
      vars

(* Each command has its caller, and Stop is the last.                      *)
LEMMA CommandsStep ==
  ASSUME CallTypes, ControlTypes, PhaseTypes, Mutex, Owned, Phases, Serving, Commands, [Next]_vars
  PROVE  Commands'
<1>1. ASSUME NEW t \in Thread, NEW s \in Server, StartCall(t, s)
      PROVE  Commands'
  <2>1. /\ call[t].op = "none" /\ UNCHANGED <<control, serving>>
        /\ call' = [call EXCEPT ![t] = [op |-> "start", srv |-> s]]
    BY <1>1 DEF StartCall, Calling, Idle
  <2> QED
    BY <2>1, CallerWaits, CommandsKept
<1>2. ASSUME NEW t \in Thread, Ask(t, "login") \/ Ask(t, "prepare")
      PROVE  Commands'
  <2>1. PICK op \in {"login", "prepare"} : Ask(t, op)
    BY <1>2
  <2>2. /\ call[t] = Idle /\ state # None /\ UNCHANGED serving
        /\ control' = [control EXCEPT ![state] = Append(@, [op |-> op, from |-> t])]
        /\ call' = [call EXCEPT ![t] = [op |-> op, srv |-> state]]
    BY <2>1 DEF Ask, Calling
  <2> QED
    BY <2>2, SendCommand
<1>3. ASSUME NEW t \in Thread, StopCall(t)
      PROVE  Commands'
  BY <1>3, SendCommand DEF StopCall, Calling
<1>4. ASSUME NEW t \in Thread, TransferCall(t)
      PROVE  Commands'
  <2>1. /\ call[t].op = "none" /\ UNCHANGED <<control, serving>>
        /\ call' = [call EXCEPT ![t] = [op |-> "transfer", srv |-> None]]
    BY <1>4 DEF TransferCall, Calling, Idle, server
  <2> QED
    BY <2>1, CallerWaits, CommandsKept
<1>5. ASSUME NEW t \in Thread, StartReturn(t)
      PROVE  Commands'
  <2>1. /\ call[t].op = "start" /\ UNCHANGED <<control, serving>>
        /\ call' = [call EXCEPT ![t] = Idle]
    BY <1>5 DEF StartReturn, Return, server
  <2> QED
    BY <2>1, CallerWaits, CommandsKept
<1>6. ASSUME NEW t \in Thread, StopReturn(t)
      PROVE  Commands'
  <2>1. /\ phase[call[t].srv] = "off" /\ UNCHANGED <<control, serving>>
        /\ call' = [call EXCEPT ![t] = Idle]
    BY <1>6 DEF StopReturn, Return, server
  <2>2. \A s \in Server : \A i \in 1 .. Len(control[s]) : phase[s] = "up"
    BY DEF Phases, ControlTypes
  <2> QED
    BY <2>1, <2>2, CallerWaits, CommandsKept
<1>7. ASSUME NEW t \in Thread, TransferReturn(t)
      PROVE  Commands'
  <2>1. /\ call[t].op = "transfer" /\ UNCHANGED <<control, serving>>
        /\ call' = [call EXCEPT ![t] = Idle]
    BY <1>7 DEF TransferReturn, Return, server
  <2> QED
    BY <2>1, CallerWaits, CommandsKept
<1>8. ASSUME NEW s \in Server, Receive(s)
      PROVE  Commands'
  <2> DEFINE n == Len(control[s])
             c == control[s][1]
  <2>1. /\ step[s] = "idle" /\ control[s] # <<>> /\ control' = [control EXCEPT ![s] = Tail(@)]
        /\ serving' = [serving EXCEPT ![s] = Head(control[s])] /\ UNCHANGED call
    BY <1>8 DEF Receive
  <2>2. /\ Head(control[s]) = c /\ n \in Nat /\ n >= 1 /\ Len(control'[s]) = n - 1
        /\ \A i \in 1 .. Len(control'[s]) : control'[s][i] = control[s][i + 1]
        /\ \A x \in Server : x # s => control'[x] = control[x]
        /\ control'[s] \in Seq(Control)
    BY <2>1, Received
  <2>3. \A x \in Server : serving'[x] = IF x = s THEN c ELSE serving[x]
    BY <2>1, <2>2 DEF ControlTypes
  <2>4. 1 \in 1 .. n /\ \A i \in 1 .. n - 1 : i + 1 \in 1 .. n /\ i + 1 # 1
    BY <2>2
  <2>5. c.op = "stop" => control'[s] = <<>>
    <3>1. c.op = "stop" => n = 1
      BY <2>4 DEF Commands
    <3> QED
      BY <2>2, <3>1
  <2>6. ASSUME NEW i \in 1 .. n - 1
        PROVE  /\ Awaited(control[s][i + 1], s)
               /\ c.from # control[s][i + 1].from
               /\ control[s][i + 1].op = "stop" => i = n - 1
               /\ \A j \in 1 .. n - 1 :
                    control[s][i + 1].from = control[s][j + 1].from => i = j
    BY <2>2, <2>4 DEF Commands
  <2> HIDE DEF c, n
  <2>7. ASSUME NEW i \in 1 .. Len(control'[s])
        PROVE  /\ call'[control'[s][i].from].op = control'[s][i].op
               /\ call'[control'[s][i].from].srv = s
               /\ c.from # control'[s][i].from
               /\ control'[s][i].op = "stop" => i = Len(control'[s])
               /\ \A j \in 1 .. Len(control'[s]) :
                    control'[s][i].from = control'[s][j].from => i = j
    BY <2>1, <2>2, <2>6 DEF Awaited
  <2>8. ASSUME NEW x \in Server, x # s
        PROVE  /\ serving'[x].op = "stop" => control'[x] = <<>>
               /\ \A i \in 1 .. Len(control'[x]) :
                    /\ call'[control'[x][i].from].op = control'[x][i].op
                    /\ call'[control'[x][i].from].srv = x
                    /\ serving'[x].from # control'[x][i].from
                    /\ control'[x][i].op = "stop" => i = Len(control'[x])
                    /\ \A j \in 1 .. Len(control'[x]) :
                         control'[x][i].from = control'[x][j].from => i = j
    BY <2>1, <2>2, <2>3, <2>8 DEF Commands, Awaited
  <2> QED
    BY <2>3, <2>5, <2>7, <2>8 DEF Commands, Awaited
<1>9. ASSUME NEW s \in Server, Reply(s)
      PROVE  Commands'
  <2>1. UNCHANGED control /\ \A x \in Server : serving'[x] \in {serving[x], NoCommand}
    BY <1>9 DEF Reply, ControlTypes
  <2>2. ASSUME NEW x \in Server, NEW i \in 1 .. Len(control[x])
        PROVE  call'[control[x][i].from] = call[control[x][i].from]
    <3>1. /\ control[x][i].from \in Thread /\ call[control[x][i].from].srv = x
          /\ serving[x].from # control[x][i].from
      BY CallerWaits DEF Commands
    <3>2. CASE serving[s].op = "stop"
      BY <1>9, <3>2, ReplyEffect
    <3>3. CASE serving[s].op # "stop"
      <4>1. /\ serving[s].from \in Thread /\ call[serving[s].from].srv = s
            /\ call' = [call EXCEPT ![serving[s].from] = Idle]
        BY <1>9, <3>3, ReplyEffect
      <4> QED
        BY <3>1, <4>1
    <3> QED
      BY <3>2, <3>3
  <2> QED
    BY <2>1, <2>2, CommandsKept
<1>10. CASE UNCHANGED <<call, control, serving>>
  BY <1>10 DEF Commands, Awaited
<1> QED
  BY <1>1, <1>2, <1>3, <1>4, <1>5, <1>6, <1>7, <1>8, <1>9, <1>10
    DEF Next, ThreadStep, ServerStep, DatabaseStep, HandlerStep, OpenDatabase,
      Bind, Begin, Continue, Publish, Close, RunMutation, RunControlJob, Submit,
      Answer, Cancel, Arrive, server, data, vars

(* The server thread hands over one job and waits for it.                  *)
LEMMA JobsStep ==
  ASSUME PhaseTypes, JobTypes, HandlerTypes, Jobs, [Next]_vars
  PROVE  Jobs'
<1>1. ASSUME NEW s \in Server, Receive(s)
      PROVE  Jobs'
  BY <1>1, JobsQuiet DEF Receive, Goto, PhaseTypes
<1>2. ASSUME NEW s \in Server, Begin(s)
      PROVE  Jobs'
  <2>1. step[s] = "begin"
    BY <1>2 DEF Begin
  <2>2. \/ UNCHANGED queue /\ Goto(s, "reply")
        \/ \E k \in {"login", "checkpoint"} : Enqueue(s, k) /\ Goto(s, k)
    BY <1>2 DEF Begin
  <2>3. CASE UNCHANGED queue /\ Goto(s, "reply")
    BY <2>1, <2>3, JobsQuiet DEF Goto, PhaseTypes
  <2>4. CASE \E k \in {"login", "checkpoint"} : Enqueue(s, k) /\ Goto(s, k)
    BY <2>1, <2>4, JobsQueued
  <2> QED
    BY <2>2, <2>3, <2>4
<1>3. ASSUME NEW s \in Server, Continue(s)
      PROVE  Jobs'
  <2>1. \/ step[s] = "loggedIn" /\ UNCHANGED queue /\ Goto(s, "reply")
        \/ step[s] = "checkpointed" /\ Enqueue(s, "backup") /\ Goto(s, "backup")
    BY <1>3 DEF Continue
  <2>2. CASE step[s] = "loggedIn" /\ UNCHANGED queue /\ Goto(s, "reply")
    BY <2>2, JobsQuiet DEF Goto, PhaseTypes
  <2>3. CASE step[s] = "checkpointed" /\ Enqueue(s, "backup") /\ Goto(s, "backup")
    BY <2>3, JobsQueued
  <2> QED
    BY <2>1, <2>2, <2>3
<1>4. ASSUME NEW s \in Server, Publish(s)
      PROVE  Jobs'
  BY <1>4, JobsQuiet DEF Publish, Goto, PhaseTypes
<1>5. ASSUME NEW s \in Server, Reply(s)
      PROVE  Jobs'
  BY <1>5, JobsQuiet DEF Reply, Goto, PhaseTypes
<1>6. ASSUME NEW s \in Server, RunMutation(s)
      PROVE  Jobs'
  <2>1. /\ queue[s] # <<>> /\ queue' = [queue EXCEPT ![s] = Tail(@)] /\ UNCHANGED step
    BY <1>6 DEF RunMutation
  <2>2. /\ Len(queue[s]) \in Nat /\ Len(queue'[s]) = Len(queue[s]) - 1
        /\ \A i \in 1 .. Len(queue'[s]) : queue'[s][i] = queue[s][i + 1]
        /\ \A x \in Server : x # s => queue'[x] = queue[x]
    BY <2>1, Dequeued
  <2> QED
    BY <2>1, <2>2 DEF Jobs
<1>7. ASSUME NEW s \in Server, RunControlJob(s)
      PROVE  Jobs'
  <2>1. /\ queue[s] # <<>> /\ Head(queue[s]).kind # "mutation"
        /\ queue' = [queue EXCEPT ![s] = Tail(@)]
    BY <1>7 DEF RunControlJob
  <2>2. /\ Len(queue[s]) \in Nat /\ Len(queue'[s]) = Len(queue[s]) - 1
        /\ \A i \in 1 .. Len(queue'[s]) : queue'[s][i] = queue[s][i + 1]
        /\ \A x \in Server : x # s => queue'[x] = queue[x]
    BY <2>1, Dequeued
  <2>3. \A i \in 1 .. Len(queue[s]) : i # 1 => queue[s][i].kind = "mutation"
    BY <2>1, ControlJob
  <2>4. \A i \in 1 .. Len(queue'[s]) : queue'[s][i].kind = "mutation"
    BY <2>2, <2>3
  <2>5. \A x \in Server : x # s => step'[x] = step[x]
    BY <1>7, ControlJobEffect
  <2> QED
    BY <2>2, <2>4, <2>5 DEF Jobs
<1>8. ASSUME NEW r \in Request, Submit(r)
      PROVE  Jobs'
  BY <1>8 DEF Submit, server, data, JobTypes, Jobs
<1>9. CASE UNCHANGED <<step, queue>>
  BY <1>9 DEF Jobs
<1> QED
  BY <1>1, <1>2, <1>3, <1>4, <1>5, <1>6, <1>7, <1>8, <1>9
    DEF Next, ThreadStep, ServerStep, DatabaseStep, HandlerStep, StartCall, Ask,
      StopCall, TransferCall, StartReturn, StopReturn, TransferReturn,
      OpenDatabase, Bind, Close, Answer, Cancel, Arrive, server, data, vars

(* A handler answers what has been committed.                              *)
LEMMA HandlersStep ==
  ASSUME HandlerTypes, PhaseTypes, JobTypes, Handlers, [Next]_vars
  PROVE  Handlers'
<1>1. ASSUME NEW s \in Server, Continue(s)
      PROVE  Handlers'
  BY <1>1 DEF Continue, data, PhaseTypes, Handlers
<1>2. ASSUME NEW s \in Server, Close(s)
      PROVE  Handlers'
  BY <1>2, RuntimeAssumption DEF Close, data, PhaseTypes, Handlers, Detached
<1>3. ASSUME NEW s \in Server, RunMutation(s)
      PROVE  Handlers'
  BY <1>3 DEF RunMutation, data, HandlerTypes, Handlers
<1>4. ASSUME NEW r \in Request, Submit(r)
      PROVE  Handlers'
  BY <1>4 DEF Submit, data, Handlers
<1>5. ASSUME NEW r \in Request, Answer(r)
      PROVE  Handlers'
  BY <1>5 DEF Answer, server, data, Handlers
<1>6. ASSUME NEW r \in Request, Cancel(r)
      PROVE  Handlers'
  BY <1>6 DEF Cancel, server, data, Handlers
<1>7. ASSUME NEW r \in Request, NEW s \in Server, Arrive(r, s)
      PROVE  Handlers'
  BY <1>7 DEF Arrive, server, data, Handlers
<1>8. CASE UNCHANGED <<session, handler, committed>>
  BY <1>8 DEF Handlers
<1> QED
  BY <1>1, <1>2, <1>3, <1>4, <1>5, <1>6, <1>7, <1>8
    DEF Next, ThreadStep, ServerStep, DatabaseStep, HandlerStep, StartCall, Ask,
      StopCall, TransferCall, StartReturn, StopReturn, TransferReturn,
      OpenDatabase, Bind, Receive, Begin, Publish, Reply, RunControlJob, server,
      data, vars

(* Who serves what, and where, matters to what is saved only when a stop   *)
(* has published, and in the step before.                                  *)
LEMMA SavedUntouched ==
  ASSUME DataTypes, Saved, UNCHANGED data,
         \A s \in Server :
           /\ session[s] => session'[s]
           /\ Published(s)' => Published(s) \/ due[s] = {}
           /\ step'[s] = "publish" =>
                step[s] = "publish" /\ (serving'[s].op = "stop" => serving[s].op = "stop")
  PROVE  Saved'
<1>1. UNCHANGED <<committed, snapshot, unsaved, due, behind, overtaken>>
  BY DEF data
<1> SUFFICES ASSUME NEW s \in Server
             PROVE  /\ ~ session'[s] => due[s] = {}
                    /\ serving'[s].op = "stop" /\ step'[s] = "publish" => due[s] \subseteq unsaved[s]
                    /\ Published(s)' /\ s \notin overtaken => due[s] \subseteq snapshot
                    /\ \A o \in Server \ behind[s] :
                         step'[o] = "publish" => due[s] \subseteq unsaved[o]
  BY <1>1 DEF Saved
<1> QED
  BY DEF Saved

(* A snapshot is published over all others: what it lacks of what is owed  *)
(* was not yet answered when the copy was taken.                           *)
LEMMA SavedByPublish ==
  ASSUME DataTypes, PhaseTypes, ControlTypes, Phases, Saved, NEW s \in Server, Publish(s)
  PROVE  Saved'
<1>1. /\ step[s] = "publish" /\ UNCHANGED <<phase, serving, session, committed>>
      /\ \A x \in Server : step'[x] = IF x = s THEN "reply" ELSE step[x]
      /\ \A x \in Server : unsaved'[x] = IF x = s THEN {} ELSE unsaved[x]
      /\ \A x \in Server : behind'[x] = behind[x] \ {s}
  BY DEF Publish, Goto, PhaseTypes, DataTypes
<1>2. phase[s] = "up"
  BY <1>1 DEF Phases
<1>3. CASE /\ snapshot' = unsaved[s] /\ UNCHANGED due
           /\ overtaken' = (overtaken \cup {x \in Server : s \in behind[x]}) \ {s}
  <2>1. \A x \in Server : \A o \in Server \ behind'[x] :
          step'[o] = "publish" => due'[x] \subseteq unsaved'[o]
    BY <1>1, <1>3 DEF Saved
  <2>2. \A x \in Server : Published(x)' /\ x \notin overtaken' => due'[x] \subseteq snapshot'
    BY <1>1, <1>2, <1>3 DEF Saved, Published
  <2>3. snapshot' \subseteq committed' /\ \A x \in Server : unsaved'[x] \subseteq committed'
    BY <1>1, <1>3 DEF Saved
  <2> QED
    BY <1>1, <1>3, <2>1, <2>2, <2>3 DEF Saved
<1>4. CASE Excuse(s) /\ UNCHANGED <<snapshot, overtaken>>
  <2>1. \A x \in Server : due'[x] = due[x] \/ due'[x] = {}
    BY <1>4 DEF Excuse, DataTypes
  <2>2. serving[s].op = "stop" => due'[s] = {}
    BY <1>4 DEF Excuse, DataTypes
  <2>3. \A x \in Server : \A o \in Server \ behind'[x] :
          step'[o] = "publish" => due'[x] \subseteq unsaved'[o]
    BY <1>1, <2>1 DEF Saved
  <2>4. \A x \in Server : Published(x)' /\ x \notin overtaken' => due'[x] \subseteq snapshot'
    BY <1>1, <1>2, <1>4, <2>1, <2>2 DEF Saved, Published
  <2>5. \A x \in Server : unsaved'[x] \subseteq committed'
    BY <1>1 DEF Saved
  <2> QED
    BY <1>1, <1>4, <2>1, <2>3, <2>4, <2>5 DEF Saved
<1> QED
  BY <1>3, <1>4 DEF Publish

(* What had been answered goes to the snapshot with the steps of the stop. *)
LEMMA SavedStep ==
  ASSUME CallTypes, StateIsUp, DataTypes, HandlerTypes, PhaseTypes, ControlTypes, JobTypes,
         Owned, Phases, Serving, Commands, Jobs, Handlers, Saved, [Next]_vars
  PROVE  Saved'
<1>1. ASSUME NEW t \in Thread, NEW s \in Server, StartCall(t, s)
      PROVE  Saved'
  <2>1. /\ UNCHANGED <<serving, step, session, data>>
        /\ phase' = [phase EXCEPT ![s] = "opening"]
    BY <1>1 DEF StartCall
  <2> QED
    BY <2>1, SavedUntouched DEF Published, PhaseTypes
<1>2. ASSUME NEW t \in Thread, StopCall(t)
      PROVE  Saved'
  <2> DEFINE answered == {r \in HandlersOf(state) : handler[r].at = "answered"}
  <2>1. /\ state # None
        /\ UNCHANGED <<phase, serving, step, session, committed, snapshot, unsaved, overtaken>>
    BY <1>2 DEF StopCall, Owe
  <2>2. state \in Server /\ phase[state] = "up" /\ serving[state].op # "stop"
    BY <2>1, StateIsNotStopped DEF CallTypes, StateIsUp
  <2>3. /\ \A x \in Server : due'[x] = IF x = state THEN answered ELSE due[x]
        /\ \A x \in Server : behind'[x] = IF x = state THEN {o \in Server : step[o] = "publish"}
                                          ELSE behind[x]
    BY <1>2, <2>2 DEF StopCall, Owe, DataTypes
  <2>4. answered \subseteq committed /\ (~ session[state] => answered = {})
    BY <2>2 DEF HandlersOf, Handlers
  <2> HIDE DEF answered
  <2>5. ~ Published(state)
    BY <2>2 DEF Published
  <2>6. \A x \in Server : Published(x)' <=> Published(x)
    BY <2>1 DEF Published
  <2>7. \A x \in Server : \A o \in Server \ behind'[x] :
          step'[o] = "publish" => due'[x] \subseteq unsaved'[o]
    BY <2>1, <2>3 DEF Saved
  <2> QED
    BY <2>1, <2>2, <2>3, <2>4, <2>5, <2>6, <2>7 DEF Saved
<1>3. ASSUME NEW s \in Server, OpenDatabase(s) \/ Bind(s)
      PROVE  Saved'
  <2>1. phase[s] \in {"opening", "configuring"} /\ UNCHANGED <<serving, step, session, data>>
    BY <1>3 DEF OpenDatabase, Bind
  <2>2. \A x \in Server : x # s => phase'[x] = phase[x]
    BY <1>3 DEF OpenDatabase, Bind, PhaseTypes
  <2>3. ~ session[s]
    BY <2>1 DEF Phases
  <2>4. due[s] = {}
    BY <2>3 DEF Saved
  <2> QED
    BY <2>1, <2>2, <2>4, SavedUntouched DEF Published
<1>4. ASSUME NEW s \in Server, Receive(s)
      PROVE  Saved'
  <2>1. /\ UNCHANGED <<phase, session, data>>
        /\ \A x \in Server : x # s => step'[x] = step[x] /\ serving'[x] = serving[x]
        /\ step'[s] = "begin"
    BY <1>4 DEF Receive, PhaseTypes, ControlTypes
  <2> QED
    BY <2>1, SavedUntouched DEF Published
<1>5. ASSUME NEW s \in Server, Begin(s)
      PROVE  Saved'
  <2>1. /\ step[s] = "begin" /\ UNCHANGED <<phase, serving, session, data>>
        /\ \E n \in {"login", "checkpoint", "reply"} :
             Goto(s, n) /\ (n = "reply" => ~ session[s])
    BY <1>5 DEF Begin
  <2>2. /\ \A x \in Server : x # s => step'[x] = step[x]
        /\ \/ step'[s] \in {"login", "checkpoint"}
           \/ step'[s] = "reply" /\ ~ session[s]
    BY <2>1 DEF Goto, PhaseTypes
  <2>3. ~ session[s] => due[s] = {}
    BY DEF Saved
  <2> QED
    BY <2>1, <2>2, <2>3, SavedUntouched DEF Published
<1>6. ASSUME NEW s \in Server, Continue(s)
      PROVE  Saved'
  <2>1. /\ UNCHANGED <<phase, serving, data>>
        /\ \A x \in Server : x # s => step'[x] = step[x]
        /\ \A x \in Server : session[x] => session'[x]
        /\ \/ step[s] = "loggedIn" /\ step'[s] = "reply"
           \/ step'[s] = "backup"
    BY <1>6 DEF Continue, Goto, PhaseTypes
  <2>2. step[s] = "loggedIn" => serving[s].op = "login"
    BY DEF Serving
  <2>3. \A x \in Server : Published(x)' => Published(x)
    BY <2>1, <2>2 DEF Published
  <2>4. \A x \in Server : step'[x] = "publish" => step[x] = "publish"
    BY <2>1
  <2> QED
    BY <2>1, <2>3, <2>4, SavedUntouched
<1>7. ASSUME NEW s \in Server, Publish(s)
      PROVE  Saved'
  BY <1>7, SavedByPublish
<1>8. ASSUME NEW s \in Server, Reply(s)
      PROVE  Saved'
  <2>1. /\ step[s] = "reply" /\ UNCHANGED <<session, data>>
        /\ \A x \in Server : serving'[x] = IF x = s THEN NoCommand ELSE serving[x]
        /\ \A x \in Server : step'[x] = IF x = s THEN "idle" ELSE step[x]
    BY <1>8 DEF Reply, Goto, ControlTypes, PhaseTypes
  <2>2. \/ UNCHANGED phase
        \/ phase' = [phase EXCEPT ![s] = "closing"] /\ serving[s].op = "stop"
    BY <1>8 DEF Reply
  <2>3. \A x \in Server : Published(x)' => Published(x)
    BY <2>1, <2>2 DEF Published, PhaseTypes
  <2> QED
    BY <2>1, <2>3, SavedUntouched
<1>9. ASSUME NEW s \in Server, Close(s)
      PROVE  Saved'
  <2>1. /\ UNCHANGED <<serving, step, committed, snapshot, unsaved>>
        /\ \A x \in Server : x # s =>
             /\ session'[x] = session[x] /\ phase'[x] = phase[x]
             /\ due'[x] = due[x] /\ behind'[x] = behind[x]
             /\ x \in overtaken' <=> x \in overtaken
        /\ due'[s] = {}
    BY <1>9 DEF Close, Settle, PhaseTypes, DataTypes
  <2>2. \A x \in Server : x # s => (Published(x)' <=> Published(x))
    BY <2>1 DEF Published
  <2>3. \A x \in Server : \A o \in Server \ behind'[x] :
          step'[o] = "publish" => due'[x] \subseteq unsaved'[o]
    BY <2>1 DEF Saved
  <2> QED
    BY <2>1, <2>2, <2>3 DEF Saved
<1>10. ASSUME NEW s \in Server, RunMutation(s)
      PROVE  Saved'
  <2>1. /\ UNCHANGED <<phase, serving, step, session, snapshot, unsaved, due, behind, overtaken>>
        /\ committed \subseteq committed'
    BY <1>10 DEF RunMutation, owed
  <2>2. \A x \in Server : Published(x)' <=> Published(x)
    BY <2>1 DEF Published
  <2> QED
    BY <2>1, <2>2 DEF Saved
<1>11. ASSUME NEW s \in Server, RunControlJob(s)
      PROVE  Saved'
  <2>1. /\ UNCHANGED <<phase, serving, session, committed, snapshot, behind, overtaken>>
        /\ \A x \in Server : x # s => step'[x] = step[x]
        /\ step[s] \in {"login", "checkpoint", "backup"}
    BY <1>11, ControlJobEffect DEF RunControlJob
  <2>2. \A x \in Server : x # s => (Published(x)' <=> Published(x))
    BY <2>1 DEF Published
  <2>3. CASE step'[s] = "reply" /\ UNCHANGED unsaved /\ Excuse(s)
    <3>1. \A x \in Server : due'[x] = due[x] \/ due'[x] = {}
      BY <2>3 DEF Excuse, DataTypes
    <3>2. \A x \in Server : x # s => due'[x] = due[x]
      BY <2>3 DEF Excuse, DataTypes
    <3>3. due'[s] = {} \/ ~ Published(s)' \/ Published(s)
      BY <2>1, <2>3 DEF Excuse, DataTypes, Published
    <3>4. \A x \in Server : step'[x] = "publish" => x # s /\ step[x] = "publish"
      BY <2>1, <2>3
    <3>5. \A x \in Server : \A o \in Server \ behind'[x] :
            step'[o] = "publish" => due'[x] \subseteq unsaved'[o]
      BY <2>1, <2>3, <3>1, <3>4 DEF Saved
    <3>6. \A x \in Server : Published(x)' /\ x \notin overtaken' => due'[x] \subseteq snapshot'
      BY <2>1, <2>2, <3>1, <3>3 DEF Saved
    <3>7. \A x \in Server :
            serving'[x].op = "stop" /\ step'[x] = "publish" => due'[x] \subseteq unsaved'[x]
      BY <2>1, <2>3, <3>1, <3>4 DEF Saved
    <3> QED
      BY <2>1, <2>3, <3>1, <3>5, <3>6, <3>7 DEF Saved
  <2>4. CASE step'[s] \in {"loggedIn", "checkpointed"} /\ UNCHANGED <<due, unsaved>>
    <3>1. Published(s)' => Published(s)
      BY <2>1, <2>4 DEF Published
    <3> QED
      BY <2>1, <2>2, <2>4, <3>1, SavedUntouched DEF data
  <2>5. CASE step'[s] = "publish" /\ UNCHANGED due /\ unsaved' = [unsaved EXCEPT ![s] = committed]
    <3>1. \A x \in Server : unsaved'[x] = IF x = s THEN committed ELSE unsaved[x]
      BY <2>5 DEF DataTypes
    <3>2. Published(s)' => Published(s)
      BY <2>1, <2>5 DEF Published
    <3> QED
      BY <2>1, <2>2, <2>5, <3>1, <3>2 DEF Saved
  <2> QED
    BY <1>11, <2>3, <2>4, <2>5, ControlJobEffect
<1>12. CASE UNCHANGED <<phase, serving, step, session, data>>
  BY <1>12, SavedUntouched DEF Published
<1> QED
  BY <1>1, <1>2, <1>3, <1>4, <1>5, <1>6, <1>7, <1>8, <1>9, <1>10, <1>11, <1>12
    DEF Next, ThreadStep, ServerStep, DatabaseStep, HandlerStep, Ask,
      TransferCall, StartReturn, StopReturn, TransferReturn, Submit, Answer,
      Cancel, Arrive, server, data, vars

-----------------------------------------------------------------------------
LEMMA InitInvariant == Init => IInv
<1> SUFFICES ASSUME Init PROVE IInv
  OBVIOUS
<1>1. TypeOK
  BY RuntimeAssumption DEF Init, TypeOK, Idle, Calls, NoCommand, Unsent, Steps
<1>2. Mutex
  BY RuntimeAssumption DEF Init, Mutex, Idle
<1>3. Owned /\ Phases
  BY DEF Init, Owned, Phases, Joined, Starting, Idle
<1>4. Serving /\ Commands /\ Jobs
  BY DEF Init, Serving, Commands, Jobs, NoCommand
<1>5. Handlers /\ Saved
  BY RuntimeAssumption DEF Init, Handlers, Saved, Unsent, NoCommand
<1> QED
  BY <1>1, <1>2, <1>3, <1>4, <1>5 DEF IInv

LEMMA NextInvariant ==
  ASSUME IInv, [Next]_vars
  PROVE  IInv'
<1>1. /\ TypeOK /\ CallTypes /\ ControlTypes /\ PhaseTypes /\ JobTypes /\ HandlerTypes
      /\ DataTypes /\ StateIsUp
      /\ Mutex /\ Owned /\ Phases /\ Serving /\ Commands /\ Jobs /\ Handlers /\ Saved
  BY TypeParts DEF IInv
<1>2. CallTypes' /\ ControlTypes' /\ PhaseTypes' /\ JobTypes' /\ HandlerTypes'
  BY <1>1, CallTypesStep, ControlTypesStep, PhaseTypesStep, JobTypesStep, HandlerTypesStep
<1>3. DataTypes' /\ StateIsUp'
  BY <1>1, <1>2, DataTypesStep, StateIsUpStep
<1>4. Mutex' /\ Owned' /\ Phases' /\ Serving' /\ Commands'
  BY <1>1, MutexStep, OwnedStep, PhasesStep, ServingStep, CommandsStep
<1>5. Jobs' /\ Handlers' /\ Saved'
  BY <1>1, JobsStep, HandlersStep, SavedStep
<1>6. TypeOK'
  BY <1>2, <1>3, TypeParts DEF TypeOK, CallTypes, ControlTypes, PhaseTypes, JobTypes,
     HandlerTypes, DataTypes, StateIsUp
<1> QED
  BY <1>4, <1>5, <1>6 DEF IInv

(* The parts of the invariant hold in every state the runtime can reach    *)
(* (android-ffi, transport-http, actor.rs).                                *)
THEOREM RuntimeInvariant == Spec => []IInv
<1> QED
  BY InitInvariant, NextInvariant, PTL DEF Spec

(* Every variable keeps its type, and an instance in STATE is up with its  *)
(* database open (ServerState, start).                                     *)
THEOREM RuntimeTypes == Spec => []TypeOK
<1>1. IInv => TypeOK
  BY DEF IInv
<1> QED
  BY <1>1, RuntimeInvariant, PTL

(* At most one of the instances is not being joined, and it excludes a     *)
(* transfer.                                                               *)
LEMMA OneWriter ==
  ASSUME IInv
  PROVE  SoleWriter
<1> DEFINE open == {s \in Server : db[s] /\ ~ Joined(s)}
           transfers == {t \in Thread : call[t].op = "transfer"}
<1>1. \A x : Cardinality({x}) = 1
  BY FS_Singleton
<1>2. Cardinality({}) = 0
  BY FS_EmptySet
<1>3. Mutex /\ Owned /\ Phases /\ CallTypes
  BY TypeParts DEF IInv
<1>4. \A s \in open : s = state \/ Starting(s)
  BY <1>3 DEF Owned, Phases
<1>5. \A s \in Server : Starting(s) => lock \in Thread /\ call[lock].op = "start" /\ call[lock].srv = s
  BY <1>3 DEF Mutex, Starting
<1>6. \A t \in transfers : t = lock /\ state = None
  BY <1>3 DEF Mutex
<1>7. \A s \in Server : s # None
  BY RuntimeAssumption
<1>8. lock \in Thread => state = None
  BY <1>3 DEF Mutex
<1>9. CASE transfers = {}
  <2>1. \A s, x \in open : s = x
    BY <1>4, <1>5, <1>7, <1>8
  <2>2. open = {} \/ \E s : open = {s}
    BY <2>1
  <2>3. Cardinality(open) \in {0, 1}
    BY <1>1, <1>2, <2>2
  <2> QED
    BY <1>2, <1>9, <2>3 DEF SoleWriter
<1>10. CASE transfers # {}
  <2>1. transfers = {lock} /\ lock \in Thread /\ call[lock].op = "transfer" /\ state = None
    BY <1>6, <1>10
  <2>2. open = {}
    BY <1>4, <1>5, <1>7, <2>1
  <2> HIDE DEF open, transfers
  <2>3. Cardinality(open) = 0 /\ Cardinality(transfers) = 1
    BY <1>1, <1>2, <2>1, <2>2
  <2> QED
    BY <2>3 DEF SoleWriter, open, transfers
<1> QED
  BY <1>9, <1>10

(* However many threads start, stop and transfer, one connection writes to *)
(* the save file (ggfm_server_start, ggfm_server_stop,                     *)
(* ggfm_server_transfer_save under the mutex of STATE).                    *)
THEOREM OneConnectionWrites == Spec => []SoleWriter
<1>1. IInv => SoleWriter
  BY OneWriter
<1> QED
  BY <1>1, RuntimeInvariant, PTL

(* No answer is given before the commit, whatever handlers a shutdown      *)
(* cancels (DatabaseActor::execute).                                       *)
THEOREM AnswersFollowCommits == Spec => []AnsweredIsCommitted
<1>1. IInv => AnsweredIsCommitted
  BY DEF IInv, Handlers, AnsweredIsCommitted
<1> QED
  BY <1>1, RuntimeInvariant, PTL

(* The control loop ends with its channel empty, for every number of       *)
(* threads that send to it (ggfm_server_stop takes the instance out of     *)
(* STATE before it sends Stop).                                            *)
THEOREM NoCommandIsLeft == Spec => []CommandsAreServed
<1>1. IInv => CommandsAreServed
  BY DEF IInv, Phases, CommandsAreServed
<1> QED
  BY <1>1, RuntimeInvariant, PTL

(* What had been answered when the stop was called is in the snapshot the  *)
(* stop leaves, for every number of requests and of instances, one after   *)
(* the other or beside each other, unless one that had taken its copy      *)
(* before published it over that snapshot (prepare_shutdown,               *)
(* publish_backup).                                                        *)
THEOREM StopLeavesASnapshot == Spec => []StopSavesAnswered
<1>1. IInv => StopSavesAnswered
  BY DEF IInv, Saved, Published, StopSavesAnswered
<1> QED
  BY <1>1, RuntimeInvariant, PTL
=============================================================================
