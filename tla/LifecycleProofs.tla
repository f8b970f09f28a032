--------------------------- MODULE LifecycleProofs ---------------------------
(***************************************************************************)
(* Migration before serving, and draining before the end, for any replicas,*)
(* releases and numbers of requests.                                       *)
(***************************************************************************)
EXTENDS Lifecycle, TLAPS

(* Past runDBMigration, where servers are started.                          *)
Migrated == {"processor", "gateway", "grpc", "wait"}

SchemaOf(r) == version > Release[r] \/ (version = Release[r] /\ ~dirty)

(* Its schema is there from then on; before and after there are no servers  *)
(* and no requests; and no request begins once a server is being stopped,   *)
(* so that none is in progress when its Shutdown has returned.              *)
ReplicaInv(r) ==
  /\ pc[r] \in Migrated => SchemaOf(r)
  /\ pc[r] \notin Migrated =>
       \A s \in Servers : server[r][s] = "off" /\ inFlight[r][s] = 0
  /\ \A s \in Servers :
       /\ stopper[r][s] \in {"draining", "done"} => server[r][s] # "serving"
       /\ stopper[r][s] = "done" => inFlight[r][s] = 0

LifeInv == TypeOK /\ \A r \in Replicas : ReplicaInv(r)

-----------------------------------------------------------------------------
(* The variables of a process, and the types of its rows.                   *)
ProcessTypeOK ==
  /\ pc \in [Replicas -> Starting \cup {"wait"} \cup Ended]
  /\ migrating \in [Replicas -> BOOLEAN] /\ done \in [Replicas -> BOOLEAN]
  /\ server \in [Replicas -> [Servers ->
                  {"off", "starting", "serving", "failed", "closing", "closed"}]]
  /\ stopper \in [Replicas -> [Stoppers -> {"off", "waiting", "draining", "done"}]]
  /\ inFlight \in [Replicas -> [Servers -> 0..MaxInFlight]]

Untouched(q) ==
  /\ pc'[q] = pc[q] /\ migrating'[q] = migrating[q]
  /\ server'[q] = server[q] /\ stopper'[q] = stopper[q] /\ inFlight'[q] = inFlight[q]

(* A step of r: what has to be shown of it.  A migration under way keeps    *)
(* the lock, and no replica loses its schema.                               *)
LEMMA StepOfReplica ==
  ASSUME LifeInv, NEW r \in Replicas,
         ProcessTypeOK', \A q \in Replicas \ {r} : Untouched(q),
         version' \in Nat, dirty' \in BOOLEAN, lock' \in Replicas \cup {NoReplica},
         version' > version \/ (version' = version /\ (dirty' => dirty)),
         \A q \in Replicas \ {r} : migrating[q] => lock' = q /\ dirty',
         migrating'[r] => pc'[r] = "migrate" /\ lock' = r /\ dirty',
         \A s \in Servers : server'[r][s] = "off" <=> stopper'[r][s] = "off",
         ReplicaInv(r)'
  PROVE  LifeInv'
<1>1. TypeOK'
  BY DEF ProcessTypeOK, LifeInv, TypeOK, Untouched
<1>2. ASSUME NEW q \in Replicas \ {r} PROVE ReplicaInv(q)'
  <2>1. ReplicaInv(q) /\ Untouched(q)
    BY DEF LifeInv
  <2>2. SchemaOf(q) => SchemaOf(q)'
    BY LifecycleConstants DEF LifeInv, TypeOK, SchemaOf
  <2> QED
    BY <2>1, <2>2 DEF ReplicaInv, Untouched
<1> QED
  BY <1>1, <1>2 DEF LifeInv

(* The same of a step that leaves the database alone.                       *)
LEMMA StepOfProcess ==
  ASSUME LifeInv, NEW r \in Replicas,
         ProcessTypeOK', \A q \in Replicas \ {r} : Untouched(q),
         UNCHANGED <<database, migrating>>,
         migrating[r] => pc'[r] = "migrate",
         \A s \in Servers : server'[r][s] = "off" <=> stopper'[r][s] = "off",
         ReplicaInv(r)'
  PROVE  LifeInv'
<1>1. /\ version' \in Nat /\ dirty' \in BOOLEAN /\ lock' \in Replicas \cup {NoReplica}
      /\ version' = version /\ dirty' = dirty
      /\ \A q \in Replicas : migrating[q] => lock' = q /\ dirty'
      /\ migrating' = migrating
  BY DEF LifeInv, TypeOK, database
<1> QED
  BY <1>1, StepOfReplica

(* The process of r ends, at any moment.                                    *)
LEMMA EndStep ==
  ASSUME LifeInv, NEW r \in Replicas, NEW how \in Ended, End(r, how)
  PROVE  LifeInv'
<1>1. /\ pc' = [pc EXCEPT ![r] = how]
      /\ migrating' = [migrating EXCEPT ![r] = FALSE]
      /\ done' = [done EXCEPT ![r] = FALSE]
      /\ server' = [server EXCEPT ![r] = [s \in Servers |-> "off"]]
      /\ stopper' = [stopper EXCEPT ![r] = [s \in Stoppers |-> "off"]]
      /\ inFlight' = [inFlight EXCEPT ![r] = [s \in Servers |-> 0]]
      /\ lock' = IF lock = r THEN NoReplica ELSE lock
      /\ version' = version /\ dirty' = dirty
  BY DEF End
<1>2. ProcessTypeOK' /\ \A q \in Replicas \ {r} : Untouched(q)
  BY <1>1, LifecycleConstants DEF LifeInv, TypeOK, ProcessTypeOK, Untouched
<1>3. /\ pc'[r] = how /\ ~migrating'[r]
      /\ \A s \in Servers : server'[r][s] = "off" /\ inFlight'[r][s] = 0
      /\ \A s \in Stoppers : stopper'[r][s] = "off"
  BY <1>1 DEF LifeInv, TypeOK
<1>4. ReplicaInv(r)'
  BY <1>3 DEF ReplicaInv, Migrated, Ended, Stoppers
<1>5. \A s \in Servers : server'[r][s] = "off" <=> stopper'[r][s] = "off"
  BY <1>3 DEF Stoppers
<1>6. version' \in Nat /\ dirty' \in BOOLEAN /\ lock' \in Replicas \cup {NoReplica}
  BY <1>1 DEF LifeInv, TypeOK
<1>7. \A q \in Replicas \ {r} : migrating[q] => lock' = q /\ dirty'
  BY <1>1 DEF LifeInv, TypeOK
<1> QED
  BY <1>1, <1>2, <1>3, <1>4, <1>5, <1>6, <1>7, StepOfReplica

-----------------------------------------------------------------------------
(* The startup.                                                             *)

(* Steps of main that touch neither servers nor requests.                   *)
LEMMA MainStep ==
  ASSUME LifeInv, NEW r \in Replicas,
         NEW step \in Starting \cup {"wait"} \cup Ended, Goto(r, step),
         ~migrating[r],
         step \in Migrated => SchemaOf(r) /\ UNCHANGED <<version, dirty>>,
         step \notin Migrated => pc[r] \notin Migrated,
         UNCHANGED <<version, dirty, migrating, done, server, stopper, inFlight>>,
         lock' = lock \/ (lock = r /\ lock' = NoReplica)
  PROVE  LifeInv'
<1>1. ProcessTypeOK' /\ (\A q \in Replicas \ {r} : Untouched(q)) /\ pc'[r] = step
  BY DEF LifeInv, TypeOK, ProcessTypeOK, Untouched, Goto
<1>2. /\ version' \in Nat /\ dirty' \in BOOLEAN /\ lock' \in Replicas \cup {NoReplica}
      /\ \A q \in Replicas \ {r} : migrating[q] => lock' = q /\ dirty'
      /\ \A s \in Servers : server'[r][s] = "off" <=> stopper'[r][s] = "off"
  BY DEF LifeInv, TypeOK
<1>3. ReplicaInv(r)'
  BY <1>1 DEF LifeInv, ReplicaInv, SchemaOf
<1> QED
  BY <1>1, <1>2, <1>3, StepOfReplica

LEMMA StartStep ==
  ASSUME LifeInv, NEW r \in Replicas, Start(r) \/ Connect(r)
  PROVE  LifeInv'
<1>1. pc[r] \notin Migrated /\ pc[r] # "migrate" /\ ~migrating[r]
  BY DEF Start, Connect, LifeInv, TypeOK, Ended, Migrated
<1>2. CASE Start(r)
  BY <1>1, <1>2, MainStep DEF Start, Goto, Starting, Migrated, database
<1>3. CASE Connect(r)
  BY <1>1, <1>3, MainStep DEF Connect, Starting, Migrated, database
<1> QED
  BY <1>2, <1>3

LEMMA LockStep ==
  ASSUME LifeInv, NEW r \in Replicas, Lock(r)
  PROVE  LifeInv'
<1>1. /\ lock = NoReplica /\ lock' = r /\ version' = version /\ dirty' = dirty
      /\ UNCHANGED process
  BY DEF Lock
<1>2. ProcessTypeOK' /\ \A q \in Replicas : Untouched(q)
  BY <1>1 DEF LifeInv, TypeOK, ProcessTypeOK, Untouched, process
<1>3. \A q \in Replicas : ~migrating[q]
  BY <1>1, LifecycleConstants DEF LifeInv, TypeOK
<1>4. ReplicaInv(r)'
  BY <1>1 DEF LifeInv, ReplicaInv, SchemaOf, process
<1>5. \A s \in Servers : server'[r][s] = "off" <=> stopper'[r][s] = "off"
  BY <1>1 DEF LifeInv, TypeOK, process
<1> QED
  BY <1>1, <1>2, <1>3, <1>4, <1>5, StepOfReplica DEF LifeInv, TypeOK, process

LEMMA BeginMigrationStep ==
  ASSUME LifeInv, NEW r \in Replicas, BeginMigration(r)
  PROVE  LifeInv'
<1>1. /\ pc[r] = "migrate" /\ lock = r /\ version' = version + 1 /\ dirty' = TRUE
      /\ migrating' = [migrating EXCEPT ![r] = TRUE]
      /\ UNCHANGED <<lock, pc, done, server, stopper, inFlight>>
  BY DEF BeginMigration
<1>2. ProcessTypeOK' /\ (\A q \in Replicas \ {r} : Untouched(q))
  BY <1>1 DEF LifeInv, TypeOK, ProcessTypeOK, Untouched
<1>3. /\ version' \in Nat /\ version' > version /\ dirty' \in BOOLEAN
      /\ lock' \in Replicas \cup {NoReplica}
      /\ \A q \in Replicas \ {r} : migrating[q] => lock' = q /\ dirty'
      /\ \A s \in Servers : server'[r][s] = "off" <=> stopper'[r][s] = "off"
  BY <1>1 DEF LifeInv, TypeOK
<1>4. ReplicaInv(r)'
  BY <1>1 DEF LifeInv, ReplicaInv, Migrated
<1> QED
  BY <1>1, <1>2, <1>3, <1>4, StepOfReplica

LEMMA EndMigrationStep ==
  ASSUME LifeInv, NEW r \in Replicas, EndMigration(r)
  PROVE  LifeInv'
<1>1. /\ pc[r] = "migrate" /\ migrating[r] /\ version' = version /\ dirty' = FALSE
      /\ migrating' = [migrating EXCEPT ![r] = FALSE]
      /\ UNCHANGED <<lock, pc, done, server, stopper, inFlight>>
  BY DEF EndMigration
<1>2. ProcessTypeOK' /\ (\A q \in Replicas \ {r} : Untouched(q)) /\ ~migrating'[r]
  BY <1>1 DEF LifeInv, TypeOK, ProcessTypeOK, Untouched
<1>3. \A q \in Replicas \ {r} : ~migrating[q]
  BY <1>1 DEF LifeInv, TypeOK
<1>4. /\ version' \in Nat /\ dirty' \in BOOLEAN
      /\ lock' \in Replicas \cup {NoReplica}
      /\ \A s \in Servers : server'[r][s] = "off" <=> stopper'[r][s] = "off"
  BY <1>1 DEF LifeInv, TypeOK
<1>5. ReplicaInv(r)'
  BY <1>1 DEF LifeInv, ReplicaInv, Migrated
<1> QED
  BY <1>1, <1>2, <1>3, <1>4, <1>5, StepOfReplica

LEMMA UpStep ==
  ASSUME LifeInv, NEW r \in Replicas, Up(r)
  PROVE  LifeInv'
<1>1. SchemaOf(r)
  BY DEF Up, SchemaOf
<1> QED
  BY <1>1, MainStep DEF Up, Starting, Migrated

(* A server that is launched was not there before.                          *)
LEMMA LaunchStep ==
  ASSUME LifeInv, NEW r \in Replicas,
         runTaskProcessor(r) \/ runGatewayServer(r) \/ runGrpcServer(r)
  PROVE  LifeInv'
<1>1. PICK step \in {"gateway", "grpc", "wait"}, s \in Stoppers :
        /\ pc[r] \in {"processor", "gateway", "grpc"}
        /\ Goto(r, step) /\ Launch(r, s)
  BY DEF runTaskProcessor, runGatewayServer, runGrpcServer, Stoppers, Servers
<1>2. /\ pc' = [pc EXCEPT ![r] = step]
      /\ server' = IF s = "worker" THEN server ELSE [server EXCEPT ![r][s] = "starting"]
      /\ stopper' = [stopper EXCEPT ![r][s] = "waiting"]
      /\ UNCHANGED <<database, migrating, done, inFlight>>
  BY <1>1 DEF Goto, Launch
<1>3. ProcessTypeOK' /\ \A q \in Replicas \ {r} : Untouched(q)
  BY <1>2 DEF LifeInv, TypeOK, ProcessTypeOK, Untouched, Starting, Stoppers
<1>4. /\ pc'[r] = step /\ stopper'[r] = [stopper[r] EXCEPT ![s] = "waiting"]
      /\ server'[r] = IF s = "worker" THEN server[r] ELSE [server[r] EXCEPT ![s] = "starting"]
  BY <1>2 DEF LifeInv, TypeOK
<1>5. ASSUME NEW v \in Servers
      PROVE  /\ server'[r][v] = "off" <=> stopper'[r][v] = "off"
             /\ stopper'[r][v] \in {"draining", "done"} => server'[r][v] # "serving"
             /\ stopper'[r][v] = "done" => inFlight'[r][v] = 0
  <2>1. CASE v = s
    BY <1>2, <1>4, <2>1 DEF LifeInv, TypeOK, Servers, Stoppers
  <2>2. CASE v # s
    BY <1>2, <1>4, <2>2 DEF LifeInv, TypeOK, ReplicaInv, Servers, Stoppers
  <2> QED
    BY <2>1, <2>2
<1>6. ~migrating[r] /\ SchemaOf(r)
  BY <1>1 DEF LifeInv, TypeOK, ReplicaInv, Migrated
<1>7. ReplicaInv(r)'
  BY <1>2, <1>4, <1>5, <1>6 DEF ReplicaInv, SchemaOf, Migrated, database
<1> QED
  BY <1>2, <1>3, <1>5, <1>6, <1>7, StepOfProcess

-----------------------------------------------------------------------------
(* The servers.                                                             *)

(* Steps of the goroutines and requests of one server, or of the worker.    *)
LEMMA ServerStep ==
  ASSUME LifeInv, NEW r \in Replicas,
         UNCHANGED <<database, pc, migrating>>,
         ProcessTypeOK', \A q \in Replicas \ {r} : Untouched(q),
         pc[r] \notin Migrated =>
           \A s \in Servers : server'[r][s] = "off" /\ inFlight'[r][s] = 0,
         \A s \in Servers :
           /\ server'[r][s] = "off" <=> stopper'[r][s] = "off"
           /\ stopper'[r][s] \in {"draining", "done"} => server'[r][s] # "serving"
           /\ stopper'[r][s] = "done" => inFlight'[r][s] = 0
  PROVE  LifeInv'
<1>1. migrating[r] => pc'[r] = "migrate"
  BY DEF LifeInv, TypeOK
<1>2. ReplicaInv(r)'
  BY DEF LifeInv, ReplicaInv, SchemaOf, database
<1> QED
  BY <1>1, <1>2, StepOfProcess

(* What holds of one server before such a step.                             *)
LEMMA ServerFacts ==
  ASSUME LifeInv, NEW r \in Replicas, NEW s \in Servers
  PROVE  /\ s \in Stoppers
         /\ server[r][s] = "off" <=> stopper[r][s] = "off"
         /\ stopper[r][s] \in {"draining", "done"} => server[r][s] # "serving"
         /\ stopper[r][s] = "done" => inFlight[r][s] = 0
         /\ pc[r] \notin Migrated => server[r][s] = "off" /\ inFlight[r][s] = 0
         /\ stopper[r][s] \in {"off", "waiting", "draining", "done"}
         /\ inFlight[r][s] \in 0..MaxInFlight
BY DEF LifeInv, TypeOK, ReplicaInv, Stoppers

LEMMA ServeStep ==
  ASSUME LifeInv, NEW r \in Replicas, NEW s \in Servers,
         Serve(r, s) \/ FailServing(r, s)
  PROVE  LifeInv'
<1>1. PICK state \in {"serving", "closed", "failed"} :
        /\ server' = [server EXCEPT ![r][s] = state]
        /\ server[r][s] # "off"
        /\ state # "closed" => stopper[r][s] = "waiting"
        /\ done' \in [Replicas -> BOOLEAN]
        /\ UNCHANGED <<database, pc, migrating, stopper, inFlight>>
  <2>1. CASE Serve(r, s)
    BY <2>1 DEF Serve, LifeInv, TypeOK
  <2>2. CASE FailServing(r, s)
    BY <2>2 DEF FailServing, LifeInv, TypeOK
  <2> QED
    BY <2>1, <2>2
<1>2. ProcessTypeOK' /\ \A q \in Replicas \ {r} : Untouched(q)
  BY <1>1 DEF LifeInv, TypeOK, ProcessTypeOK, Untouched
<1>3. server'[r] = [server[r] EXCEPT ![s] = state]
  BY <1>1 DEF LifeInv, TypeOK
<1>4. /\ server'[r][s] = state
      /\ \A v \in Servers \ {s} : server'[r][v] = server[r][v]
  BY <1>3 DEF LifeInv, TypeOK
<1> QED
  BY <1>1, <1>2, <1>4, ServerFacts, ServerStep

LEMMA StopStep ==
  ASSUME LifeInv, NEW r \in Replicas, NEW s \in Stoppers, Stop(r, s)
  PROVE  LifeInv'
<1>1. /\ stopper[r][s] = "waiting"
      /\ stopper' = [stopper EXCEPT ![r][s] = "draining"]
      /\ server' = IF s \in Servers /\ server[r][s] = "serving"
                   THEN [server EXCEPT ![r][s] = IF s = "http" THEN "closed" ELSE "closing"]
                   ELSE server
      /\ UNCHANGED <<database, pc, migrating, done, inFlight>>
  BY DEF Stop
<1>2. ProcessTypeOK' /\ \A q \in Replicas \ {r} : Untouched(q)
  BY <1>1 DEF LifeInv, TypeOK, ProcessTypeOK, Untouched
<1>3. stopper'[r][s] = "draining" /\ \A v \in Stoppers \ {s} : stopper'[r][v] = stopper[r][v]
  BY <1>1 DEF LifeInv, TypeOK
<1>4. /\ \A v \in Servers \ {s} : server'[r][v] = server[r][v]
      /\ s \in Servers => \/ server'[r][s] = server[r][s] /\ server[r][s] # "serving"
                          \/ server'[r][s] \in {"closed", "closing"} /\ server[r][s] # "off"
  BY <1>1 DEF LifeInv, TypeOK
<1> QED
  BY <1>1, <1>2, <1>3, <1>4, ServerFacts, ServerStep

LEMMA StoppedStep ==
  ASSUME LifeInv, NEW r \in Replicas, NEW s \in Stoppers, Stopped(r, s)
  PROVE  LifeInv'
<1>1. /\ stopper[r][s] = "draining" /\ (s \in Servers => inFlight[r][s] = 0)
      /\ stopper' = [stopper EXCEPT ![r][s] = "done"]
      /\ server' = IF s \in Servers /\ server[r][s] = "closing"
                   THEN [server EXCEPT ![r][s] = "closed"] ELSE server
      /\ UNCHANGED <<database, pc, migrating, done, inFlight>>
  BY DEF Stopped
<1>2. ProcessTypeOK' /\ \A q \in Replicas \ {r} : Untouched(q)
  BY <1>1 DEF LifeInv, TypeOK, ProcessTypeOK, Untouched
<1>3. stopper'[r][s] = "done" /\ \A v \in Stoppers \ {s} : stopper'[r][v] = stopper[r][v]
  BY <1>1 DEF LifeInv, TypeOK
<1>4. /\ \A v \in Servers \ {s} : server'[r][v] = server[r][v]
      /\ s \in Servers => \/ server'[r][s] = server[r][s]
                          \/ server'[r][s] = "closed" /\ server[r][s] # "off"
  BY <1>1 DEF LifeInv, TypeOK
<1> QED
  BY <1>1, <1>2, <1>3, <1>4, ServerFacts, ServerStep

LEMMA RequestStep ==
  ASSUME LifeInv, NEW r \in Replicas, NEW s \in Servers, Accept(r, s) \/ Finish(r, s)
  PROVE  LifeInv'
<1>1. PICK n \in 0..MaxInFlight :
        /\ inFlight' = [inFlight EXCEPT ![r][s] = n]
        /\ server[r][s] = "serving" \/ inFlight[r][s] > 0
        /\ UNCHANGED <<database, pc, migrating, done, server, stopper>>
  <2>1. inFlight[r][s] \in 0..MaxInFlight
    BY ServerFacts
  <2>2. CASE Accept(r, s)
    <3>1. inFlight[r][s] + 1 \in 0..MaxInFlight
      BY <2>1, <2>2, LifecycleConstants DEF Accept
    <3> QED
      BY <2>2, <3>1 DEF Accept
  <2>3. CASE Finish(r, s)
    <3>1. inFlight[r][s] - 1 \in 0..MaxInFlight
      BY <2>1, <2>3, LifecycleConstants DEF Finish
    <3> QED
      BY <2>3, <3>1 DEF Finish
  <2> QED
    BY <2>2, <2>3
<1>2. ProcessTypeOK' /\ \A q \in Replicas \ {r} : Untouched(q)
  BY <1>1 DEF LifeInv, TypeOK, ProcessTypeOK, Untouched
<1>3. inFlight'[r][s] = n /\ \A v \in Servers \ {s} : inFlight'[r][v] = inFlight[r][v]
  BY <1>1 DEF LifeInv, TypeOK
<1>4. stopper[r][s] # "done" /\ pc[r] \in Migrated
  BY <1>1, ServerFacts, LifecycleConstants
<1> QED
  BY <1>1, <1>2, <1>3, <1>4, ServerFacts, ServerStep

LEMMA WaitStep ==
  ASSUME LifeInv, NEW r \in Replicas, Wait(r)
  PROVE  LifeInv'
<1>1. /\ pc[r] = "wait" /\ pc' = [pc EXCEPT ![r] = "exited"]
      /\ \A s \in Stoppers : stopper[r][s] = "done"
      /\ done' = [done EXCEPT ![r] = FALSE]
      /\ server' = [server EXCEPT ![r] = [s \in Servers |-> "off"]]
      /\ stopper' = [stopper EXCEPT ![r] = [s \in Stoppers |-> "off"]]
      /\ UNCHANGED <<database, migrating, inFlight>>
  BY DEF Wait, Goto
<1>2. ProcessTypeOK' /\ \A q \in Replicas \ {r} : Untouched(q)
  BY <1>1 DEF LifeInv, TypeOK, ProcessTypeOK, Untouched, Ended
<1>3. /\ pc'[r] = "exited"
      /\ \A s \in Servers : server'[r][s] = "off"
      /\ \A s \in Stoppers : stopper'[r][s] = "off"
  BY <1>1 DEF LifeInv, TypeOK
<1>4. \A s \in Servers : s \in Stoppers /\ inFlight'[r][s] = 0
  BY <1>1, ServerFacts
<1>5. ReplicaInv(r)'
  BY <1>3, <1>4 DEF ReplicaInv, Migrated
<1>6. ~migrating[r]
  BY <1>1 DEF LifeInv, TypeOK
<1> QED
  BY <1>1, <1>2, <1>3, <1>4, <1>5, <1>6, StepOfProcess

LEMMA SignalStep ==
  ASSUME LifeInv, NEW r \in Replicas, Signal(r)
  PROVE  LifeInv'
<1>1. /\ done' = [done EXCEPT ![r] = TRUE]
      /\ UNCHANGED <<database, pc, migrating, server, stopper, inFlight>>
  BY DEF Signal
<1>2. ProcessTypeOK' /\ \A q \in Replicas \ {r} : Untouched(q)
  BY <1>1 DEF LifeInv, TypeOK, ProcessTypeOK, Untouched
<1> QED
  BY <1>1, <1>2, ServerFacts, ServerStep

-----------------------------------------------------------------------------
LEMMA InitLifeInv == Init => LifeInv
<1> SUFFICES ASSUME Init PROVE LifeInv
  OBVIOUS
<1>1. TypeOK
  <2>1. version \in Nat /\ 0 \in 0..MaxInFlight
    BY LifecycleConstants DEF Init
  <2>2. \A r \in Replicas, s \in Servers : server[r][s] = "off" <=> stopper[r][s] = "off"
    BY DEF Init, Stoppers
  <2> QED
    BY <2>1, <2>2 DEF Init, TypeOK, Ended
<1>2. ASSUME NEW r \in Replicas PROVE ReplicaInv(r)
  BY DEF Init, ReplicaInv, Migrated, Stoppers
<1> QED
  BY <1>1, <1>2 DEF LifeInv

LEMMA NextLifeInv == LifeInv /\ [Next]_vars => LifeInv'
<1> SUFFICES ASSUME LifeInv, [Next]_vars PROVE LifeInv'
  OBVIOUS
<1>1. ASSUME NEW r \in Replicas, Startup(r)
      PROVE  LifeInv'
  <2>1. CASE Refuse(r) \/ Fatal(r)
    BY <2>1, EndStep DEF Refuse, Fatal, Ended
  <2> QED
    BY <1>1, <2>1, StartStep, LockStep, BeginMigrationStep, EndMigrationStep, UpStep,
       LaunchStep DEF Startup
<1>2. ASSUME NEW r \in Replicas, Running(r)
      PROVE  LifeInv'
  <2>1. CASE Kill(r)
    BY <2>1, EndStep DEF Kill, Ended
  <2> QED
    BY <1>2, <2>1, SignalStep, WaitStep, StopStep, StoppedStep, ServeStep, RequestStep
       DEF Running
<1>3. CASE UNCHANGED vars
  BY <1>3 DEF vars, database, process, LifeInv, TypeOK, ReplicaInv, SchemaOf
<1> QED
  BY <1>1, <1>2, <1>3 DEF Next

(* LifeInv is invariant.                                                    *)
THEOREM LifecycleInvariant == Spec => []LifeInv
BY InitLifeInv, NextLifeInv, PTL DEF Spec

(* Every variable keeps its type; a migration runs under the lock.          *)
THEOREM TypeCorrect == Spec => []TypeOK
<1>1. LifeInv => TypeOK
  BY DEF LifeInv
<1> QED
  BY <1>1, LifecycleInvariant, PTL

(* No replica, of any release, takes requests without its migrations,       *)
(* whatever other replicas do to the schema or die of.                      *)
THEOREM MigrationComesFirst == Spec => []ServingMeansMigrated
<1>1. LifeInv => ServingMeansMigrated
  <2> SUFFICES ASSUME LifeInv, NEW r \in Replicas, NEW s \in Servers,
                      server[r][s] = "serving" \/ inFlight[r][s] > 0
               PROVE  SchemaOf(r)
    BY DEF ServingMeansMigrated, SchemaOf
  <2>1. pc[r] \in Migrated
    BY ServerFacts, LifecycleConstants
  <2> QED
    BY <2>1 DEF LifeInv, ReplicaInv
<1> QED
  BY <1>1, LifecycleInvariant, PTL

(* waitGroup.Wait lets main end only when no request is in progress.        *)
THEOREM RequestsAreDrained == Spec => []ShutdownDrains
<1>1. LifeInv => ShutdownDrains
  BY DEF LifeInv, ReplicaInv, ShutdownDrains, Migrated
<1> QED
  BY <1>1, LifecycleInvariant, PTL

==============================================================================
