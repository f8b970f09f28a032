------------------------------ MODULE Lifecycle ------------------------------
(***************************************************************************)
(* The life of the replicas of the program (main.go): each applies the     *)
(* migrations its release knows, starts the task processor, the gateway    *)
(* and the gRPC server, serves, and stops on a signal or when one of its   *)
(* servers fails; and is started again.  The replicas share one database.  *)
(* golang-migrate is external: an advisory lock, and a version that is     *)
(* marked dirty while a migration runs.                                    *)
(***************************************************************************)
EXTENDS Naturals

CONSTANTS
  Replicas,
  Release,      \* Release[r]: the last migration in r's db/migration
  OldVersion,   \* the version of the schema before
  MaxInFlight,  \* requests that one server handles at a time
  NoReplica

ASSUME LifecycleConstants ==
  /\ OldVersion \in Nat /\ MaxInFlight \in Nat
  /\ Release \in [Replicas -> Nat]
  /\ \A r \in Replicas : OldVersion <= Release[r]
  /\ NoReplica \notin Replicas

Servers == {"http", "grpc"}
Stoppers == Servers \cup {"worker"}

VARIABLES
  version, dirty,  \* the row of schema_migrations
  lock,            \* the replica that holds the advisory lock
  pc,              \* pc[r]: where main is, or how the process has ended
  migrating,       \* migrating[r]: r is inside a migration
  done,            \* done[r]: ctx.Done() is closed
  server,          \* server[r][s]: the goroutine of Serve, ListenAndServe
  stopper,         \* stopper[r][s]: the goroutine that waits for ctx.Done()
  inFlight         \* inFlight[r][s]: requests in progress

database == <<version, dirty, lock>>
process == <<pc, migrating, done, server, stopper, inFlight>>
vars == <<database, process>>

Starting == {"connect", "migrate", "processor", "gateway", "grpc"}
Ended == {"exited", "fatal", "refused", "killed"}

-----------------------------------------------------------------------------
Init ==
  /\ version = OldVersion /\ dirty = FALSE /\ lock = NoReplica
  /\ pc = [r \in Replicas |-> "killed"]
  /\ migrating = [r \in Replicas |-> FALSE]
  /\ done = [r \in Replicas |-> FALSE]
  /\ server = [r \in Replicas |-> [s \in Servers |-> "off"]]
  /\ stopper = [r \in Replicas |-> [s \in Stoppers |-> "off"]]
  /\ inFlight = [r \in Replicas |-> [s \in Servers |-> 0]]

(* Docker and Kubernetes start a process that has ended again.              *)
Start(r) ==
  /\ pc[r] \in Ended
  /\ pc' = [pc EXCEPT ![r] = "connect"]
  /\ UNCHANGED <<database, migrating, done, server, stopper, inFlight>>

(* The process is gone, with its requests and its database connections.     *)
End(r, how) ==
  /\ pc' = [pc EXCEPT ![r] = how]
  /\ migrating' = [migrating EXCEPT ![r] = FALSE]
  /\ done' = [done EXCEPT ![r] = FALSE]
  /\ server' = [server EXCEPT ![r] = [s \in Servers |-> "off"]]
  /\ stopper' = [stopper EXCEPT ![r] = [s \in Stoppers |-> "off"]]
  /\ inFlight' = [inFlight EXCEPT ![r] = [s \in Servers |-> 0]]
  /\ lock' = IF lock = r THEN NoReplica ELSE lock
  /\ UNCHANGED <<version, dirty>>

Kill(r) == pc[r] \notin Ended /\ End(r, "killed")

(* log.Fatal, that is os.Exit(1), on the error of any step of the startup.  *)
Fatal(r) == pc[r] \in Starting /\ End(r, "fatal")

(* A signal, after signal.NotifyContext.  A second one changes nothing.     *)
Signal(r) ==
  /\ pc[r] \in Starting \cup {"wait"}
  /\ done' = [done EXCEPT ![r] = TRUE]
  /\ UNCHANGED <<database, pc, migrating, server, stopper, inFlight>>

Goto(r, step) == pc' = [pc EXCEPT ![r] = step]

(* main up to runDBMigration; the pool connects when it is first used.      *)
Connect(r) ==
  /\ pc[r] = "connect"
  /\ Goto(r, "migrate")
  /\ UNCHANGED <<database, migrating, done, server, stopper, inFlight>>

-----------------------------------------------------------------------------
(* runDBMigration: migration.Up.                                            *)

Lock(r) ==
  /\ pc[r] = "migrate" /\ lock = NoReplica
  /\ lock' = r
  /\ UNCHANGED <<version, dirty, process>>

(* Up's error: a dirty version, or one that r's files do not have.          *)
Refuse(r) ==
  /\ pc[r] = "migrate" /\ lock = r /\ ~migrating[r]
  /\ dirty \/ version > Release[r]
  /\ End(r, "refused")

BeginMigration(r) ==
  /\ pc[r] = "migrate" /\ lock = r /\ ~migrating[r]
  /\ ~dirty /\ version < Release[r]
  /\ version' = version + 1 /\ dirty' = TRUE
  /\ migrating' = [migrating EXCEPT ![r] = TRUE]
  /\ UNCHANGED <<lock, pc, done, server, stopper, inFlight>>

EndMigration(r) ==
  /\ pc[r] = "migrate" /\ migrating[r]
  /\ dirty' = FALSE
  /\ migrating' = [migrating EXCEPT ![r] = FALSE]
  /\ UNCHANGED <<version, lock, pc, done, server, stopper, inFlight>>

(* Mutant: an error of Up is logged and the servers are started.            *)
UpIgnored(r) ==
  /\ pc[r] = "migrate" /\ lock = r /\ ~migrating[r]
  /\ lock' = NoReplica
  /\ Goto(r, "processor")
  /\ UNCHANGED <<version, dirty, migrating, done, server, stopper, inFlight>>

(* Up returns nil, or ErrNoChange.                                          *)
Up(r) ==
  /\ pc[r] = "migrate" /\ lock = r /\ ~migrating[r]
  /\ ~dirty /\ version = Release[r]
  /\ lock' = NoReplica
  /\ Goto(r, "processor")
  /\ UNCHANGED <<version, dirty, migrating, done, server, stopper, inFlight>>

-----------------------------------------------------------------------------
(* The servers are started; their goroutines run as soon as they exist.     *)

Launch(r, s) ==
  /\ server' = IF s = "worker" THEN server ELSE [server EXCEPT ![r][s] = "starting"]
  /\ stopper' = [stopper EXCEPT ![r][s] = "waiting"]
  /\ UNCHANGED <<database, migrating, done, inFlight>>

runTaskProcessor(r) == pc[r] = "processor" /\ Goto(r, "gateway") /\ Launch(r, "worker")

runGatewayServer(r) == pc[r] = "gateway" /\ Goto(r, "grpc") /\ Launch(r, "http")

(* Mutant: nothing stops the gRPC server.                                   *)
runGrpcServerForever(r) ==
  /\ pc[r] = "grpc" /\ Goto(r, "wait")
  /\ server' = [server EXCEPT ![r]["grpc"] = "starting"]
  /\ UNCHANGED <<database, migrating, done, stopper, inFlight>>

runGrpcServer(r) == pc[r] = "grpc" /\ Goto(r, "wait") /\ Launch(r, "grpc")

(* Serve, ListenAndServe: at once ErrServerStopped, ErrServerClosed when    *)
(* the other goroutine was faster.                                          *)
Serve(r, s) ==
  /\ server[r][s] = "starting"
  /\ server' = [server EXCEPT ![r][s] =
                  IF stopper[r][s] = "waiting" THEN "serving" ELSE "closed"]
  /\ UNCHANGED <<database, pc, migrating, done, stopper, inFlight>>

(* Mutant: the error is logged and nil returned.                            *)
FailServingQuietly(r, s) ==
  /\ server[r][s] \in {"starting", "serving"} /\ stopper[r][s] = "waiting"
  /\ server' = [server EXCEPT ![r][s] = "failed"]
  /\ UNCHANGED <<database, pc, migrating, done, stopper, inFlight>>

(* Serve returns another error, which errgroup answers by cancelling ctx.   *)
FailServing(r, s) ==
  /\ server[r][s] \in {"starting", "serving"} /\ stopper[r][s] = "waiting"
  /\ server' = [server EXCEPT ![r][s] = "failed"]
  /\ done' = [done EXCEPT ![r] = TRUE]
  /\ UNCHANGED <<database, pc, migrating, stopper, inFlight>>

(* <-ctx.Done(), and GracefulStop or Shutdown begins: no new requests.      *)
(* ListenAndServe returns at once, the Serve of gRPC after GracefulStop.    *)
Stop(r, s) ==
  /\ done[r] /\ stopper[r][s] = "waiting"
  /\ stopper' = [stopper EXCEPT ![r][s] = "draining"]
  /\ server' = IF s \in Servers /\ server[r][s] = "serving"
               THEN [server EXCEPT ![r][s] = IF s = "http" THEN "closed" ELSE "closing"]
               ELSE server
  /\ UNCHANGED <<database, pc, migrating, done, inFlight>>

(* It returns when the requests in progress are finished.  The processor's  *)
(* own requests are tasks (EmailVerification).                              *)
Stopped(r, s) ==
  /\ stopper[r][s] = "draining"
  /\ s \in Servers => inFlight[r][s] = 0
  /\ stopper' = [stopper EXCEPT ![r][s] = "done"]
  /\ server' = IF s \in Servers /\ server[r][s] = "closing"
               THEN [server EXCEPT ![r][s] = "closed"] ELSE server
  /\ UNCHANGED <<database, pc, migrating, done, inFlight>>

(* Mutant: Shutdown is called outside the group.                            *)
WaitForServing(r) ==
  /\ pc[r] = "wait"
  /\ \A s \in Servers : server[r][s] \in {"failed", "closed"}
  /\ Goto(r, "exited")
  /\ done' = [done EXCEPT ![r] = FALSE]
  /\ server' = [server EXCEPT ![r] = [s \in Servers |-> "off"]]
  /\ stopper' = [stopper EXCEPT ![r] = [s \in Stoppers |-> "off"]]
  /\ UNCHANGED <<database, migrating, inFlight>>

(* waitGroup.Wait returns when all five goroutines have; then main does,    *)
(* or log.Fatal with the error of the group.                                *)
Wait(r) ==
  /\ pc[r] = "wait"
  /\ \A s \in Servers : server[r][s] \in {"failed", "closed"}
  /\ \A s \in Stoppers : stopper[r][s] = "done"
  /\ Goto(r, "exited")
  /\ done' = [done EXCEPT ![r] = FALSE]
  /\ server' = [server EXCEPT ![r] = [s \in Servers |-> "off"]]
  /\ stopper' = [stopper EXCEPT ![r] = [s \in Stoppers |-> "off"]]
  /\ UNCHANGED <<database, migrating, inFlight>>

Accept(r, s) ==
  /\ server[r][s] = "serving" /\ inFlight[r][s] < MaxInFlight
  /\ inFlight' = [inFlight EXCEPT ![r][s] = @ + 1]
  /\ UNCHANGED <<database, pc, migrating, done, server, stopper>>

Finish(r, s) ==
  /\ inFlight[r][s] > 0
  /\ inFlight' = [inFlight EXCEPT ![r][s] = @ - 1]
  /\ UNCHANGED <<database, pc, migrating, done, server, stopper>>

-----------------------------------------------------------------------------
Startup(r) ==
  \/ Start(r) \/ Connect(r) \/ Lock(r) \/ Refuse(r) \/ BeginMigration(r)
  \/ EndMigration(r) \/ Up(r) \/ Fatal(r)
  \/ runTaskProcessor(r) \/ runGatewayServer(r) \/ runGrpcServer(r)

Running(r) ==
  \/ Signal(r) \/ Kill(r) \/ Wait(r)
  \/ \E s \in Stoppers : Stop(r, s) \/ Stopped(r, s)
  \/ \E s \in Servers :
       Serve(r, s) \/ FailServing(r, s) \/ Accept(r, s) \/ Finish(r, s)

Next == \E r \in Replicas : Startup(r) \/ Running(r)

Spec == Init /\ [][Next]_vars

(* Goroutines are scheduled, and a request in progress comes to an end.     *)
Fairness ==
  \A r \in Replicas :
    /\ WF_vars(Wait(r))
    /\ \A s \in Stoppers : WF_vars(Stop(r, s)) /\ WF_vars(Stopped(r, s))
    /\ \A s \in Servers : WF_vars(Serve(r, s)) /\ WF_vars(Finish(r, s))

FairSpec == Spec /\ Fairness

-----------------------------------------------------------------------------
(* Every variable keeps its type; a migration runs under the lock, and      *)
(* every server that is started has its stopper.                            *)
TypeOK ==
  /\ version \in Nat /\ dirty \in BOOLEAN /\ lock \in Replicas \cup {NoReplica}
  /\ pc \in [Replicas -> Starting \cup {"wait"} \cup Ended]
  /\ migrating \in [Replicas -> BOOLEAN] /\ done \in [Replicas -> BOOLEAN]
  /\ server \in [Replicas -> [Servers ->
                  {"off", "starting", "serving", "failed", "closing", "closed"}]]
  /\ stopper \in [Replicas -> [Stoppers -> {"off", "waiting", "draining", "done"}]]
  /\ inFlight \in [Replicas -> [Servers -> 0..MaxInFlight]]
  /\ \A r \in Replicas :
       /\ migrating[r] => pc[r] = "migrate" /\ lock = r /\ dirty
       /\ \A s \in Servers : server[r][s] = "off" <=> stopper[r][s] = "off"

(* Migrations are applied before the servers take requests (README.md:51):  *)
(* a replica that serves has all of its migrations in the database, also    *)
(* when replicas start together, die while they migrate, or are of two      *)
(* releases; what may be dirty then is a later one.                         *)
ServingMeansMigrated ==
  \A r \in Replicas, s \in Servers :
    server[r][s] = "serving" \/ inFlight[r][s] > 0 =>
      version > Release[r] \/ (version = Release[r] /\ ~dirty)

(* Graceful shutdown waits for in-flight requests: when main gets past      *)
(* waitGroup.Wait, after a signal or the failure of a server, no server has *)
(* a request in progress, although Serve has returned long before.          *)
ShutdownDrains ==
  \A r \in Replicas, s \in Servers : pc[r] = "exited" => inFlight[r][s] = 0

(* A replica whose context is cancelled, or one of whose servers has        *)
(* failed, comes to an end: neither goroutines that wait for ctx.Done() nor *)
(* a server that is healthy keep it.                                        *)
StopsWhenAsked ==
  \A r \in Replicas :
    (pc[r] = "wait" /\ (done[r] \/ \E s \in Servers : server[r][s] = "failed"))
      ~> pc[r] # "wait"
=============================================================================
