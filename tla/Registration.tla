---------------------------- MODULE Registration ----------------------------
(***************************************************************************)
(* Registration: user_service stores a user and publishes user_registered, *)
(* best-effort; wallet_service and driver_service, each a consumer group   *)
(* of its own, turn the event into a wallet and a driver profile, and      *)
(* analytic_service into a row.  A consumer marks every message, handled   *)
(* or not; what is marked is committed later.  A consumer's session ends   *)
(* when its process is told to stop or the group rebalances: its context   *)
(* is cancelled first, and what is marked is committed last.               *)
(*                                                                         *)
(* A user stands for an email and a phone, which MongoDB keeps unique; a   *)
(* CreateUser that finds them taken changes nothing and is left out.       *)
(* Every user registers once, so Users bounds the length of the topic.     *)
(***************************************************************************)
EXTENDS Naturals, Sequences

CONSTANTS Users,      \* users who may register
          Role,       \* Role[u]: the role they register with
          Groups,     \* the consumer groups
          RegistrationFaults   \* what may fail

Services == {"wallet_service", "driver_service", "analytic_service"}

Causes == {"users",      \* user_service's database
           "kafka",      \* the brokers
           "store",      \* the consumers' databases
           "session",    \* sessions of the consumers end
           "process"}    \* any process dies

ASSUME RegistrationAssumption ==
    /\ Role \in [Users -> {"user", "driver"}]
    /\ Groups \subseteq Services
    /\ RegistrationFaults \subseteq Causes

VARIABLES users,        \* users stored in MongoDB
          publishing,   \* users whose CreateUser has yet to publish
          log,          \* the topic user_registered
          position,     \* position[g]: how many messages the group is past
          marked,       \* marked[g]: how many it has marked
          committed,    \* committed[g]: how many it has committed
          alive,        \* alive[g]: the context of its session is not cancelled
          stage,        \* stage[g]: where it stands with the next message
          done,         \* done[g]: users it has a wallet, profile or row for
          dropped       \* dropped[g]: users it has marked without

producer == <<users, publishing, log>>
offsets  == <<position, marked, committed>>
consumer == <<position, marked, committed, alive, stage, done, dropped>>
registrationVars == <<producer, consumer>>

ConsumerPlaces == {"poll", "handle", "mark"}

RegistrationTypeOK ==
    /\ users \subseteq Users
    /\ publishing \subseteq Users
    /\ log \in Seq(Users)
    /\ position \in [Groups -> Nat]
    /\ marked \in [Groups -> Nat]
    /\ committed \in [Groups -> Nat]
    /\ alive \in [Groups -> BOOLEAN]
    /\ stage \in [Groups -> ConsumerPlaces]
    /\ done \in [Groups -> SUBSET Users]
    /\ dropped \in [Groups -> SUBSET Users]

RegistrationInit ==
    /\ users = {}
    /\ publishing = {}
    /\ log = <<>>
    /\ position = [g \in Groups |-> 0]
    /\ marked = [g \in Groups |-> 0]
    /\ committed = [g \in Groups |-> 0]
    /\ alive = [g \in Groups |-> TRUE]
    /\ stage = [g \in Groups |-> "poll"]
    /\ done = [g \in Groups |-> {}]
    /\ dropped = [g \in Groups |-> {}]

(* "refused" was not carried out; "lost" was, and its answer never came. *)
Ends(cause) == IF cause \in RegistrationFaults THEN {"ok", "refused", "lost"} ELSE {"ok"}

-----------------------------------------------------------------------------
(* user_service *)

(* Mutant: an error of the insert is logged instead of returned. *)
CreateUserBestEffort(u) ==
    /\ u \notin users \cup publishing
    /\ \E end \in Ends("users") : users' = IF end = "refused" THEN users ELSE users \cup {u}
    /\ publishing' = publishing \cup {u}
    /\ UNCHANGED <<log, consumer>>

CreateUser(u) ==
    /\ u \notin users
    /\ \E end \in Ends("users") :
          /\ users' = IF end = "refused" THEN users ELSE users \cup {u}
          /\ publishing' = IF end = "ok" THEN publishing \cup {u} ELSE publishing
    /\ UNCHANGED <<log, consumer>>

(* The user is registered whether or not the event gets out. *)
PublishUserRegistered(u) ==
    /\ u \in publishing
    /\ publishing' = publishing \ {u}
    /\ \E end \in Ends("kafka") : log' = IF end = "refused" THEN log ELSE Append(log, u)
    /\ UNCHANGED <<users, consumer>>

UserServiceCrash ==
    /\ "process" \in RegistrationFaults
    /\ publishing' = {}
    /\ UNCHANGED <<users, log, consumer>>

-----------------------------------------------------------------------------
(* The consumer of one service *)

(* Every user gets a wallet, drivers a profile. *)
Wants(g, u) == g = "driver_service" => Role[u] = "driver"

(* Mutant: the message is marked before it is handled. *)
PollMarksFirst(g) ==
    /\ stage[g] = "poll"
    /\ position[g] < Len(log)
    /\ stage' = [stage EXCEPT ![g] = "handle"]
    /\ marked' = [marked EXCEPT ![g] = position[g] + 1]
    /\ UNCHANGED <<producer, position, committed, alive, done, dropped>>

(* A message is taken from the channel, also after the context is cancelled *)
(* if one is there: select picks either.                                    *)
Poll(g) ==
    /\ stage[g] = "poll"
    /\ position[g] < Len(log)
    /\ stage' = [stage EXCEPT ![g] = "handle"]
    /\ UNCHANGED <<producer, offsets, alive, done, dropped>>

(* handleMessage with the context of the session.  An error is logged. *)
HandleMessage(g) ==
    /\ stage[g] = "handle"
    /\ stage' = [stage EXCEPT ![g] = "mark"]
    /\ LET u == log[position[g] + 1]
       IN IF Wants(g, u)
          THEN \E end \in IF alive[g] THEN Ends("store") ELSE {"refused", "lost"} :
                  /\ done' = IF end = "refused" THEN done ELSE [done EXCEPT ![g] = @ \cup {u}]
                  /\ dropped' = IF end = "refused" /\ u \notin done[g]
                                THEN [dropped EXCEPT ![g] = @ \cup {u}] ELSE dropped
          ELSE UNCHANGED <<done, dropped>>
    /\ UNCHANGED <<producer, offsets, alive>>

MarkMessage(g) ==
    /\ stage[g] = "mark"
    /\ stage' = [stage EXCEPT ![g] = "poll"]
    /\ position' = [position EXCEPT ![g] = @ + 1]
    /\ marked' = [marked EXCEPT ![g] = position[g] + 1]
    /\ UNCHANGED <<producer, committed, alive, done, dropped>>

(* Once a second what is marked is committed, if the brokers answer. *)
AutoCommit(g) ==
    /\ committed[g] < marked[g]
    /\ committed' = [committed EXCEPT ![g] = marked[g]]
    /\ UNCHANGED <<producer, position, marked, alive, stage, done, dropped>>

-----------------------------------------------------------------------------
(* Sessions *)

(* SIGTERM or a rebalance cancels the context of the session. *)
Cancel(g) ==
    /\ "session" \in RegistrationFaults
    /\ alive[g]
    /\ alive' = [alive EXCEPT ![g] = FALSE]
    /\ UNCHANGED <<producer, offsets, stage, done, dropped>>

(* The group goes on from what is committed, here or in another process. *)
Resume(g, from) ==
    /\ committed' = [committed EXCEPT ![g] = from]
    /\ marked' = [marked EXCEPT ![g] = from]
    /\ position' = [position EXCEPT ![g] = from]
    /\ alive' = [alive EXCEPT ![g] = TRUE]
    /\ stage' = [stage EXCEPT ![g] = "poll"]
    /\ UNCHANGED <<producer, done, dropped>>

(* ConsumeClaim has returned; what is marked is committed, and a new        *)
(* session begins.                                                          *)
NextSession(g) ==
    /\ ~alive[g] /\ stage[g] = "poll"
    /\ \E end \in Ends("kafka") : Resume(g, IF end = "refused" THEN committed[g] ELSE marked[g])

Crash(g) == "process" \in RegistrationFaults /\ Resume(g, committed[g])

RegistrationNext ==
    \/ \E u \in Users : CreateUser(u) \/ PublishUserRegistered(u)
    \/ UserServiceCrash
    \/ \E g \in Groups :
          \/ Poll(g) \/ HandleMessage(g) \/ MarkMessage(g) \/ AutoCommit(g)
          \/ Cancel(g) \/ NextSession(g) \/ Crash(g)

RegistrationSpec == RegistrationInit /\ [][RegistrationNext]_registrationVars

(* A consumer keeps polling.  However often it is restarted, it is up long  *)
(* enough, now and then, to handle a message, to mark it and to commit.     *)
Fairness ==
    \A g \in Groups :
        /\ WF_registrationVars(Poll(g)) /\ WF_registrationVars(NextSession(g))
        /\ SF_registrationVars(HandleMessage(g)) /\ SF_registrationVars(MarkMessage(g))
        /\ SF_registrationVars(AutoCommit(g))

LiveRegistration == RegistrationSpec /\ Fairness

-----------------------------------------------------------------------------
(* Properties *)

Events == {log[i] : i \in 1..Len(log)}

(* A wallet or a profile belongs to a stored user whose role calls for it,  *)
(* whatever user_service was doing when it failed.                          *)
ProvisionedAreRegistered ==
    \A g \in Groups : \A u \in done[g] : u \in users /\ (g = "driver_service" => Role[u] = "driver")

(* The group never comes back to a message it has committed, so by then the *)
(* message must have been acted on, or have failed: a crash between two     *)
(* steps of a consumer loses nothing.                                       *)
CommittedIsHandled ==
    \A g \in Groups : \A i \in 1..committed[g] :
        Wants(g, log[i]) => log[i] \in done[g] \cup dropped[g]

(* Every event that reached the topic is acted on, or was tried and failed. *)
EveryEventIsHandled ==
    \A g \in Groups, u \in Users :
        u \in Events /\ Wants(g, u) ~> u \in done[g] \cup dropped[g]

(* "Automatically creates personal wallets upon user/driver registration":  *)
(* every event that reached the topic leads to its wallet and profile.  A   *)
(* session that ends in the middle of an insert breaks it; README.md tells  *)
(* how, and no run checks it.                                               *)
EveryEventIsProvisioned ==
    \A g \in Groups, u \in Users : u \in Events /\ Wants(g, u) ~> u \in done[g]

-----------------------------------------------------------------------------
(* The inductive invariant behind the safety properties *)

UsersOK == publishing \subseteq users /\ \A i \in 1..Len(log) : log[i] \in users

Handled(g, i) == Wants(g, log[i]) => log[i] \in done[g] \cup dropped[g]

OffsetsOK ==
    \A g \in Groups :
        /\ committed[g] <= marked[g] /\ marked[g] = position[g] /\ position[g] <= Len(log)
        /\ stage[g] # "poll" => position[g] < Len(log)
        /\ stage[g] = "mark" => Handled(g, position[g] + 1)
        /\ \A i \in 1..marked[g] : Handled(g, i)

RegistrationInv == RegistrationTypeOK /\ UsersOK /\ OffsetsOK /\ ProvisionedAreRegistered
=============================================================================
