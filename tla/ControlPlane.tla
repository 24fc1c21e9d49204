---------------------------- MODULE ControlPlane ----------------------------
(***************************************************************************)
(* One gateway process: requests that identify themselves (Identity) and   *)
(* then decide under the policy in force, or change it or the devices      *)
(* (PolicyStore).                                                          *)
(*                                                                         *)
(* The handlers are coroutines of one event loop: while one of them is     *)
(* between two awaits no other runs, whichever component it is in.  The    *)
(* worker threads of the reload endpoint, other processes and the operator *)
(* run at any time.                                                        *)
(***************************************************************************)
EXTENDS Identity, PolicyStore

ASSUME ControlPlaneAssumption == Writers \subseteq Requests

VARIABLES
    read,       \* the policies a decision has read, as places in lineage
    event,      \* the policy version of the request's audit event
    epoch       \* history: the policy whose version was in force at the decision

decisions == <<read, event, epoch>>
vars      == <<identity, step, storeVars, decisions>>

NoVersion == "none"

Init ==
    /\ InitIdentity /\ InitStore
    /\ \A r \in Requests : input[r].kind = "put" => r \in Writers
    /\ read = [r \in Requests |-> {}]
    /\ event = [r \in Requests |-> NoVersion]
    /\ epoch = [r \in Requests |-> 0]

(* Mutant of LoopFree: handlers run in worker threads, as plain defs do. *)
LoopFreeThreaded == up

(* The loop is free for a handler that waits. *)
LoopFree == up /\ \A r \in Requests : step[r] \notin OnLoop

(* Whatever the scenario has of it happens at any time. *)
May(h) == h \in scenario.around

-----------------------------------------------------------------------------
(* Mutant of LogEvent: it stamps the version the process started with. *)
LogEventOfStart(r) == event' = [event EXCEPT ![r] = VersionOf[lineage[1].policy]]

(* log_audit_event stamps the version of the moment.                       *)
LogEvent(r) == event' = [event EXCEPT ![r] = version]

(* decide reads self.policy several times: first here, ... *)
DecideFirst(r) ==
    /\ step[r] = "acting" /\ input[r].kind \in {"web", "chat"}
    /\ Move(r, "deciding")
    /\ read' = [read EXCEPT ![r] = {Len(lineage)}]
    /\ epoch' = [epoch EXCEPT ![r] = named]
    /\ UNCHANGED <<identity, storeVars, event>>

(* ... and for the last time here.  A chat that is not blocked waits for   *)
(* its provider then.                                                      *)
DecideLast(r) ==
    /\ step[r] = "deciding"
    /\ read' = [read EXCEPT ![r] = @ \cup {Len(lineage)}]
    /\ Move(r, "decided") \/ (input[r].kind = "chat" /\ Move(r, "calling"))
    /\ UNCHANGED <<identity, storeVars, event, epoch>>

(* The rest of the handler, which logs.  The provider may fail a chat, and *)
(* the log's queue, spool or store any request.                            *)
Answer(r) ==
    /\ step[r] = "decided" \/ (step[r] = "calling" /\ LoopFree)
    /\ \/ Move(r, "answered") /\ LogEvent(r)
       \/ Move(r, "failed") /\ UNCHANGED event
    /\ UNCHANGED <<identity, storeVars, read, epoch>>

(* /v1/admin/policy: backup, write, reload, log.  Whatever raises ends it. *)
PutPolicy(r) ==
    /\ step[r] = "acting" /\ input[r].kind = "put"
    /\ \/ (Backup(r) \/ Truncate(r) \/ Write(r)) /\ UNCHANGED <<step, epoch>>
       \/ May("disk") /\ (BackupFails(r) \/ WriteFails(r) \/ LoadFails(r)) /\ Move(r, "failed") /\ UNCHANGED epoch
       \/ /\ Load(r) \/ Find(r)
          /\ IF phase'[r] = "done" THEN Move(r, "failed") ELSE UNCHANGED step
          /\ UNCHANGED epoch
       \/ Assign(r) /\ epoch' = [epoch EXCEPT ![r] = Len(lineage')] /\ UNCHANGED step
       \/ SetVersion(r) /\ Move(r, "decided") /\ UNCHANGED epoch
    /\ UNCHANGED <<identity, read, event>>

(* /v1/admin/devices/{device_id}/status: write, log. *)
PutStatus(r) ==
    /\ SetStatus(r)
    /\ IF step'[r] = "answered"
       THEN LogEvent(r) /\ epoch' = [epoch EXCEPT ![r] = named]
       ELSE UNCHANGED <<event, epoch>>
    /\ UNCHANGED <<storeVars, read>>

(* The steps of a handler that wait for nobody outside the process, or for *)
(* a call with a timeout: the discovery's and JumpCloud's.                 *)
Advance(r) ==
    \/ LoopFree /\ (Identify(r) \/ Enriched(r)) /\ UNCHANGED <<storeVars, decisions>>
    \/ Touch(r) /\ UNCHANGED <<storeVars, decisions>>
    \/ PutPolicy(r) \/ PutStatus(r)
    \/ DecideFirst(r) \/ DecideLast(r)
    \/ Answer(r)

(* Those that need the client. *)
Client(r) == LoopFree /\ (Arrive(r) \/ ReadBody(r)) /\ UNCHANGED <<storeVars, decisions>>

Request(r) == Advance(r) \/ Client(r)

EnrollDevice(d) == LoopFree /\ Enroll(d) /\ UNCHANGED <<storeVars, decisions>>

Thread(a) ==
    /\ StartThread(a) \/ Reload(a) \/ (May("disk") /\ LoadFails(a))
    /\ UNCHANGED <<identity, step, decisions>>

Crash ==
    /\ Die
    /\ step' = [r \in Requests |-> IF step[r] \in InFlight THEN "lost" ELSE step[r]]
    /\ UNCHANGED <<identity, decisions>>

Edited == \E t \in Texts \cup {Broken} : Edit(t)

Withdrawn == \E d \in Devices, s \in Statuses : WithdrawElsewhere(d, s) /\ UNCHANGED <<storeVars, decisions>>

World ==
    \/ May("devices") /\ (Withdrawn \/ \E d \in Devices : EnrollDevice(d))
    \/ May("threads") /\ \E a \in Threads : Thread(a)
    \/ May("edits") /\ Edited /\ UNCHANGED <<identity, step, decisions>>
    \/ May("ticks") /\ Tick /\ UNCHANGED <<identity, step, decisions>>
    \/ May("crashes") /\ Crash
    \/ Boot /\ UNCHANGED <<identity, step, decisions>>

Next == World \/ \E r \in Requests : Request(r)

Spec == Init /\ [][Next]_vars

(* The loop runs what is ready to run, and the calls of resolve have       *)
(* timeouts.  Nothing is assumed of clients, threads or the operator.      *)
FairSpec == Spec /\ \A r \in Requests : WF_vars(Advance(r))

-----------------------------------------------------------------------------
(* Type correctness of the composition. *)
TypeOK ==
    /\ TypeOKIdentity /\ TypeOKStore
    /\ read \in [Requests -> SUBSET (1 .. Len(lineage))]
    /\ event \in [Requests -> {NoVersion} \cup {VersionOf[p] : p \in Versioned}]
    /\ \A r \in Requests : epoch[r] \in 0 .. Len(lineage)
    /\ \A r \in Writers : phase[r] \notin {"idle", "done"} => step[r] = "acting"

(* An audit event names the policy whose version was in force when its     *)
(* decision (or change) was taken, or one that was put in force from then  *)
(* until it is logged, however long the provider took and whatever was     *)
(* reloaded meanwhile: unless reloads overlapped.  By ReloadsSettle that   *)
(* is the policy of the decision, where it has a version and no reload is  *)
(* at work.                                                                *)
AuditNamesPolicy ==
    [][\A r \in Requests : event'[r] # event[r] =>
         \/ doubt # "none"
         \/ \E i \in epoch'[r] .. Len(lineage) : Names(event'[r], i)]_vars

(* A decision mixes two policies only if worker threads put the later one, *)
(* and all between, in force: no PUT comes between two reads of a handler. *)
MixedByThread ==
    \A r \in Requests : \A i, j \in read[r] :
        \A k \in i + 1 .. j : lineage[k].by \in Threads

(* The policy file is written, and a device's status is, only for a        *)
(* request that passed require_admin: an authenticated admin and a trusted *)
(* device where the settings ask for them, whatever the headers say.       *)
ChangesAreAuthorised ==
    [][((file' # file /\ edits' = edits) \/ taken' # taken \/
        \E d \in Devices : status[d] # "none" /\ status'[d] # status[d] /\ elsewhere' = elsewhere) =>
         \E r \in Requests :
            /\ step[r] = "acting" /\ input[r].kind \in AdminKinds
            /\ settings.adminAuth =>
                 settings.auth # "disabled" /\ input[r].bearer = "valid" /\ input[r].subject \in Admins
            /\ settings.adminDevice /\ settings.trust # "disabled" => input[r].device \in since[r]
            /\ input[r].kind = "put" => settings.policyWrite]_vars

(* Every request learns whether it is let in: its identification comes to  *)
(* an end whatever other handlers do on the loop, and dies with the        *)
(* process at the latest.                                                  *)
IdentitySettles ==
    \A r \in Requests :
        step[r] \in {"discovering", "touching", "enriching"} ~>
            step[r] \notin {"discovering", "touching", "enriching"}
=============================================================================
