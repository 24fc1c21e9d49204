------------------------------ MODULE Identity ------------------------------
(***************************************************************************)
(* Who a request speaks for, and from which device: the device enrolments  *)
(* in the database (app/devices.py, app/store.py), IdentityService.resolve *)
(* (app/identity.py) and require_admin (app/main.py).                      *)
(*                                                                         *)
(* The table is shared by all gateway processes and every statement is one *)
(* transaction.  resolve gives the event loop up while it waits for the    *)
(* OIDC discovery and for JumpCloud; between the read of the device row    *)
(* and its touch only other processes run.                                 *)
(*                                                                         *)
(* EXTENDed by ControlPlane, which adds the event loop to these actions    *)
(* and leaves the policy alone in them.                                    *)
(***************************************************************************)
EXTENDS Naturals

CONSTANTS Requests,      \* requests, each handled at most once
          Users,
          Admins,        \* the users whose token lists a group of settings.admin_groups
          WithEmail,     \* the users resolve has an address for
          Devices,       \* the device ids enroll may draw: they never repeat
          NoDevice,      \* a missing id, or one that was never enrolled
          OwnerOf,       \* the user a device is enrolled to
          Scenarios,     \* the settings, the requests, and what else happens
          MaxElsewhere   \* bound: status changes through other processes

(* The settings read here.                                                 *)
SettingsType ==
    [auth: {"disabled", "optional", "required"}, trust: {"disabled", "optional", "required"},
     jumpcloud: BOOLEAN, adminAuth: BOOLEAN, adminDevice: BOOLEAN, policyWrite: BOOLEAN]

(* What may happen around the requests, see ControlPlane.                  *)
Happenings == {"devices", "threads", "edits", "ticks", "disk", "crashes"}

(* A request and its headers: the user a bearer token names, the one the   *)
(* header names, the device and its token.                                 *)
AdminKinds == {"status", "put"}
InputType ==
    [kind: {"web", "chat"} \cup AdminKinds, bearer: {"none", "valid", "invalid"},
     subject: Users, header: Users,
     device: Devices \cup {NoDevice}, token: {"none", "issued", "forged"}]

Statuses == {"trusted", "revoked", "quarantined"}

ASSUME IdentityAssumption ==
    /\ NoDevice \notin Devices /\ OwnerOf \in [Devices -> Users]
    /\ Admins \subseteq Users /\ WithEmail \subseteq Users /\ MaxElsewhere \in Nat
    /\ Scenarios \subseteq
         [settings: SettingsType, input: [Requests -> InputType], around: SUBSET Happenings]

VARIABLES
    scenario,   \* never changes
    status,     \* device_enrollments.status, "none" where there is no row
    step,       \* where each handler is
    trusted,    \* context.device_trusted
    elsewhere,  \* the number of status changes through other processes
    since       \* history: the devices trusted at some moment since the request arrived

devices     == <<status, elsewhere, since>>
identity    == <<scenario, devices, trusted>>
settings    == scenario.settings
input       == scenario.input

(* Where a handler may be: waiting (for the discovery, for JumpCloud, for  *)
(* its body, for a provider), or holding its process's event loop.         *)
Waiting == {"discovering", "enriching", "reading", "calling"}
Ended == {"failed", "answered", "lost"}

(* Mutant of OnLoop: the decision is awaited. *)
OnLoopButDeciding == {"touching", "acting", "decided"}

OnLoop == {"touching", "acting", "deciding", "decided"}

InFlight == Waiting \cup OnLoop

InitIdentity ==
    /\ scenario \in Scenarios
    /\ status = [d \in Devices |-> "none"]
    /\ step = [r \in Requests |-> "new"]
    /\ trusted = [r \in Requests |-> FALSE]
    /\ elsewhere = 0
    /\ since = [r \in Requests |-> {}]

-----------------------------------------------------------------------------
(* The table.                                                              *)
Witness(table) ==
    since' = [r \in Requests |->
        since[r] \cup IF step[r] \in InFlight THEN {d \in Devices : table[d] = "trusted"} ELSE {}]

(* update_device_status: touches a row, makes none. *)
WriteStatus(d, s) ==
    /\ status[d] # "none"
    /\ status' = [status EXCEPT ![d] = s]
    /\ Witness(status')

(* upsert_device. *)
InsertRow(d) ==
    /\ status[d] = "none"
    /\ status' = [status EXCEPT ![d] = "trusted"]
    /\ Witness(status')

(* get_device: the status of the row, if there is one. *)
RowStatus(d) == IF d \in Devices THEN status[d] ELSE "none"

(* enroll, with the right enrolment token: it draws a fresh id. *)
Enroll(d) ==
    /\ InsertRow(d)
    /\ UNCHANGED <<scenario, elsewhere, trusted, step>>

(* An admin withdraws trust through another process. *)
WithdrawElsewhere(d, s) ==
    /\ elsewhere < MaxElsewhere /\ elsewhere' = elsewhere + 1
    /\ s # "trusted" /\ status[d] # s
    /\ WriteStatus(d, s)
    /\ UNCHANGED <<scenario, trusted, step>>

-----------------------------------------------------------------------------
(* resolve.                                                                *)
Move(r, s) == step' = [step EXCEPT ![r] = s]

Bearer(r)  == settings.auth # "disabled" /\ input[r].bearer # "none"
User(r)    == IF Bearer(r) THEN input[r].subject ELSE input[r].header

(* Mutant of Verified: a row is enough. *)
VerifiedAnyStatus(r) ==
    \/ settings.trust = "disabled"
    \/ /\ input[r].token # "none"
       /\ RowStatus(input[r].device) # "none"
       /\ OwnerOf[input[r].device] = User(r)
       /\ input[r].token = "issued"

(* verify's answer, from the row as it is now. *)
Verified(r) ==
    \/ settings.trust = "disabled"
    \/ /\ input[r].token # "none"
       /\ RowStatus(input[r].device) = "trusted"
       /\ OwnerOf[input[r].device] = User(r)
       /\ input[r].token = "issued"

(* Mutant of MayAdminister: the groups of the headers count. *)
MayAdministerByHeader(r, t) ==
    /\ settings.adminAuth => Bearer(r) /\ {input[r].subject, input[r].header} \cap Admins # {}
    /\ settings.adminDevice => t
    /\ input[r].kind = "put" => settings.policyWrite

(* require_admin, and the first line of the policy update.                 *)
MayAdminister(r, t) ==
    /\ settings.adminAuth => Bearer(r) /\ input[r].subject \in Admins
    /\ settings.adminDevice => t
    /\ input[r].kind = "put" => settings.policyWrite

(* resolve returns: the handler goes on to its body, or refuses. *)
Resolved(r, t) ==
    Move(r, IF input[r].kind \in AdminKinds /\ ~MayAdminister(r, t) THEN "failed" ELSE "reading")

(* verify has answered t. *)
DeviceChecked(r, t) ==
    /\ trusted' = [trusted EXCEPT ![r] = t]
    /\ IF settings.trust = "required" /\ ~t THEN Move(r, "failed")
       ELSE IF settings.jumpcloud /\ User(r) \in WithEmail THEN Move(r, "enriching")
       ELSE Resolved(r, t)

(* The handler starts, up to the OIDC discovery if it has to wait for it. *)
Arrive(r) ==
    /\ step[r] = "new"
    /\ Move(r, "discovering")
    /\ since' = [since EXCEPT ![r] = {d \in Devices : status[d] = "trusted"}]
    /\ UNCHANGED <<scenario, status, elsewhere, trusted>>

(* From there to the touch of the device, or to the next wait.  It fails   *)
(* without a valid token, if the discovery fails, or the database does.    *)
Identify(r) ==
    /\ step[r] = "discovering"
    /\ \/ /\ Move(r, "failed") /\ UNCHANGED trusted
       \/ /\ IF Bearer(r) THEN input[r].bearer = "valid" ELSE settings.auth # "required"
          /\ IF settings.trust # "disabled" /\ Verified(r)
             THEN Move(r, "touching") /\ UNCHANGED trusted
             ELSE DeviceChecked(r, Verified(r))
    /\ UNCHANGED <<scenario, devices>>

(* Mutant of Touch: it writes the whole row, as it was read. *)
TouchWholeRow(r) ==
    /\ step[r] = "touching"
    /\ status' = [status EXCEPT ![input[r].device] = "trusted"] /\ Witness(status')
    /\ DeviceChecked(r, TRUE)
    /\ UNCHANGED <<scenario, elsewhere>>

(* touch_device: only last_seen_at changes.  It may raise. *)
Touch(r) ==
    /\ step[r] = "touching"
    /\ \/ DeviceChecked(r, TRUE)
       \/ Move(r, "failed") /\ UNCHANGED trusted
    /\ UNCHANGED <<scenario, devices>>

(* find_user_by_email returns, with whatever it found: nothing it awaits   *)
(* raises past it.  The user may be suspended there.                       *)
Enriched(r) ==
    /\ step[r] = "enriching"
    /\ Move(r, "failed") \/ Resolved(r, trusted[r])
    /\ UNCHANGED <<scenario, devices, trusted>>

Resolve(r) == Identify(r) \/ Touch(r) \/ Enriched(r)

(* The handler has its body; a body it cannot use is refused. *)
ReadBody(r) ==
    /\ step[r] = "reading"
    /\ Move(r, "failed") \/ Move(r, "acting")
    /\ UNCHANGED identity

(* /v1/admin/devices/{device_id}/status: a request that fails may have     *)
(* written the row, when the commit's reply or the log raises.             *)
SetStatus(r) ==
    /\ step[r] = "acting" /\ input[r].kind = "status"
    /\ \/ /\ \E d \in Devices, s \in Statuses : WriteStatus(d, s)
          /\ Move(r, "answered") \/ Move(r, "failed")
       \/ Move(r, "failed") /\ UNCHANGED <<status, since>>
    /\ UNCHANGED <<scenario, elsewhere, trusted>>

-----------------------------------------------------------------------------
TypeOKIdentity ==
    /\ scenario \in Scenarios
    /\ status \in [Devices -> Statuses \cup {"none"}]
    /\ step \in [Requests -> {"new"} \cup InFlight \cup Ended]
    /\ trusted \in [Requests -> BOOLEAN]
    /\ elsewhere \in 0 .. MaxElsewhere
    /\ since \in [Requests -> SUBSET Devices]

(* A request counts as one of a trusted device only on evidence: the       *)
(* device has been trusted at some moment since the request arrived, its   *)
(* token is the one issued at enrolment, and it is enrolled to the user    *)
(* the request speaks for.  A withdrawal an admin was told of therefore    *)
(* holds for every later request, if not for one that waits for JumpCloud. *)
(* And where trust is required, nothing goes past resolve without.         *)
TrustIsEvidenced ==
    settings.trust # "disabled" => \A r \in Requests :
        /\ trusted[r] =>
            /\ input[r].device \in since[r] /\ input[r].token = "issued"
            /\ OwnerOf[input[r].device] =
                 IF settings.auth = "disabled" \/ input[r].bearer = "none"
                 THEN input[r].header ELSE input[r].subject
        /\ settings.trust = "required" /\ step[r] \in InFlight \ {"discovering", "touching"} =>
              trusted[r]

(* A withdrawn device is trusted again only by an admin's word: no request *)
(* of the device itself, late or early, brings the trust back.             *)
WithdrawalSticks ==
    [][\A d \in Devices : status[d] \in {"revoked", "quarantined"} /\ status'[d] = "trusted" =>
         \E r \in Requests :
            input[r].kind = "status" /\ step[r] = "acting" /\ step'[r] \in {"answered", "failed"}]_status
=============================================================================
