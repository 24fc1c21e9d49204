------------------------- MODULE ControlPlaneProofs -------------------------
(***************************************************************************)
(* ControlPlane's invariants and action properties, proved for any number  *)
(* of requests, devices, policies, reload threads, edits and crashes.      *)
(*                                                                         *)
(* The inductive invariant IInv is a conjunction of named parts; what each *)
(* part needs of the others is what its step lemma cites.                  *)
(***************************************************************************)
EXTENDS ControlPlane, FiniteSetTheorems, SequenceTheorems, TLAPS

-----------------------------------------------------------------------------
(* The parts of the inductive invariant.                                   *)
Versions == {VersionOf[p] : p \in Versioned}
Entries  == [policy : Policies, by : Reloaders \cup {NoText}]

(* TypeOK, and what it leaves to the actions that build the values. *)
Typed ==
    /\ TypeOK
    /\ found \in [Reloaders -> Versions] /\ version \in Versions
    /\ epoch \in [Requests -> Nat]
    /\ lineage \in Seq(Entries) /\ Len(lineage) > 0 /\ lineage[Len(lineage)].policy = live
    /\ written \subseteq Policies /\ IsFiniteSet(written)
    /\ edits \in Nat /\ taken \in Nat

(* A PUT is one of the Writers, and only a PUT is active as a reloader. *)
PutsReload ==
    /\ \A r \in Requests : input[r].kind = "put" => r \in Writers
    /\ \A r \in Writers : phase[r] \notin {"idle", "done"} => input[r].kind = "put"

(* The event loop runs one handler at a time. *)
Alone == \A r, q \in Requests : step[r] \in OnLoop /\ step[q] \in OnLoop => r = q

(* Nothing is under way in a process that is not up. *)
Alive ==
    ~up => /\ \A r \in Requests : step[r] \notin InFlight
           /\ Active(phase) = {}

(* What a request is let in for. *)
Evidence(r) ==
    /\ input[r].device \in since[r] /\ input[r].token = "issued"
    /\ OwnerOf[input[r].device] = User(r)

(* Where resolve is behind a request that is still served. *)
Resolving == {"discovering", "touching"}
Inside    == InFlight \ Resolving

Evidenced ==
    /\ \A r \in Requests : step[r] \in {"new"} \cup Resolving => ~trusted[r]
    /\ \A r \in Requests : step[r] \in InFlight =>
           \A d \in Devices : status[d] = "trusted" => d \in since[r]
    /\ settings.trust # "disabled" => \A r \in Requests :
           /\ trusted[r] \/ step[r] = "touching" => Evidence(r)
           /\ settings.trust = "required" /\ step[r] \in Inside => trusted[r]

(* A request that got past resolve has a valid token, if it has one; and   *)
(* an admin's has passed require_admin.                                    *)
Admitted ==
    \A r \in Requests :
        /\ step[r] \in InFlight \ {"discovering"} /\ Bearer(r) => input[r].bearer = "valid"
        /\ step[r] \in {"reading", "acting"} /\ input[r].kind \in AdminKinds =>
               MayAdminister(r, trusted[r])

(* What a decision has read: one policy, and only threads have put others  *)
(* in force since, until it has read them all.                             *)
Mixed ==
    /\ \A r \in Requests :
        /\ read[r] # {} => input[r].kind \in {"web", "chat"}
        /\ step[r] = "deciding" => \E i \in 1 .. Len(lineage) :
               read[r] = {i} /\ \A k \in i + 1 .. Len(lineage) : lineage[k].by \in Threads
    /\ MixedByThread

(* A reloader that runs alone: it is the only one, and what it read from   *)
(* the file and from the policy in force is still there.                   *)
AloneReload ==
    doubt # "some" =>
        /\ \A a, b \in Active(phase) : a = b
        /\ \A a \in Reloaders :
            /\ phase[a] = "set" => live \in Versioned /\ found[a] = VersionOf[live]
            /\ ~unread /\ phase[a] = "assign" => loaded[a] = file
            /\ ~unread /\ phase[a] \in {"find", "set"} => live = file

(* It has in the file, or in its hands, what is not in force yet. *)
Fresh(a) == phase[a] \in {"write", "assign"} \/ (phase[a] = "load" /\ a \in Writers)

(* The policy in force, its version and the file, when no reload overlapped *)
(* with another: the version is that of the last policy that has one, but  *)
(* between the assignments of a reload, when that may be the one before.   *)
Settled ==
    up /\ doubt = "none" =>
        /\ Names(version, named)
        /\ \A i \in named + 1 .. Len(lineage) :
               \/ lineage[i].policy \notin Versioned
               \/ i = Len(lineage) /\ \E a \in Reloaders : phase[a] \in {"find", "set"}
        /\ unread \/ live = file \/ \E a \in Reloaders : Fresh(a)

BrokenIsUnread == file = Broken => unread

(* No decision is ahead of the versions. *)
Decided == {"deciding", "decided", "calling"}

EpochsNamed == \A r \in Requests : step[r] \in Decided => epoch[r] <= named

(* Where an empty policy comes from. *)
Writing == \E w \in Writers : phase[w] = "write"

Emptied ==
    /\ file = Empty => torn \/ Writing
    /\ \A a \in Reloaders : doubt # "some" /\ phase[a] = "assign" /\ loaded[a] = Empty => torn
    /\ \A a \in Reloaders : doubt # "some" /\ phase[a] \in {"find", "set"} /\ live = Empty => torn
    /\ EmptyByAccident

(* The texts that are nowhere but, perhaps, in the file; and the backups   *)
(* that took a name of their own.                                          *)
Backed == {backups[s] : s \in Seconds}
Named  == {s \in Seconds : backups[s] # NoText}

BackupsCounted ==
    /\ BackupsBound
    /\ (\E w \in Writers : phase[w] \in {"truncate", "write"}) =>
           Cardinality(written \ Backed) <= taken - Cardinality(Named) + edits

IInv ==
    /\ Typed /\ PutsReload /\ Alone /\ Alive
    /\ Evidenced /\ Admitted
    /\ Mixed
    /\ BrokenIsUnread /\ AloneReload /\ Settled /\ EpochsNamed
    /\ Emptied
    /\ BackupsCounted

USE DEF vars, decisions, identity, devices, settings, input,
        storeVars, disk, engine, ghosts, Reloaders, Policies

-----------------------------------------------------------------------------
(* What a step does to one component, whatever it does to the other.       *)
LaterSteps == {"acting", "deciding", "decided", "calling"}

IdentityStep ==
    \/ UNCHANGED <<identity, step>>
    \/ UNCHANGED identity /\ \E r \in Requests :
           /\ step[r] \in LaterSteps
           /\ \E s \in {"deciding", "decided", "calling", "answered", "failed"} :
                  Move(r, s) /\ (step[r] = "calling" => s \in Ended /\ LoopFree)
    \/ LoopFree /\ \E r \in Requests : Identify(r) \/ Enriched(r) \/ Arrive(r) \/ ReadBody(r)
    \/ \E r \in Requests : Touch(r) \/ SetStatus(r)
    \/ \E d \in Devices : Enroll(d) \/ \E s \in Statuses : WithdrawElsewhere(d, s)
    \/ Crash

StoreStep ==
    \/ UNCHANGED storeVars
    \/ \E a \in Threads : StartThread(a)
    \/ \E w \in Writers :
          /\ step[w] = "acting" /\ input[w].kind = "put"
          /\ Backup(w) \/ BackupFails(w) \/ Truncate(w) \/ Write(w) \/ WriteFails(w)
    \/ \E a \in Reloaders : Load(a) \/ LoadFails(a) \/ Assign(a) \/ Find(a) \/ SetVersion(a)
    \/ Tick
    \/ \E t \in Texts \cup {Broken} : Edit(t)
    \/ Crash
    \/ Boot

LEMMA IdentityCases == [Next]_vars => IdentityStep
<1> SUFFICES ASSUME [Next]_vars PROVE IdentityStep
    OBVIOUS
<1> USE DEF IdentityStep
<1>1. ASSUME NEW r \in Requests, Advance(r) PROVE IdentityStep
    <2>1. CASE LoopFree /\ (Identify(r) \/ Enriched(r))
        BY <2>1
    <2>2. CASE Touch(r)
        BY <2>2
    <2>3. CASE PutPolicy(r)
        BY <2>3 DEF PutPolicy, LaterSteps
    <2>4. CASE PutStatus(r)
        BY <2>4 DEF PutStatus
    <2>5. CASE DecideFirst(r) \/ DecideLast(r)
        BY <2>5 DEF DecideFirst, DecideLast, LaterSteps
    <2>6. CASE Answer(r)
        BY <2>6 DEF Answer, LaterSteps, Ended
    <2> QED BY <1>1, <2>1, <2>2, <2>3, <2>4, <2>5, <2>6 DEF Advance
<1>2. ASSUME NEW r \in Requests, Client(r) PROVE IdentityStep
    BY <1>2 DEF Client
<1>3. CASE World
    BY <1>3 DEF World, Withdrawn, EnrollDevice, Thread, Edited
<1>4. CASE UNCHANGED vars
    BY <1>4
<1> QED BY <1>1, <1>2, <1>3, <1>4 DEF Next, Request

LEMMA StoreCases == PutsReload /\ [Next]_vars => StoreStep
<1> SUFFICES ASSUME PutsReload, [Next]_vars PROVE StoreStep
    OBVIOUS
<1> USE DEF StoreStep
<1>1. ASSUME NEW r \in Requests, PutPolicy(r) PROVE StoreStep
    <2>1. r \in Writers /\ step[r] = "acting" /\ input[r].kind = "put"
        BY <1>1 DEF PutPolicy, PutsReload
    <2> QED BY <1>1, <2>1 DEF PutPolicy
<1>2. ASSUME NEW r \in Requests, Advance(r) \/ Client(r), ~PutPolicy(r) PROVE StoreStep
    BY <1>2 DEF Advance, Client, PutStatus, DecideFirst, DecideLast, Answer
<1>3. CASE World
    BY <1>3 DEF World, Withdrawn, EnrollDevice, Thread, Edited, Reload
<1>4. CASE UNCHANGED vars
    BY <1>4
<1> QED BY <1>1, <1>2, <1>3, <1>4 DEF Next, Request

-----------------------------------------------------------------------------
(* Type correctness, component by component. *)

LEMMA TypeInit == Init => Typed
<1> SUFFICES ASSUME Init PROVE Typed
    OBVIOUS
<1> USE IdentityAssumption, PolicyStoreAssumption, ControlPlaneAssumption
<1>1. TypeOKIdentity
    BY DEF Init, InitIdentity, TypeOKIdentity
<1>2. /\ Deployed \in Policies /\ Deployed \in Versioned /\ VersionOf[Deployed] \in Versions
      /\ {0} \subseteq Seconds /\ 0 \in 0 .. MaxEdits /\ 0 \in 0 .. MaxCrashes
    BY DEF Versions, Seconds
<1>3. /\ lineage \in Seq(Entries) /\ Len(lineage) = 1 /\ lineage[1].policy = live
    <2>1. lineage = <<[policy |-> Deployed, by |-> NoText]>> /\ live = Deployed
        BY DEF Init, InitStore
    <2>2. [policy |-> Deployed, by |-> NoText] \in Entries
        BY <1>2 DEF Entries
    <2> QED BY <2>1, <2>2
<1>4. TypeOKStore
    <2>1. /\ file \in Policies \cup {Broken} /\ live \in Policies
          /\ backups \in [Seconds -> Policies \cup {Broken, NoText}] /\ second \in Seconds
        BY <1>2 DEF Init, InitStore
    <2>2. /\ phase \in [Reloaders -> {"idle", "truncate", "write", "load", "assign", "find", "set", "done"}]
          /\ loaded \in [Reloaders -> Policies \cup {NoText}]
          /\ \A a \in Reloaders : phase[a] # "assign"
        BY DEF Init, InitStore
    <2>3. {version} \cup {found[a] : a \in Reloaders} \subseteq Versions
        BY <1>2 DEF Init, InitStore
    <2>4. named \in 1 .. Len(lineage)
        BY <1>3 DEF Init, InitStore
    <2>5. /\ edits \in 0 .. MaxEdits /\ crashes \in 0 .. MaxCrashes
          /\ doubt \in {"none", "mending", "some"} /\ {up, unread, torn} \subseteq BOOLEAN
        BY <1>2 DEF Init, InitStore
    <2> QED BY <2>1, <2>2, <2>3, <2>4, <2>5 DEF TypeOKStore, Versions
<1>5. IsFiniteSet(written) /\ written \subseteq Policies
    BY <1>2, FS_Singleton DEF Init, InitStore
<1>6. /\ read \in [Requests -> SUBSET (1 .. Len(lineage))]
      /\ event \in [Requests -> {NoVersion} \cup Versions]
      /\ epoch \in [Requests -> Nat] /\ \A r \in Requests : epoch[r] \in 0 .. Len(lineage)
    BY <1>3 DEF Init
<1>7. \A r \in Writers : phase[r] = "idle"
    BY DEF Init, InitStore
<1>8. /\ found \in [Reloaders -> Versions] /\ version \in Versions /\ edits \in Nat /\ taken \in Nat
    BY <1>2 DEF Init, InitStore
<1> QED BY <1>1, <1>3, <1>4, <1>5, <1>6, <1>7, <1>8 DEF Typed, TypeOK, Versions

LEMMA TypeIdentity == TypeOKIdentity /\ [Next]_vars => TypeOKIdentity'
<1> SUFFICES ASSUME TypeOKIdentity, [Next]_vars PROVE TypeOKIdentity'
    OBVIOUS
<1> USE DEF TypeOKIdentity, InFlight, Waiting, OnLoop, Ended
<1>1. \A r \in Requests : \A s \in InFlight \cup Ended : Move(r, s) =>
          step' \in [Requests -> {"new"} \cup InFlight \cup Ended]
    BY DEF Move
<1>2. (\A r \in Requests : \A t \in BOOLEAN : Resolved(r, t) =>
          step' \in [Requests -> {"new"} \cup InFlight \cup Ended])
    BY <1>1 DEF Resolved
<1>3. (\A r \in Requests : \A t \in BOOLEAN : DeviceChecked(r, t) =>
          /\ step' \in [Requests -> {"new"} \cup InFlight \cup Ended]
          /\ trusted' \in [Requests -> BOOLEAN])
    BY <1>1, <1>2 DEF DeviceChecked
<1>4. \A table : Witness(table) => since' \in [Requests -> SUBSET Devices]
    BY DEF Witness
<1>5. CASE UNCHANGED <<identity, step>>
    BY <1>5
<1>6. ASSUME NEW r \in Requests, UNCHANGED identity,
             \E s \in {"deciding", "decided", "calling", "answered", "failed"} : Move(r, s)
      PROVE TypeOKIdentity'
    BY <1>1, <1>6
<1>7. ASSUME NEW r \in Requests, Identify(r) PROVE TypeOKIdentity'
    <2>1. Verified(r) \in BOOLEAN
        BY DEF Verified
    <2>2. step' \in [Requests -> {"new"} \cup InFlight \cup Ended] /\ trusted' \in [Requests -> BOOLEAN]
        BY <1>1, <1>3, <1>7, <2>1 DEF Identify
    <2> QED BY <1>7, <2>2 DEF Identify
<1>8. ASSUME NEW r \in Requests, Touch(r) PROVE TypeOKIdentity'
    <2>1. step' \in [Requests -> {"new"} \cup InFlight \cup Ended] /\ trusted' \in [Requests -> BOOLEAN]
        BY <1>1, <1>3, <1>8 DEF Touch
    <2> QED BY <1>8, <2>1 DEF Touch
<1>9. ASSUME NEW r \in Requests, Enriched(r) \/ ReadBody(r) PROVE TypeOKIdentity'
    <2>1. step' \in [Requests -> {"new"} \cup InFlight \cup Ended]
        BY <1>1, <1>2, <1>9 DEF Enriched, ReadBody
    <2> QED BY <1>9, <2>1 DEF Enriched, ReadBody
<1>10. ASSUME NEW r \in Requests, Arrive(r) PROVE TypeOKIdentity'
    BY <1>1, <1>10 DEF Arrive
<1>11. ASSUME NEW r \in Requests, SetStatus(r) PROVE TypeOKIdentity'
    <2>1. step' \in [Requests -> {"new"} \cup InFlight \cup Ended]
        BY <1>1, <1>11 DEF SetStatus
    <2> QED BY <1>4, <1>11, <2>1 DEF SetStatus, WriteStatus
<1>12. ASSUME NEW d \in Devices, Enroll(d) \/ \E s \in Statuses : WithdrawElsewhere(d, s)
       PROVE TypeOKIdentity'
    <2>1. status' \in [Devices -> Statuses \cup {"none"}] /\ since' \in [Requests -> SUBSET Devices]
        BY <1>4, <1>12 DEF Enroll, InsertRow, WithdrawElsewhere, WriteStatus, Statuses
    <2>2. elsewhere' \in 0 .. MaxElsewhere
        BY <1>12, IdentityAssumption DEF Enroll, WithdrawElsewhere
    <2> QED BY <1>12, <2>1, <2>2 DEF Enroll, WithdrawElsewhere
<1>13. CASE Crash
    BY <1>13 DEF Crash
<1> QED BY <1>5, <1>6, <1>7, <1>8, <1>9, <1>10, <1>11, <1>12, <1>13, IdentityCases DEF IdentityStep

(* The history of policies only grows, by what is put in force. *)
LEMMA LineageGrows ==
    ASSUME Typed, NEW x \in Entries, lineage' = Append(lineage, x)
    PROVE  /\ lineage' \in Seq(Entries) /\ Len(lineage') = Len(lineage) + 1
           /\ lineage'[Len(lineage')] = x
           /\ \A i \in 1 .. Len(lineage) : lineage'[i] = lineage[i]
           /\ Len(lineage) \in Nat
BY AppendProperties, LenProperties DEF Typed

LEMMA TypeStore ==
    ASSUME Typed, PutsReload, [Next]_vars
    PROVE  /\ TypeOKStore'
           /\ found' \in [Reloaders -> Versions] /\ version' \in Versions
           /\ lineage' \in Seq(Entries) /\ Len(lineage') > 0 /\ (lineage[Len(lineage)].policy = live)'
           /\ written' \subseteq Policies /\ IsFiniteSet(written')
           /\ edits' \in Nat /\ taken' \in Nat
           /\ Len(lineage') >= Len(lineage)
<1> USE PolicyStoreAssumption DEF TypeOKStore, Versions
<1> DEFINE Phases == {"idle", "truncate", "write", "load", "assign", "find", "set", "done"}
           Goal ==
           /\ TypeOKStore'
           /\ found' \in [Reloaders -> Versions] /\ version' \in Versions
           /\ lineage' \in Seq(Entries) /\ Len(lineage') > 0 /\ (lineage[Len(lineage)].policy = live)'
           /\ written' \subseteq Policies /\ IsFiniteSet(written')
           /\ edits' \in Nat /\ taken' \in Nat
           /\ Len(lineage') >= Len(lineage)
<1>0. /\ TypeOKStore
      /\ found \in [Reloaders -> Versions] /\ version \in Versions
      /\ lineage \in Seq(Entries) /\ Len(lineage) > 0 /\ lineage[Len(lineage)].policy = live
      /\ written \subseteq Policies /\ IsFiniteSet(written)
      /\ edits \in Nat /\ taken \in Nat
      /\ Len(lineage) \in Nat
    BY LenProperties DEF Typed, TypeOK
<1>1. CASE UNCHANGED storeVars
    BY <1>0, <1>1
<1>2. ASSUME NEW a \in Threads, StartThread(a) PROVE Goal
    BY <1>0, <1>2 DEF StartThread, Begin, To
<1>3. ASSUME NEW w \in Writers, Backup(w) \/ BackupFails(w) PROVE Goal
    <2>1. backups' \in [Seconds -> Policies \cup {Broken, NoText}] /\ taken' \in Nat
        BY <1>0, <1>3 DEF Backup, BackupFails, Leftovers
    <2>2. phase' \in [Reloaders -> Phases] /\ doubt' \in {"none", "mending", "some"}
          /\ \A b \in Reloaders : phase'[b] = "assign" => phase[b] = "assign"
        BY <1>0, <1>3 DEF Backup, BackupFails, Begin, To
    <2>3. UNCHANGED <<file, written, second, engine, loaded, found, up, edits, crashes, unread, torn>>
        BY <1>3 DEF Backup, BackupFails
    <2> QED BY <1>0, <2>1, <2>2, <2>3
<1>4. ASSUME NEW w \in Writers, Truncate(w) PROVE Goal
    BY <1>0, <1>4 DEF Truncate, To
<1>5. ASSUME NEW w \in Writers, Write(w) \/ WriteFails(w) PROVE Goal
    <2>1. TextOf[w] \in Policies
        OBVIOUS
    <2>2. /\ file' \in Policies \cup {Broken}
          /\ written' = written \/ written' = written \cup {TextOf[w]}
        BY <1>0, <1>5, <2>1 DEF Write, WriteFails, Leftovers
    <2>3. IsFiniteSet(written') /\ written' \subseteq Policies
        <3>1. IsFiniteSet(written \cup {TextOf[w]})
            BY <1>0, FS_AddElement
        <3> HIDE DEF TypeOKStore, Versions
        <3> QED BY <1>0, <2>1, <2>2, <3>1
    <2>4. phase' \in [Reloaders -> Phases] /\ \A b \in Reloaders : phase'[b] = "assign" => phase[b] = "assign"
        BY <1>0, <1>5 DEF Write, WriteFails, To
    <2>5. unread' \in BOOLEAN /\ torn' \in BOOLEAN
        BY <1>0, <1>5 DEF Write, WriteFails
    <2>6. UNCHANGED <<backups, taken, second, engine, loaded, found, up, edits, crashes, doubt>>
        BY <1>5 DEF Write, WriteFails
    <2> QED BY <1>0, <2>2, <2>3, <2>4, <2>5, <2>6
<1>6. ASSUME NEW a \in Reloaders, Load(a) PROVE Goal
    <2>1. /\ phase' \in [Reloaders -> Phases] /\ loaded' \in [Reloaders -> Policies \cup {NoText}]
          /\ unread' \in BOOLEAN
          /\ \A b \in Reloaders : phase'[b] = "assign" => loaded'[b] # NoText
        <3>1. CASE file = Broken
            BY <1>0, <1>6, <3>1 DEF Load, To
        <3>2. CASE file # Broken
            <4>1. phase' = [phase EXCEPT ![a] = "assign"] /\ loaded' = [loaded EXCEPT ![a] = file]
                BY <1>6, <3>2 DEF Load, To
            <4>2. file \in Policies /\ file # NoText
                BY <1>0, <3>2
            <4> QED BY <1>0, <1>6, <3>2, <4>1, <4>2 DEF Load
        <3> QED BY <3>1, <3>2
    <2> QED BY <1>0, <1>6, <2>1 DEF Load
<1>7. ASSUME NEW a \in Reloaders, LoadFails(a) PROVE Goal
    BY <1>0, <1>7 DEF LoadFails, To
<1>8. ASSUME NEW a \in Reloaders, Assign(a) PROVE Goal
    <2>1. loaded[a] \in Policies
        BY <1>0, <1>8 DEF Assign
    <2>2. [policy |-> loaded[a], by |-> a] \in Entries
        BY <2>1 DEF Entries
    <2>3. lineage' = Append(lineage, [policy |-> loaded[a], by |-> a])
        BY <1>8 DEF Assign
    <2>4. /\ lineage' \in Seq(Entries) /\ Len(lineage') = Len(lineage) + 1
          /\ lineage'[Len(lineage')].policy = loaded[a]
        BY <2>2, <2>3, LineageGrows
    <2>5. live' = loaded[a] /\ phase' = [phase EXCEPT ![a] = "find"]
        BY <1>8 DEF Assign, To
    <2>6. torn' \in BOOLEAN
        BY <1>0, <1>8 DEF Assign
    <2>7. UNCHANGED <<disk, second, version, named, loaded, found, up, edits, crashes, doubt, unread>>
        BY <1>8 DEF Assign
    <2>8. named' \in 1 .. Len(lineage')
        BY <1>0, <2>4, <2>7
    <2>9. TypeOKStore'
        BY <1>0, <2>1, <2>5, <2>6, <2>7, <2>8
    <2> QED BY <1>0, <2>4, <2>5, <2>7, <2>9
<1>9. ASSUME NEW a \in Reloaders, Find(a) PROVE Goal
    <2>1. found' \in [Reloaders -> Versions]
        <3>1. live \in Versioned => VersionOf[live] \in Versions
            OBVIOUS
        <3> QED BY <1>0, <1>9, <3>1 DEF Find
    <2>2. phase' \in [Reloaders -> Phases] /\ \A b \in Reloaders : phase'[b] = "assign" => phase[b] = "assign"
        BY <1>0, <1>9 DEF Find, To
    <2>3. /\ UNCHANGED <<file, backups, second, live, loaded, named, edits, crashes, doubt, up, unread, torn>>
          /\ UNCHANGED <<version, lineage, written, taken>>
        BY <1>9 DEF Find
    <2>4. TypeOKStore'
        <3>1. {version'} \cup {found'[b] : b \in Reloaders} \subseteq Versions
            <4> HIDE DEF TypeOKStore, Versions
            <4> QED BY <1>0, <2>1, <2>3
        <3>2. \A b \in Reloaders : phase'[b] = "assign" => loaded'[b] # NoText
            BY <1>0, <2>2, <2>3
        <3> QED BY <1>0, <2>2, <2>3, <3>1, <3>2
    <2> HIDE DEF TypeOKStore, Versions
    <2> QED BY <1>0, <2>1, <2>3, <2>4
<1>10. ASSUME NEW a \in Reloaders, SetVersion(a) PROVE Goal
    <2>1. /\ UNCHANGED <<file, backups, second, live, loaded, found, edits, crashes, up, unread, torn>>
          /\ UNCHANGED <<lineage, written, taken>>
        BY <1>10 DEF SetVersion
    <2>2. /\ phase' \in [Reloaders -> Phases] /\ \A b \in Reloaders : phase'[b] = "assign" => phase[b] = "assign"
          /\ doubt' \in {"none", "mending", "some"}
        BY <1>0, <1>10 DEF SetVersion, To
    <2>3. version' = found[a] /\ named' = Len(lineage)
        BY <1>10 DEF SetVersion
    <2>4. version' \in Versions /\ named' \in 1 .. Len(lineage')
        <3> HIDE DEF Versions
        <3> QED BY <1>0, <2>1, <2>3
    <2>5. TypeOKStore'
        <3>1. {version'} \cup {found'[b] : b \in Reloaders} \subseteq Versions
            <4> HIDE DEF TypeOKStore, Versions
            <4> QED BY <1>0, <2>1, <2>4
        <3> QED BY <1>0, <2>1, <2>2, <2>4, <3>1
    <2> HIDE DEF TypeOKStore, Versions
    <2> QED BY <1>0, <2>1, <2>4, <2>5
<1>11. CASE Tick
    BY <1>0, <1>11 DEF Tick, Seconds
<1>12. ASSUME NEW t \in Texts \cup {Broken}, Edit(t) PROVE Goal
    <2>1. /\ UNCHANGED <<backups, second, live, version, loaded, found, named, crashes, doubt, up, torn, phase>>
          /\ UNCHANGED <<lineage, written, taken>>
        BY <1>12 DEF Edit
    <2>2. file' \in Policies \cup {Broken} /\ unread' \in BOOLEAN
        BY <1>12 DEF Edit
    <2>3. edits' \in Nat /\ edits' \in 0 .. MaxEdits
        BY <1>0, <1>12 DEF Edit
    <2>4. TypeOKStore'
        BY <1>0, <2>1, <2>2, <2>3
    <2> HIDE DEF TypeOKStore, Versions
    <2> QED BY <1>0, <2>1, <2>3, <2>4
<1>13. CASE Crash
    <2>0. Die
        BY <1>13 DEF Crash
    <2>1. phase' \in [Reloaders -> Phases] /\ \A a \in Reloaders : phase'[a] # "assign"
        BY <1>0, <2>0 DEF Die
    <2>2. crashes' \in 0 .. MaxCrashes
        <3>1. crashes \in 0 .. MaxCrashes /\ crashes < MaxCrashes /\ crashes' = crashes + 1
            BY <1>0, <2>0 DEF Die
        <3> QED BY <3>1
    <2>3. up' \in BOOLEAN /\ torn' \in BOOLEAN
        BY <2>0 DEF Die
    <2> QED BY <1>0, <2>0, <2>1, <2>2, <2>3 DEF Die
<1>14. CASE Boot
    <2>1. file \in Policies /\ VersionOf[file] \in Versions
        BY <1>14 DEF Boot
    <2>2. [policy |-> file, by |-> NoText] \in Entries
        BY <2>1 DEF Entries
    <2>3. lineage' = Append(lineage, [policy |-> file, by |-> NoText])
        BY <1>14 DEF Boot
    <2>4. /\ lineage' \in Seq(Entries) /\ Len(lineage') = Len(lineage) + 1
          /\ lineage'[Len(lineage')].policy = file
        BY <2>2, <2>3, LineageGrows
    <2>5. TypeOKStore'
        <3>1. /\ live' = file /\ version' = VersionOf[file] /\ doubt' = "none"
              /\ up' = TRUE /\ unread' = FALSE /\ named' = Len(lineage')
              /\ UNCHANGED <<file, backups, second, phase, loaded, found, edits, crashes, torn>>
            BY <1>14 DEF Boot
        <3>2. {version'} \cup {found'[a] : a \in Reloaders} \subseteq Versions
            BY <1>0, <2>1, <3>1
        <3>3. named' \in 1 .. Len(lineage')
            BY <1>0, <2>4, <3>1
        <3> QED BY <1>0, <2>1, <3>1, <3>2, <3>3
    <2>6. live' = file /\ version' = VersionOf[file] /\ UNCHANGED <<written, found, edits, taken>>
        BY <1>14 DEF Boot
    <2>7. found' \in [Reloaders -> Versions] /\ version' \in Versions
        BY <1>0, <2>1, <2>6
    <2>8. Len(lineage') > 0 /\ Len(lineage') >= Len(lineage) /\ (lineage[Len(lineage)].policy = live)'
        BY <1>0, <2>4, <2>6
    <2>9. written' \subseteq Policies /\ IsFiniteSet(written') /\ edits' \in Nat /\ taken' \in Nat
        BY <1>0, <2>6
    <2> HIDE DEF TypeOKStore, Versions
    <2> QED BY <2>4, <2>5, <2>7, <2>8, <2>9
<1> QED BY <1>1, <1>2, <1>3, <1>4, <1>5, <1>6, <1>7, <1>8, <1>9, <1>10, <1>11, <1>12, <1>13, <1>14,
           StoreCases DEF StoreStep

(* What a step of the system is to one handler: it moves on, and takes the *)
(* loop only if it is free or already the handler's own.                   *)
LEMMA StepMoves ==
    ASSUME TypeOKIdentity, [Next]_vars
    PROVE  \/ step' = step
           \/ \E r \in Requests, s \in InFlight \cup Ended :
                /\ Move(r, s)
                /\ step[r] \in OnLoop \/ LoopFree
           \/ Crash
<1> USE DEF InFlight, Waiting, OnLoop, Ended
<1> DEFINE Moves(r) == \E s \in InFlight \cup Ended : Move(r, s)
<1>1. \A r \in Requests : \A t : Resolved(r, t) => Moves(r)
    BY DEF Resolved
<1>2. \A r \in Requests : \A t : DeviceChecked(r, t) => Moves(r)
    BY <1>1 DEF DeviceChecked
<1>3. \A r \in Requests : Identify(r) \/ Enriched(r) \/ Arrive(r) \/ ReadBody(r) => Moves(r)
    <2> TAKE r \in Requests
    <2>1. Identify(r) => Moves(r)
        BY <1>2 DEF Identify
    <2>2. Enriched(r) => Moves(r)
        BY <1>1 DEF Enriched
    <2>3. Arrive(r) \/ ReadBody(r) => Moves(r)
        BY DEF Arrive, ReadBody
    <2> QED BY <2>1, <2>2, <2>3
<1>4. \A r \in Requests : Touch(r) \/ SetStatus(r) => Moves(r) /\ step[r] \in OnLoop
    <2> TAKE r \in Requests
    <2>1. Touch(r) => Moves(r) /\ step[r] \in OnLoop
        BY <1>2 DEF Touch
    <2>2. SetStatus(r) => Moves(r) /\ step[r] \in OnLoop
        BY DEF SetStatus
    <2> QED BY <2>1, <2>2
<1>5. \A d \in Devices : Enroll(d) => step' = step
    BY DEF Enroll
<1>6. \A d \in Devices, s \in Statuses : WithdrawElsewhere(d, s) => step' = step
    BY DEF WithdrawElsewhere
<1>7. ASSUME NEW r \in Requests, step[r] \in LaterSteps,
             \E s \in {"deciding", "decided", "calling", "answered", "failed"} :
                 Move(r, s) /\ (step[r] = "calling" => s \in Ended /\ LoopFree)
      PROVE Moves(r) /\ (step[r] \in OnLoop \/ LoopFree)
    BY <1>7 DEF LaterSteps
<1> QED BY <1>3, <1>4, <1>5, <1>6, <1>7, IdentityCases DEF IdentityStep

LEMMA AloneStep == TypeOKIdentity /\ Alone /\ [Next]_vars => Alone'
<1> SUFFICES ASSUME TypeOKIdentity, Alone, [Next]_vars PROVE Alone'
    OBVIOUS
<1> USE DEF Alone
<1>1. CASE step' = step
    BY <1>1
<1>2. ASSUME NEW r \in Requests, NEW s \in InFlight \cup Ended, Move(r, s),
             step[r] \in OnLoop \/ LoopFree
      PROVE Alone'
    <2>1. \A q \in Requests : q # r => step'[q] = step[q] /\ step[q] \notin OnLoop
        BY <1>2 DEF TypeOKIdentity, Move, LoopFree
    <2> QED BY <2>1
<1>3. CASE Crash
    BY <1>3 DEF Crash, InFlight, OnLoop
<1> QED BY <1>1, <1>2, <1>3, StepMoves

LEMMA AliveStep ==
    Typed /\ PutsReload /\ Alive /\ [Next]_vars => Alive'
<1> SUFFICES ASSUME Typed, PutsReload, Alive, [Next]_vars, ~up' PROVE Alive'
    BY DEF Alive
<1> USE DEF Alive
<1>0. TypeOKIdentity /\ TypeOKStore
    BY DEF Typed, TypeOK
<1>1. ASSUME Crash PROVE Alive'
    <2>1. \A r \in Requests : step'[r] \notin InFlight
        BY <1>0, <1>1 DEF Crash, TypeOKIdentity, InFlight, OnLoop, Waiting, Ended
    <2>2. \A a \in Reloaders : phase'[a] \in {"idle", "done"}
        BY <1>1 DEF Crash, Die
    <2>3. Active(phase)' = {}
        BY <2>2 DEF Active
    <2> QED BY <2>1, <2>3
<1>2. ASSUME ~Crash PROVE Alive'
    <2>1. ~up
        BY <1>2, StoreCases DEF StoreStep, StartThread, Backup, BackupFails, Truncate, Write, WriteFails,
            Load, LoadFails, Assign, Find, SetVersion, Tick, Edit, Boot
    <2>2. (\A r \in Requests : step[r] \notin InFlight) /\ Active(phase) = {}
        BY <2>1
    <2>3. step' = step
        BY <1>0, <1>2, <2>1, <2>2, StepMoves DEF LoopFree, InFlight
    <2>4. phase' = phase
        <3>1. \A a \in Reloaders : phase[a] \in {"idle", "done"}
            BY <2>2 DEF Active
        <3>2. \A w \in Writers : step[w] # "acting"
            BY <2>2, ControlPlaneAssumption DEF InFlight, OnLoop
        <3>3. \A a \in Threads : ~StartThread(a)
            BY <2>1 DEF StartThread
        <3>4. \A a \in Reloaders : ~Load(a) /\ ~LoadFails(a) /\ ~Assign(a) /\ ~Find(a) /\ ~SetVersion(a)
            BY <3>1 DEF Load, LoadFails, Assign, Find, SetVersion
        <3> QED BY <1>2, <3>2, <3>3, <3>4, StoreCases DEF StoreStep, Tick, Edit, Boot
    <2> QED BY <2>2, <2>3, <2>4 DEF Active
<1> QED BY <1>1, <1>2

LEMMA InputKept == [Next]_vars => scenario' = scenario
BY IdentityCases DEF IdentityStep, Crash, Identify, Enriched, Arrive, ReadBody, Touch, SetStatus,
    Enroll, WithdrawElsewhere

(* Only a PUT in its body is active as a reloader among the handlers. *)
LEMMA PutsStep ==
    ASSUME Typed, PutsReload, [Next]_vars
    PROVE  /\ PutsReload'
           /\ \A r \in Writers : phase'[r] \notin {"idle", "done"} => step'[r] = "acting"
<1> USE PolicyStoreAssumption, ControlPlaneAssumption
<1> DEFINE Acting(r) ==
               phase[r] \notin {"idle", "done"} => step[r] = "acting" /\ input[r].kind = "put"
<1>0. /\ step \in [Requests -> {"new"} \cup InFlight \cup Ended] /\ phase = [a \in Reloaders |-> phase[a]]
      /\ \A w \in Writers : Acting(w)
      /\ scenario' = scenario
    BY InputKept DEF Typed, TypeOK, TypeOKIdentity, TypeOKStore, PutsReload
<1>1. SUFFICES \A w \in Writers : Acting(w)'
    BY <1>0 DEF PutsReload
<1>2. ASSUME UNCHANGED <<phase, step>> PROVE \A w \in Writers : Acting(w)'
    BY <1>0, <1>2
<1>3. ASSUME NEW r \in Requests, PutPolicy(r) PROVE \A w \in Writers : Acting(w)'
    <2>1. r \in Writers /\ step[r] = "acting" /\ input[r].kind = "put"
        BY <1>3 DEF PutPolicy, PutsReload
    <2>2. \A w \in Writers \ {r} : phase'[w] = phase[w] /\ step'[w] = step[w]
        <3>1. \E p : phase' = [phase EXCEPT ![r] = p]
            BY <1>3 DEF PutPolicy, Backup, BackupFails, Truncate, Write, WriteFails, Load, LoadFails, Assign, Find,
                SetVersion, Begin, To
        <3>2. step' = step \/ \E s : step' = [step EXCEPT ![r] = s]
            BY <1>3 DEF PutPolicy, Move
        <3> QED BY <1>0, <3>1, <3>2, ControlPlaneAssumption
    <2>3. step'[r] = "acting" \/ phase'[r] = "done"
        <3>1. step' = step \/ phase'[r] = "done"
            BY <1>0, <1>3, <2>1 DEF PutPolicy, BackupFails, WriteFails, LoadFails, SetVersion, Begin, To
        <3> QED BY <2>1, <3>1
    <2> QED BY <1>0, <2>1, <2>2, <2>3
<1>4. ASSUME NEW r \in Requests, step[r] # "acting" \/ input[r].kind # "put", phase' = phase,
             \E s : Move(r, s)
      PROVE \A w \in Writers : Acting(w)'
    BY <1>0, <1>4 DEF Move
<1>5. ASSUME NEW r \in Requests, ~PutPolicy(r), Request(r) PROVE \A w \in Writers : Acting(w)'
    <2>1. phase' = phase
        BY <1>5 DEF Request, Client, Advance, PutStatus, DecideFirst, DecideLast, Answer
    <2>2. CASE LoopFree /\ (Identify(r) \/ Enriched(r) \/ Arrive(r) \/ ReadBody(r))
        <3>1. step[r] # "acting" /\ \E s : Move(r, s)
            BY <2>2 DEF Identify, Enriched, Arrive, ReadBody, DeviceChecked, Resolved
        <3> QED BY <1>4, <2>1, <3>1
    <2>3. CASE Touch(r)
        <3>1. step[r] # "acting" /\ \E s : Move(r, s)
            BY <2>3 DEF Touch, DeviceChecked, Resolved
        <3> QED BY <1>4, <2>1, <3>1
    <2>4. CASE PutStatus(r)
        <3>1. input[r].kind # "put" /\ \E s : Move(r, s)
            BY <2>4 DEF PutStatus, SetStatus
        <3> QED BY <1>4, <2>1, <3>1
    <2>5. CASE DecideFirst(r) \/ DecideLast(r) \/ Answer(r)
        <3>1. (step[r] # "acting" \/ input[r].kind # "put") /\ \E s : Move(r, s)
            BY <2>5 DEF DecideFirst, DecideLast, Answer
        <3> QED BY <1>4, <2>1, <3>1
    <2> QED BY <1>5, <2>2, <2>3, <2>4, <2>5 DEF Request, Client, Advance
<1>6. ASSUME NEW a \in Threads, Thread(a) PROVE \A w \in Writers : Acting(w)'
    <2>1. \A w \in Writers : phase'[w] = phase[w] /\ step'[w] = step[w]
        BY <1>0, <1>6 DEF Thread, StartThread, Reload, Load, LoadFails, Assign, Find, SetVersion, Begin, To
    <2> QED BY <1>0, <2>1
<1>7. CASE Crash
    BY <1>7 DEF Crash, Die
<1>8. CASE World
    BY <1>2, <1>6, <1>7, <1>8 DEF World, Withdrawn, EnrollDevice, Edited, Edit, Tick, Boot, WithdrawElsewhere, Enroll
<1> QED BY <1>2, <1>3, <1>5, <1>8 DEF Next

LEMMA TypeDecisions ==
    ASSUME Typed, [Next]_vars, Len(lineage') >= Len(lineage), Len(lineage') \in Nat
    PROVE  /\ read' \in [Requests -> SUBSET (1 .. Len(lineage'))]
           /\ event' \in [Requests -> {NoVersion} \cup Versions]
           /\ epoch' \in [Requests -> Nat] /\ \A r \in Requests : epoch'[r] \in 0 .. Len(lineage')
<1> DEFINE Goal ==
           /\ read' \in [Requests -> SUBSET (1 .. Len(lineage'))]
           /\ event' \in [Requests -> {NoVersion} \cup Versions]
           /\ epoch' \in [Requests -> Nat] /\ \A r \in Requests : epoch'[r] \in 0 .. Len(lineage')
<1>0. /\ read \in [Requests -> SUBSET (1 .. Len(lineage))]
      /\ event \in [Requests -> {NoVersion} \cup Versions]
      /\ epoch \in [Requests -> Nat] /\ \A r \in Requests : epoch[r] \in 0 .. Len(lineage)
      /\ named \in 1 .. Len(lineage) /\ version \in Versions
      /\ Len(lineage) \in Nat /\ Len(lineage) > 0
    BY LenProperties DEF Typed, TypeOK, TypeOKStore, Versions
<1>1. read \in [Requests -> SUBSET (1 .. Len(lineage'))] /\ named \in 0 .. Len(lineage)
    BY <1>0
<1>2. CASE UNCHANGED decisions
    BY <1>0, <1>1, <1>2
<1>3. ASSUME NEW r \in Requests, PutPolicy(r) PROVE Goal
    <2>1. epoch' = epoch \/ epoch' = [epoch EXCEPT ![r] = Len(lineage')]
        BY <1>3 DEF PutPolicy
    <2>2. UNCHANGED <<read, event>>
        BY <1>3 DEF PutPolicy
    <2>3. epoch' \in [Requests -> Nat] /\ \A q \in Requests : epoch'[q] \in 0 .. Len(lineage')
        BY <1>0, <2>1
    <2> QED BY <1>0, <1>1, <2>2, <2>3
<1>4. ASSUME NEW r \in Requests, PutStatus(r) PROVE Goal
    <2>1. epoch' = epoch \/ epoch' = [epoch EXCEPT ![r] = named]
        BY <1>4 DEF PutStatus
    <2>2. (event' = event \/ event' = [event EXCEPT ![r] = version]) /\ read' = read
        BY <1>4 DEF PutStatus, LogEvent
    <2>3. event' \in [Requests -> {NoVersion} \cup Versions]
        BY <1>0, <2>2
    <2>4. epoch' \in [Requests -> Nat] /\ \A q \in Requests : epoch'[q] \in 0 .. Len(lineage')
        BY <1>0, <1>1, <2>1
    <2> QED BY <1>0, <1>1, <2>2, <2>3, <2>4
<1>5. ASSUME NEW r \in Requests, DecideFirst(r) \/ DecideLast(r) PROVE Goal
    <2>1. /\ read' = [read EXCEPT ![r] = {Len(lineage)}] \/ read' = [read EXCEPT ![r] = @ \cup {Len(lineage)}]
          /\ epoch' = epoch \/ epoch' = [epoch EXCEPT ![r] = named]
          /\ event' = event /\ lineage' = lineage
        BY <1>5 DEF DecideFirst, DecideLast
    <2>2. read' \in [Requests -> SUBSET (1 .. Len(lineage'))]
        BY <1>0, <1>1, <2>1
    <2>3. epoch' \in [Requests -> Nat] /\ \A q \in Requests : epoch'[q] \in 0 .. Len(lineage')
        BY <1>0, <1>1, <2>1
    <2> QED BY <1>0, <2>1, <2>2, <2>3
<1>6. ASSUME NEW r \in Requests, Answer(r) PROVE Goal
    BY <1>0, <1>1, <1>6 DEF Answer, LogEvent
<1>7. CASE World
    BY <1>2, <1>7 DEF World, Withdrawn, EnrollDevice, Thread, Edited, Crash
<1> QED BY <1>2, <1>3, <1>4, <1>5, <1>6, <1>7 DEF Next, Request, Advance, Client

LEMMA TypeStep == Typed /\ PutsReload /\ [Next]_vars => Typed' /\ PutsReload'
<1> SUFFICES ASSUME Typed, PutsReload, [Next]_vars PROVE Typed' /\ PutsReload'
    OBVIOUS
<1>1. TypeOKIdentity'
    BY TypeIdentity DEF Typed, TypeOK
<1>2. TypeOKStore' /\ Len(lineage') >= Len(lineage) /\ Len(lineage') \in Nat
    BY TypeStore, LenProperties
<1> QED BY <1>1, <1>2, TypeStore, TypeDecisions, PutsStep DEF Typed, TypeOK, Versions

-----------------------------------------------------------------------------
(* Identity: trust is evidenced, and admission is what require_admin asks. *)

(* What a row tells: since holds every device trusted now, for a request   *)
(* in flight, and forgets none.                                            *)
LEMMA WitnessKeeps ==
    ASSUME TypeOKIdentity, Witness(status')
    PROVE  /\ \A q \in Requests : since[q] \subseteq since'[q]
           /\ \A q \in Requests : step[q] \in InFlight =>
                  \A d \in Devices : status'[d] = "trusted" => d \in since'[q]
BY DEF Witness

(* verify's answer, in the words of Evidence. *)
LEMMA VerifiedEvidence ==
    ASSUME TypeOKIdentity, Evidenced, NEW r \in Requests, step[r] \in InFlight,
           settings.trust # "disabled", Verified(r)
    PROVE  Evidence(r)
<1>1. RowStatus(input[r].device) = "trusted"
    BY DEF Verified
<1>2. input[r].device \in Devices /\ status[input[r].device] = "trusted"
    BY <1>1 DEF RowStatus
<1> QED BY <1>2 DEF Verified, Evidence, Evidenced

(* How resolve goes on once it knows whether the device is trusted. *)
LEMMA ResolveOutcome ==
    ASSUME TypeOKIdentity, NEW r \in Requests, NEW t \in BOOLEAN, DeviceChecked(r, t)
    PROVE  /\ \A q \in Requests \ {r} : step'[q] = step[q] /\ trusted'[q] = trusted[q]
           /\ trusted'[r] = t
           /\ step'[r] \in {"failed", "enriching", "reading"}
           /\ settings.trust = "required" /\ ~t => step'[r] = "failed"
           /\ step'[r] = "reading" /\ input[r].kind \in AdminKinds => MayAdminister(r, t)
BY DEF TypeOKIdentity, DeviceChecked, Resolved, Move

LEMMA EvidencedStep == TypeOKIdentity /\ Evidenced /\ [Next]_vars => Evidenced'
<1> SUFFICES ASSUME TypeOKIdentity, Evidenced, [Next]_vars PROVE Evidenced'
    OBVIOUS
<1> USE DEF InFlight, Waiting, OnLoop, Ended, Inside, Resolving
<1>0. scenario' = scenario
    BY InputKept
(* A step of one handler that leaves the table alone. *)
<1>1. ASSUME NEW r \in Requests, status' = status, since' = since,
             \A q \in Requests \ {r} : step'[q] = step[q] /\ trusted'[q] = trusted[q],
             step[r] \in InFlight,
             step'[r] \in {"new"} \cup Resolving => ~trusted'[r],
             settings.trust # "disabled" =>
                 /\ trusted'[r] \/ step'[r] = "touching" => Evidence(r)
                 /\ settings.trust = "required" /\ step'[r] \in Inside => trusted'[r]
      PROVE Evidenced'
    BY <1>0, <1>1 DEF Evidenced, Evidence, User, Bearer
<1>2. CASE UNCHANGED <<identity, step>>
    BY <1>0, <1>2 DEF Evidenced, Evidence, User, Bearer
<1>3. ASSUME UNCHANGED identity, NEW r \in Requests, step[r] \in LaterSteps,
             NEW s \in {"deciding", "decided", "calling", "answered", "failed"}, Move(r, s)
      PROVE Evidenced'
    <2>1. \A q \in Requests \ {r} : step'[q] = step[q]
        BY <1>3 DEF Move, TypeOKIdentity
    <2>2. step'[r] = s /\ step[r] \in Inside
        BY <1>3 DEF Move, TypeOKIdentity, LaterSteps
    <2> QED BY <1>1, <1>3, <2>1, <2>2 DEF Evidenced
<1>4. ASSUME NEW r \in Requests, Identify(r) PROVE Evidenced'
    <2>1. step[r] = "discovering" /\ status' = status /\ since' = since /\ ~trusted[r]
        BY <1>4 DEF Identify, Evidenced
    <2>2. CASE Move(r, "failed") /\ UNCHANGED trusted
        <3>1. step'[r] = "failed" /\ \A q \in Requests \ {r} : step'[q] = step[q]
            BY <2>2 DEF Move, TypeOKIdentity
        <3> QED BY <1>1, <2>1, <2>2, <3>1
    <2>3. CASE settings.trust # "disabled" /\ Verified(r) /\ Move(r, "touching") /\ UNCHANGED trusted
        <3>1. step'[r] = "touching" /\ \A q \in Requests \ {r} : step'[q] = step[q]
            BY <2>3 DEF Move, TypeOKIdentity
        <3>2. Evidence(r)
            BY <2>1, <2>3, VerifiedEvidence
        <3> QED BY <1>1, <2>1, <2>3, <3>1, <3>2
    <2>4. CASE (settings.trust = "disabled" \/ ~Verified(r)) /\ DeviceChecked(r, Verified(r))
        <3>1. Verified(r) \in BOOLEAN
            BY DEF Verified
        <3>2. /\ \A q \in Requests \ {r} : step'[q] = step[q] /\ trusted'[q] = trusted[q]
              /\ trusted'[r] = Verified(r) /\ step'[r] \in {"failed", "enriching", "reading"}
              /\ settings.trust = "required" /\ ~Verified(r) => step'[r] = "failed"
            BY <2>4, <3>1, ResolveOutcome
        <3>3. settings.trust # "disabled" => ~trusted'[r]
            BY <2>4, <3>2
        <3> QED BY <1>1, <2>1, <3>2, <3>3
    <2> QED BY <1>4, <2>2, <2>3, <2>4 DEF Identify
<1>5. ASSUME NEW r \in Requests, Touch(r) PROVE Evidenced'
    <2>1. step[r] = "touching" /\ status' = status /\ since' = since /\ ~trusted[r]
        BY <1>5 DEF Touch, Evidenced
    <2>2. settings.trust # "disabled" => Evidence(r)
        BY <2>1 DEF Evidenced
    <2>3. CASE DeviceChecked(r, TRUE)
        <3>1. /\ \A q \in Requests \ {r} : step'[q] = step[q] /\ trusted'[q] = trusted[q]
              /\ trusted'[r] = TRUE /\ step'[r] \in {"failed", "enriching", "reading"}
            BY <2>3, ResolveOutcome
        <3> QED BY <1>1, <2>1, <2>2, <3>1
    <2>4. CASE Move(r, "failed") /\ UNCHANGED trusted
        <3>1. step'[r] = "failed" /\ \A q \in Requests \ {r} : step'[q] = step[q]
            BY <2>4 DEF Move, TypeOKIdentity
        <3> QED BY <1>1, <2>1, <2>4, <3>1
    <2> QED BY <1>5, <2>3, <2>4 DEF Touch
<1>6. ASSUME NEW r \in Requests, Enriched(r) \/ ReadBody(r) PROVE Evidenced'
    <2>1. step[r] \in Inside /\ UNCHANGED identity
        BY <1>6 DEF Enriched, ReadBody
    <2>2. step'[r] \in {"failed", "reading", "acting"} /\ \A q \in Requests \ {r} : step'[q] = step[q]
        BY <1>6 DEF Enriched, ReadBody, Resolved, Move, TypeOKIdentity
    <2> QED BY <1>1, <2>1, <2>2 DEF Evidenced
<1>7. ASSUME NEW r \in Requests, Arrive(r) PROVE Evidenced'
    <2>1. /\ step[r] = "new" /\ ~trusted[r] /\ status' = status /\ trusted' = trusted
          /\ step'[r] = "discovering" /\ since'[r] = {d \in Devices : status[d] = "trusted"}
          /\ \A q \in Requests \ {r} : step'[q] = step[q] /\ since'[q] = since[q]
        BY <1>7 DEF Arrive, Move, TypeOKIdentity, Evidenced
    <2> QED BY <1>0, <2>1 DEF Evidenced, Evidence, User, Bearer
(* A step that writes the table. *)
<1>8. ASSUME TypeOKIdentity, Witness(status'), trusted' = trusted, NEW r \in Requests,
             \A q \in Requests : step'[q] = step[q] \/ step'[q] \in Ended
      PROVE Evidenced'
    <2>1. /\ \A q \in Requests : since[q] \subseteq since'[q]
          /\ \A q \in Requests : step[q] \in InFlight =>
                  \A d \in Devices : status'[d] = "trusted" => d \in since'[q]
        BY <1>8, WitnessKeeps
    <2> QED BY <1>0, <1>8, <2>1 DEF Evidenced, Evidence, User, Bearer
<1>9. ASSUME NEW r \in Requests, SetStatus(r) PROVE Evidenced'
    <2>1. trusted' = trusted /\ \A q \in Requests : step'[q] = step[q] \/ step'[q] \in Ended
        BY <1>9 DEF SetStatus, Move, TypeOKIdentity
    <2>2. CASE Witness(status')
        BY <1>8, <2>1, <2>2
    <2>3. CASE UNCHANGED <<status, since>>
        BY <1>0, <2>1, <2>3 DEF Evidenced, Evidence, User, Bearer
    <2> QED BY <1>9, <2>2, <2>3 DEF SetStatus, WriteStatus
<1>10. ASSUME NEW d \in Devices, Enroll(d) \/ \E s \in Statuses : WithdrawElsewhere(d, s)
       PROVE Evidenced'
    <2>1. Witness(status') /\ trusted' = trusted /\ step' = step
        BY <1>10 DEF Enroll, InsertRow, WithdrawElsewhere, WriteStatus
    <2>2. CASE \E r \in Requests : TRUE
        BY <1>8, <2>1, <2>2
    <2>3. CASE ~ \E r \in Requests : TRUE
        BY <2>3 DEF Evidenced
    <2> QED BY <2>2, <2>3
<1>11. CASE Crash
    BY <1>0, <1>11 DEF Crash, Evidenced, Evidence, User, Bearer, TypeOKIdentity
<1> QED BY <1>2, <1>3, <1>4, <1>5, <1>6, <1>7, <1>9, <1>10, <1>11, IdentityCases DEF IdentityStep

LEMMA AdmittedStep ==
    TypeOKIdentity /\ Admitted /\ [Next]_vars => Admitted'
<1> SUFFICES ASSUME TypeOKIdentity, Admitted, [Next]_vars PROVE Admitted'
    OBVIOUS
<1> USE DEF InFlight, Waiting, OnLoop, Ended
<1>0. scenario' = scenario
    BY InputKept
<1> DEFINE Let(r, s, t) ==
               /\ s \in InFlight \ {"discovering"} /\ Bearer(r) => input[r].bearer = "valid"
               /\ s \in {"reading", "acting"} /\ input[r].kind \in AdminKinds => MayAdminister(r, t)
<1>1. ASSUME NEW r \in Requests,
             \A q \in Requests \ {r} : step'[q] = step[q] /\ trusted'[q] = trusted[q],
             Let(r, step'[r], trusted'[r])
      PROVE Admitted'
    <2>1. \A q \in Requests : Let(q, step'[q], trusted'[q])
        BY <1>1 DEF Admitted
    <2> QED BY <1>0, <2>1 DEF Admitted, Bearer, MayAdminister
<1>2. ASSUME trusted' = trusted, \A q \in Requests : step'[q] = step[q] \/ step'[q] \in Ended
      PROVE Admitted'
    BY <1>0, <1>2 DEF Admitted, Bearer, MayAdminister
<1>3. ASSUME UNCHANGED identity, NEW r \in Requests, step[r] \in LaterSteps,
             NEW s \in {"deciding", "decided", "calling", "answered", "failed"}, Move(r, s)
      PROVE Admitted'
    <2>1. step'[r] = s /\ \A q \in Requests \ {r} : step'[q] = step[q]
        BY <1>3 DEF Move, TypeOKIdentity
    <2>2. Let(r, s, trusted[r])
        BY <1>3 DEF LaterSteps, Admitted
    <2> QED BY <1>1, <1>3, <2>1, <2>2
<1>4. ASSUME NEW r \in Requests, Identify(r) PROVE Admitted'
    <2>1. CASE Move(r, "failed") /\ UNCHANGED trusted
        BY <1>2, <2>1 DEF Move, TypeOKIdentity
    <2>2. CASE Bearer(r) => input[r].bearer = "valid"
        <3>1. CASE Move(r, "touching") /\ UNCHANGED trusted
            <4>1. step'[r] = "touching" /\ \A q \in Requests \ {r} : step'[q] = step[q]
                BY <3>1 DEF Move, TypeOKIdentity
            <4> QED BY <1>1, <2>2, <3>1, <4>1
        <3>2. CASE DeviceChecked(r, Verified(r))
            <4>1. Verified(r) \in BOOLEAN
                BY DEF Verified
            <4>2. /\ \A q \in Requests \ {r} : step'[q] = step[q] /\ trusted'[q] = trusted[q]
                  /\ trusted'[r] = Verified(r) /\ step'[r] \in {"failed", "enriching", "reading"}
                  /\ step'[r] = "reading" /\ input[r].kind \in AdminKinds => MayAdminister(r, Verified(r))
                BY <3>2, <4>1, ResolveOutcome
            <4> QED BY <1>1, <2>2, <4>2
        <3> QED BY <1>4, <2>1, <3>1, <3>2 DEF Identify
    <2> QED BY <1>4, <2>1, <2>2 DEF Identify
<1>5. ASSUME NEW r \in Requests, Touch(r) PROVE Admitted'
    <2>1. CASE Move(r, "failed") /\ UNCHANGED trusted
        BY <1>2, <2>1 DEF Move, TypeOKIdentity
    <2>2. CASE DeviceChecked(r, TRUE)
        <3>1. /\ \A q \in Requests \ {r} : step'[q] = step[q] /\ trusted'[q] = trusted[q]
              /\ trusted'[r] = TRUE /\ step'[r] \in {"failed", "enriching", "reading"}
              /\ step'[r] = "reading" /\ input[r].kind \in AdminKinds => MayAdminister(r, TRUE)
            BY <2>2, ResolveOutcome
        <3>2. Bearer(r) => input[r].bearer = "valid"
            BY <1>5 DEF Touch, Admitted
        <3> QED BY <1>1, <3>1, <3>2
    <2> QED BY <1>5, <2>1, <2>2 DEF Touch
<1>6. ASSUME NEW r \in Requests, Enriched(r) \/ ReadBody(r) PROVE Admitted'
    <2>1. trusted' = trusted /\ step[r] \in {"enriching", "reading"}
        BY <1>6 DEF Enriched, ReadBody
    <2>2. \A q \in Requests \ {r} : step'[q] = step[q]
        BY <1>6 DEF Enriched, ReadBody, Resolved, Move, TypeOKIdentity
    <2>3. Let(r, step'[r], trusted[r])
        <3>1. Bearer(r) => input[r].bearer = "valid"
            BY <2>1 DEF Admitted
        <3>2. CASE Enriched(r)
            BY <3>1, <3>2 DEF Enriched, Resolved, Move, TypeOKIdentity
        <3>3. CASE ReadBody(r)
            BY <2>1, <3>1, <3>3 DEF ReadBody, Move, TypeOKIdentity, Admitted
        <3> QED BY <1>6, <3>2, <3>3
    <2> QED BY <1>1, <2>1, <2>2, <2>3
<1>7. ASSUME NEW r \in Requests, Arrive(r) PROVE Admitted'
    <2>1. /\ trusted' = trusted /\ step'[r] = "discovering"
          /\ \A q \in Requests \ {r} : step'[q] = step[q]
        BY <1>7 DEF Arrive, Move, TypeOKIdentity
    <2> QED BY <1>1, <2>1
<1>8. ASSUME NEW r \in Requests, SetStatus(r) PROVE Admitted'
    BY <1>2, <1>8 DEF SetStatus, Move, TypeOKIdentity
<1>9. ASSUME NEW d \in Devices, Enroll(d) \/ \E s \in Statuses : WithdrawElsewhere(d, s)
      PROVE Admitted'
    BY <1>2, <1>9 DEF Enroll, WithdrawElsewhere
<1>10. CASE Crash
    BY <1>2, <1>10 DEF Crash, TypeOKIdentity
<1>11. CASE UNCHANGED <<identity, step>>
    BY <1>2, <1>11
<1> QED BY <1>3, <1>4, <1>5, <1>6, <1>7, <1>8, <1>9, <1>10, <1>11, IdentityCases DEF IdentityStep

LEMMA IdentityInit == Init => Alone /\ Alive /\ Evidenced /\ Admitted
BY DEF Init, InitIdentity, InitStore, Alone, Alive, Evidenced, Admitted, InFlight, OnLoop, Waiting,
    Resolving, Inside

-----------------------------------------------------------------------------
(* Decisions and the policies in force.                                    *)

(* The history of policies grows by one entry or none, and who adds it is  *)
(* a thread, a PUT that holds the loop, or a boot.                         *)
LEMMA LineageCases ==
    ASSUME Typed, PutsReload, [Next]_vars
    PROVE  \/ UNCHANGED <<lineage, live>>
           \/ \E x \in Entries :
                /\ lineage' = Append(lineage, x) /\ live' = x.policy
                /\ \/ x.by \in Threads
                   \/ x.by \in Writers /\ step[x.by] = "acting"
                   \/ ~up
<1>0. TypeOKStore /\ \A w \in Writers : phase[w] \notin {"idle", "done"} => step[w] = "acting"
    BY DEF Typed, TypeOK
<1> DEFINE Goal ==
           \E x \in Entries :
                /\ lineage' = Append(lineage, x) /\ live' = x.policy
                /\ \/ x.by \in Threads
                   \/ x.by \in Writers /\ step[x.by] = "acting"
                   \/ ~up
<1>1. ASSUME NEW a \in Reloaders, Assign(a) PROVE Goal
    <2> DEFINE x == [policy |-> loaded[a], by |-> a]
    <2>1. x \in Entries
        BY <1>0, <1>1 DEF Assign, Entries, TypeOKStore
    <2>2. lineage' = Append(lineage, x) /\ live' = x.policy
        BY <1>1 DEF Assign
    <2>3. x.by \in Threads \/ (x.by \in Writers /\ step[x.by] = "acting")
        BY <1>0, <1>1 DEF Assign
    <2> QED BY <2>1, <2>2, <2>3
<1>2. ASSUME Boot PROVE Goal
    <2> DEFINE x == [policy |-> file, by |-> NoText]
    <2>1. x \in Entries
        BY <1>2, PolicyStoreAssumption DEF Boot, Entries
    <2>2. lineage' = Append(lineage, x) /\ live' = x.policy /\ ~up
        BY <1>2 DEF Boot
    <2> QED BY <2>1, <2>2
<1> QED BY <1>1, <1>2, StoreCases DEF StoreStep, StartThread, Backup, BackupFails, Truncate, Write, WriteFails,
        Load, LoadFails, Find, SetVersion, Tick, Edit, Crash, Die

(* Only decide reads the policy for a decision. *)
LEMMA DecisionCases ==
    ASSUME TypeOKIdentity, [Next]_vars
    PROVE  \/ \E r \in Requests : DecideFirst(r) \/ DecideLast(r)
           \/ /\ read' = read
              /\ \A q \in Requests : step'[q] = "deciding" => step[q] = "deciding"
<1> DEFINE Goal ==
        /\ read' = read
        /\ \A q \in Requests : step'[q] = "deciding" => step[q] = "deciding"
<1>1. ASSUME UNCHANGED read, NEW r \in Requests, NEW s, Move(r, s), s # "deciding" PROVE Goal
    BY <1>1 DEF Move, TypeOKIdentity
<1>2. ASSUME UNCHANGED <<read, step>> PROVE Goal
    BY <1>2
<1>3. ASSUME NEW r \in Requests, PutPolicy(r) PROVE Goal
    <2>1. read' = read /\ (step' = step \/ \E s \in {"failed", "decided"} : Move(r, s))
        BY <1>3 DEF PutPolicy
    <2> QED BY <1>1, <1>2, <2>1
<1>4. ASSUME NEW r \in Requests, PutStatus(r) PROVE Goal
    <2>1. read' = read /\ \E s \in {"failed", "answered"} : Move(r, s)
        BY <1>4 DEF PutStatus, SetStatus
    <2> QED BY <1>1, <2>1
<1>5. ASSUME NEW r \in Requests, Answer(r) PROVE Goal
    BY <1>1, <1>5 DEF Answer
<1>6. ASSUME NEW r \in Requests, Identify(r) \/ Touch(r) \/ Enriched(r) \/ Arrive(r) \/ ReadBody(r),
             UNCHANGED decisions
      PROVE Goal
    <2>1. \E s : Move(r, s) /\ s # "deciding"
        <3>1. \A t : Resolved(r, t) => \E s : Move(r, s) /\ s # "deciding"
            BY DEF Resolved
        <3>2. \A t : DeviceChecked(r, t) => \E s : Move(r, s) /\ s # "deciding"
            BY <3>1 DEF DeviceChecked
        <3>3. Identify(r) \/ Touch(r) => \E s : Move(r, s) /\ s # "deciding"
            <4>1. Identify(r) => \/ \E s \in {"failed", "touching"} : Move(r, s)
                                 \/ DeviceChecked(r, Verified(r))
                BY DEF Identify
            <4>2. Touch(r) => Move(r, "failed") \/ DeviceChecked(r, TRUE)
                BY DEF Touch
            <4>3. \A s \in {"failed", "touching"} : Move(r, s) => \E m : Move(r, m) /\ m # "deciding"
                OBVIOUS
            <4>4. DeviceChecked(r, Verified(r)) => \E m : Move(r, m) /\ m # "deciding"
                BY <3>2
            <4>5. DeviceChecked(r, TRUE) => \E m : Move(r, m) /\ m # "deciding"
                BY <3>2
            <4> QED BY <4>1, <4>2, <4>3, <4>4, <4>5
        <3>4. Enriched(r) \/ Arrive(r) \/ ReadBody(r) => \E s : Move(r, s) /\ s # "deciding"
            BY <3>1 DEF Enriched, Arrive, ReadBody
        <3> QED BY <1>6, <3>3, <3>4
    <2> QED BY <1>1, <1>6, <2>1
<1>7. CASE Crash
    BY <1>7 DEF Crash, TypeOKIdentity
<1>8. CASE World
    BY <1>2, <1>7, <1>8 DEF World, Withdrawn, WithdrawElsewhere, EnrollDevice, Enroll, Thread, Edited
<1> QED BY <1>2, <1>3, <1>4, <1>5, <1>6, <1>8 DEF Next, Request, Advance, Client

(* The history of what threads put in force between two places stays.      *)
LEMMA MixedStep ==
    ASSUME Typed, PutsReload, Alone, Alive, Mixed, [Next]_vars
    PROVE  Mixed'
<1> USE DEF OnLoop, InFlight
<1>0. /\ TypeOKIdentity /\ scenario' = scenario
      /\ read \in [Requests -> SUBSET (1 .. Len(lineage))]
      /\ Len(lineage) \in Nat /\ Len(lineage) > 0
    BY InputKept, LenProperties DEF Typed, TypeOK
(* A step that leaves the history alone; r's reading is what it gives. *)
<1>1. ASSUME NEW r \in Requests, UNCHANGED lineage,
             \A q \in Requests \ {r} : step'[q] = step[q] /\ read'[q] = read[q],
             input[r].kind \in {"web", "chat"},
             step'[r] = "deciding" => read'[r] = {Len(lineage)},
             \A i, j \in read'[r] : \A k \in i + 1 .. j : lineage[k].by \in Threads
      PROVE Mixed'
    <2>1. step'[r] = "deciding" => \E i \in 1 .. Len(lineage) :
              read'[r] = {i} /\ \A k \in i + 1 .. Len(lineage) : lineage[k].by \in Threads
        <3>1. Len(lineage) \in 1 .. Len(lineage)
            BY <1>0
        <3>2. \A k \in Len(lineage) + 1 .. Len(lineage) : lineage[k].by \in Threads
            BY <1>0
        <3> QED BY <1>1, <3>1, <3>2
    <2>2. \A q \in Requests \ {r} :
              /\ read'[q] # {} => input[q].kind \in {"web", "chat"}
              /\ step'[q] = "deciding" => \E i \in 1 .. Len(lineage) :
                     read'[q] = {i} /\ \A k \in i + 1 .. Len(lineage) : lineage[k].by \in Threads
              /\ \A i, j \in read'[q] : \A k \in i + 1 .. j : lineage[k].by \in Threads
        BY <1>1 DEF Mixed, MixedByThread
    <2>3. (input' = input) /\ lineage' = lineage
        BY <1>0, <1>1
    <2> QED BY <1>1, <2>1, <2>2, <2>3 DEF Mixed, MixedByThread
<1>2. ASSUME NEW r \in Requests, DecideFirst(r) PROVE Mixed'
    <2>1. UNCHANGED lineage /\ input[r].kind \in {"web", "chat"} /\ read' = [read EXCEPT ![r] = {Len(lineage)}]
        BY <1>2 DEF DecideFirst
    <2>2. \A q \in Requests \ {r} : step'[q] = step[q] /\ read'[q] = read[q]
        BY <1>0, <1>2, <2>1 DEF DecideFirst, Move, TypeOKIdentity
    <2>3. read'[r] = {Len(lineage)}
        BY <1>0, <2>1
    <2>4. \A i, j \in read'[r] : \A k \in i + 1 .. j : lineage[k].by \in Threads
        BY <1>0, <2>3
    <2> QED BY <1>1, <2>1, <2>2, <2>3, <2>4
<1>3. ASSUME NEW r \in Requests, DecideLast(r) PROVE Mixed'
    <2>1. step[r] = "deciding" /\ UNCHANGED lineage /\ read' = [read EXCEPT ![r] = @ \cup {Len(lineage)}]
        BY <1>3 DEF DecideLast
    <2>2. step'[r] # "deciding" /\ \A q \in Requests \ {r} : step'[q] = step[q] /\ read'[q] = read[q]
        BY <1>0, <1>3, <2>1 DEF DecideLast, Move, TypeOKIdentity
    <2>3. PICK i \in 1 .. Len(lineage) :
              read[r] = {i} /\ \A k \in i + 1 .. Len(lineage) : lineage[k].by \in Threads
        BY <2>1 DEF Mixed
    <2>4. read'[r] = {i, Len(lineage)}
        BY <1>0, <2>1, <2>3
    <2>5. \A j, l \in read'[r] : \A k \in j + 1 .. l : lineage[k].by \in Threads
        BY <1>0, <2>3, <2>4
    <2>6. input[r].kind \in {"web", "chat"}
        BY <2>3 DEF Mixed
    <2> QED BY <1>1, <2>1, <2>2, <2>5, <2>6
(* A step in which nobody reads. *)
<1>4. ASSUME read' = read, \A q \in Requests : step'[q] = "deciding" => step[q] = "deciding" PROVE Mixed'
    <2>1. CASE UNCHANGED lineage
        BY <1>0, <1>4, <2>1 DEF Mixed, MixedByThread
    <2>2. ASSUME NEW x \in Entries, lineage' = Append(lineage, x),
                 x.by \in Threads \/ (x.by \in Writers /\ step[x.by] = "acting") \/ ~up
          PROVE Mixed'
        <3>1. /\ Len(lineage') = Len(lineage) + 1 /\ lineage'[Len(lineage')] = x
              /\ \A i \in 1 .. Len(lineage) : lineage'[i] = lineage[i]
            BY <2>2, LineageGrows
        <3>2. ASSUME NEW q \in Requests, step[q] = "deciding" PROVE x.by \in Threads
            BY <2>2, <3>2, ControlPlaneAssumption DEF Alone, Alive
        <3>3. ASSUME NEW q \in Requests, step'[q] = "deciding"
              PROVE  \E i \in 1 .. Len(lineage') :
                         read'[q] = {i} /\ \A k \in i + 1 .. Len(lineage') : lineage'[k].by \in Threads
            <4>1. step[q] = "deciding"
                BY <1>4, <3>3
            <4>2. PICK i \in 1 .. Len(lineage) :
                      read[q] = {i} /\ \A k \in i + 1 .. Len(lineage) : lineage[k].by \in Threads
                BY <4>1 DEF Mixed
            <4>3. \A k \in i + 1 .. Len(lineage') : lineage'[k].by \in Threads
                <5> TAKE k \in i + 1 .. Len(lineage')
                <5>1. CASE k = Len(lineage')
                    BY <3>1, <3>2, <4>1, <5>1
                <5>2. CASE k # Len(lineage')
                    BY <1>0, <3>1, <4>2, <5>2
                <5> QED BY <5>1, <5>2
            <4>4. i \in 1 .. Len(lineage') /\ read'[q] = {i}
                BY <1>0, <1>4, <3>1, <4>2
            <4> QED BY <4>3, <4>4
        <3>4. ASSUME NEW q \in Requests, NEW i \in read'[q], NEW j \in read'[q], NEW k \in i + 1 .. j
              PROVE  lineage'[k].by \in Threads
            <4>1. i \in read[q] /\ j \in read[q] /\ k \in 1 .. Len(lineage)
                BY <1>0, <1>4, <3>4
            <4>2. lineage[k].by \in Threads
                BY <3>4, <4>1 DEF Mixed, MixedByThread
            <4> QED BY <3>1, <4>1, <4>2
        <3>5. \A q \in Requests : read'[q] # {} => input'[q].kind \in {"web", "chat"}
            BY <1>0, <1>4 DEF Mixed
        <3> QED BY <3>3, <3>4, <3>5 DEF Mixed, MixedByThread
    <2> QED BY <2>1, <2>2, LineageCases
<1> QED BY <1>0, <1>2, <1>3, <1>4, DecisionCases

-----------------------------------------------------------------------------
(* Reloads: what one that runs alone leaves behind.                        *)

(* While no reload overlaps, an active reloader is the only one. *)
LEMMA Sole ==
    ASSUME TypeOKStore, AloneReload, doubt # "some", NEW a \in Reloaders, phase[a] \notin {"idle", "done"}
    PROVE  \A b \in Reloaders \ {a} : phase[b] \in {"idle", "done"}
BY DEF AloneReload, Active

(* A reloader that begins without causing doubt is the only one. *)
LEMMA BeginsAlone ==
    ASSUME TypeOKStore, NEW a \in Reloaders, NEW p, Begin(a, p), doubt' # "some"
    PROVE  /\ phase' = [phase EXCEPT ![a] = p]
           /\ \A b \in Reloaders : phase[b] \in {"idle", "done"}
           /\ doubt' = "none" => doubt = "none"
<1>1. Active(phase) = {} /\ phase' = [phase EXCEPT ![a] = p]
    BY DEF Begin, To
<1>2. \A b \in Reloaders : phase[b] \in {"idle", "done"}
    BY <1>1 DEF Active
<1>3. doubt' = "none" => doubt = "none"
    BY <1>1 DEF Begin
<1> QED BY <1>1, <1>2, <1>3

(* A file that does not parse is the operator's, or of a PUT that failed. *)
LEMMA BrokenIsUnreadStep ==
    ASSUME TypeOKStore, PutsReload, BrokenIsUnread, [Next]_vars
    PROVE  BrokenIsUnread'
<1> USE PolicyStoreAssumption DEF BrokenIsUnread
<1>1. \A w \in Writers : TextOf[w] # Broken
    OBVIOUS
<1> QED BY <1>1, StoreCases DEF StoreStep, StartThread, Backup, Truncate, Write, Load, Assign, Find,
        SetVersion, Tick, Edit, Crash, Die, Boot, BackupFails, WriteFails, LoadFails

LEMMA AloneReloadStep ==
    ASSUME TypeOKStore, found \in [Reloaders -> Versions],
           PutsReload, Alive, AloneReload, [Next]_vars
    PROVE  AloneReload'
<1> SUFFICES ASSUME doubt' # "some"
             PROVE  /\ \A a, b \in Active(phase') : a = b
                    /\ \A a \in Reloaders :
                        /\ phase'[a] = "set" => live' \in Versioned /\ found'[a] = VersionOf[live']
                        /\ ~unread' /\ phase'[a] = "assign" => loaded'[a] = file'
                        /\ ~unread' /\ phase'[a] \in {"find", "set"} => live' = file'
    BY DEF AloneReload, Active
<1> DEFINE Goal ==
        /\ \A a, b \in Active(phase') : a = b
        /\ \A a \in Reloaders :
                        /\ phase'[a] = "set" => live' \in Versioned /\ found'[a] = VersionOf[live']
                        /\ ~unread' /\ phase'[a] = "assign" => loaded'[a] = file'
                        /\ ~unread' /\ phase'[a] \in {"find", "set"} => live' = file'
<1>1. ASSUME NEW a \in Reloaders, \A b \in Reloaders \ {a} : phase'[b] \in {"idle", "done"},
             phase'[a] = "set" => live' \in Versioned /\ found'[a] = VersionOf[live'],
             ~unread' /\ phase'[a] = "assign" => loaded'[a] = file',
             ~unread' /\ phase'[a] \in {"find", "set"} => live' = file'
      PROVE Goal
    BY <1>1 DEF Active
<1>2. ASSUME NEW a \in Reloaders, NEW p \in {"load", "truncate", "done"}, Begin(a, p) PROVE Goal
    <2>1. phase' = [phase EXCEPT ![a] = p] /\ \A b \in Reloaders : phase[b] \in {"idle", "done"}
        BY <1>2, BeginsAlone
    <2>2. phase'[a] = p /\ \A b \in Reloaders \ {a} : phase'[b] \in {"idle", "done"}
        BY <2>1 DEF TypeOKStore
    <2> QED BY <1>1, <2>2
<1>3. ASSUME NEW a \in Reloaders, NEW p, phase[a] \notin {"idle", "done"}, phase' = [phase EXCEPT ![a] = p],
             doubt # "some"
      PROVE phase'[a] = p /\ \A b \in Reloaders \ {a} : phase'[b] \in {"idle", "done"}
    BY <1>3, Sole DEF TypeOKStore
<1>4. ASSUME NEW w \in Writers, Truncate(w) \/ Write(w) \/ WriteFails(w) PROVE Goal
    <2>1. phase'[w] \in {"write", "load", "done"} /\ \A b \in Reloaders \ {w} : phase'[b] \in {"idle", "done"}
        BY <1>3, <1>4 DEF Truncate, Write, WriteFails, To
    <2> QED BY <1>1, <2>1
<1>5. ASSUME NEW a \in Reloaders, Load(a) \/ LoadFails(a) PROVE Goal
    <2>1. phase'[a] \in {"done", "assign"} /\ \A b \in Reloaders \ {a} : phase'[b] \in {"idle", "done"}
        BY <1>3, <1>5 DEF Load, LoadFails, To
    <2>2. phase'[a] = "assign" => loaded'[a] = file' /\ file' = file
        BY <1>3, <1>5, <2>1 DEF Load, LoadFails, To, TypeOKStore
    <2> QED BY <1>1, <2>1, <2>2
<1>6. ASSUME NEW a \in Reloaders, Assign(a) PROVE Goal
    <2>1. phase'[a] = "find" /\ \A b \in Reloaders \ {a} : phase'[b] \in {"idle", "done"}
        BY <1>3, <1>6 DEF Assign, To
    <2>2. ~unread' => live' = file'
        BY <1>6 DEF Assign, AloneReload
    <2> QED BY <1>1, <2>1, <2>2
<1>7. ASSUME NEW a \in Reloaders, Find(a) PROVE Goal
    <2>1. phase'[a] \in {"set", "done"} /\ \A b \in Reloaders \ {a} : phase'[b] \in {"idle", "done"}
        BY <1>3, <1>7 DEF Find, To
    <2>2. phase'[a] = "set" => live' \in Versioned /\ found'[a] = VersionOf[live']
        BY <1>3, <1>7 DEF Find, To
    <2>3. ~unread' => live' = file'
        BY <1>7 DEF Find, AloneReload
    <2> QED BY <1>1, <2>1, <2>2, <2>3
<1>8. ASSUME NEW a \in Reloaders, SetVersion(a) PROVE Goal
    <2>1. phase'[a] = "done" /\ \A b \in Reloaders \ {a} : phase'[b] \in {"idle", "done"}
        BY <1>3, <1>8 DEF SetVersion, To
    <2> QED BY <1>1, <2>1
<1>9. CASE UNCHANGED <<file, live, phase, loaded, found, doubt, unread>>
    BY <1>9 DEF AloneReload, Active
<1>10. ASSUME NEW t, Edit(t) PROVE Goal
    BY <1>10 DEF Edit, AloneReload, Active
<1>11. CASE Active(phase') = {}
    BY <1>11 DEF Active
<1>12. CASE Crash
    <2>1. \A a \in Reloaders : phase'[a] \in {"idle", "done"}
        BY <1>12 DEF Crash, Die
    <2> QED BY <1>11, <2>1 DEF Active
<1>13. CASE Boot
    BY <1>11, <1>13 DEF Boot, Alive
<1> QED BY <1>2, <1>4, <1>5, <1>6, <1>7, <1>8, <1>9, <1>10, <1>12, <1>13, StoreCases
        DEF StoreStep, StartThread, Backup, BackupFails, Tick

(* Names is about places that the history keeps. *)
LEMMA NamesKept ==
    ASSUME Typed, UNCHANGED <<version, named>>, Names(version, named),
           UNCHANGED lineage \/ \E x \in Entries : lineage' = Append(lineage, x)
    PROVE  Names(version, named)'
<1>1. named \in 1 .. Len(lineage)
    BY DEF Typed, TypeOK, TypeOKStore
<1>2. lineage'[named] = lineage[named]
    BY <1>1, LineageGrows
<1> QED BY <1>2 DEF Names

LEMMA SettledStep ==
    ASSUME Typed, PutsReload, Alive, BrokenIsUnread, AloneReload, Settled, [Next]_vars
    PROVE  Settled'
<1> USE PolicyStoreAssumption
<1>0. /\ TypeOKStore /\ Len(lineage) \in Nat /\ Len(lineage) > 0 /\ lineage[Len(lineage)].policy = live
      /\ named \in 1 .. Len(lineage)
    BY LenProperties DEF Typed, TypeOK, TypeOKStore
<1> DEFINE Between == \E a \in Reloaders : phase[a] \in {"find", "set"}
           Unnamed == \A i \in named + 1 .. Len(lineage) :
                          lineage[i].policy \notin Versioned \/ (i = Len(lineage) /\ Between)
           Current == unread \/ live = file \/ \E a \in Reloaders : Fresh(a)
           Goal    == Names(version, named)' /\ Unnamed' /\ Current'
<1> SUFFICES ASSUME up', doubt' = "none" PROVE Goal
    BY DEF Settled, Fresh
<1>1. up /\ doubt = "none" => Names(version, named) /\ Unnamed /\ Current
    BY DEF Settled
(* What most steps leave alone. *)
<1>2. ASSUME UNCHANGED <<up, doubt, version, named, lineage>>, Between => Between'
      PROVE Names(version, named)' /\ Unnamed'
    BY <1>1, <1>2, NamesKept
(* The only active reloader is not between its assignments. *)
<1>3. ASSUME NEW a \in Reloaders, phase[a] \notin {"idle", "done", "find", "set"}, doubt # "some" PROVE ~Between
    BY <1>0, <1>3, Sole
<1>4. ASSUME NEW a \in Reloaders, NEW p \in {"load", "truncate", "done"}, Begin(a, p),
             UNCHANGED <<up, version, named, lineage, live, file, unread>>
      PROVE Goal
    <2>1. doubt = "none" /\ \A b \in Reloaders : phase[b] \in {"idle", "done"}
        BY <1>0, <1>4, BeginsAlone
    <2>2. ~Between /\ \A b \in Reloaders : ~Fresh(b)
        BY <2>1 DEF Fresh
    <2> QED BY <1>1, <1>2, <1>4, <2>1, <2>2
<1>5. ASSUME NEW a \in Reloaders, phase[a] \notin {"idle", "done", "find", "set"},
             UNCHANGED <<up, doubt, version, named, lineage>>, Current'
      PROVE Goal
    <2>1. ~Between
        BY <1>3, <1>5
    <2> QED BY <1>2, <1>5, <2>1
<1>6. ASSUME NEW a \in Reloaders, phase[a] \notin {"idle", "done"}, ~Fresh(a), doubt # "some"
      PROVE \A b \in Reloaders : ~Fresh(b)
    BY <1>0, <1>6, Sole DEF Fresh
<1>7. ASSUME NEW w \in Writers, Truncate(w) \/ Write(w) PROVE Goal
    <2>1. Fresh(w)'
        BY <1>0, <1>7 DEF Truncate, Write, To, Fresh, TypeOKStore
    <2> QED BY <1>5, <1>7, <2>1 DEF Truncate, Write
<1>8. ASSUME NEW w \in Writers, WriteFails(w) PROVE Goal
    <2>1. CASE phase[w] = "truncate"
        <3>1. UNCHANGED <<up, doubt, unread, live, file>>
            BY <1>8, <2>1 DEF WriteFails
        <3>2. \A b \in Reloaders : ~Fresh(b)
            BY <1>6, <2>1, <3>1 DEF Fresh
        <3>3. Current
            BY <1>1, <3>1
        <3>4. Current'
            BY <3>1, <3>2, <3>3
        <3>5. UNCHANGED <<version, named, lineage>>
            BY <1>8 DEF WriteFails
        <3> HIDE DEF Current, Goal
        <3> QED BY <1>5, <2>1, <3>1, <3>4, <3>5
    <2>2. CASE phase[w] = "write"
        BY <1>5, <1>8, <2>2 DEF WriteFails
    <2> QED BY <1>8, <2>1, <2>2 DEF WriteFails
<1>9. ASSUME NEW a \in Reloaders, Load(a) PROVE Goal
    <2>1. CASE file = Broken
        <3>1. unread'
            BY <1>9, <2>1 DEF Load, BrokenIsUnread
        <3> QED BY <1>5, <1>9, <3>1 DEF Load
    <2>2. CASE file # Broken
        <3>1. Fresh(a)'
            BY <1>0, <1>9, <2>2 DEF Load, To, Fresh, TypeOKStore
        <3> QED BY <1>5, <1>9, <3>1 DEF Load
    <2> QED BY <2>1, <2>2
<1>10. ASSUME NEW a \in Reloaders, LoadFails(a) PROVE Goal
    <2>1. CASE a \in Writers
        <3>1. UNCHANGED <<up, doubt, version, named, lineage>> /\ unread' /\ phase[a] = "load"
            BY <1>10, <2>1 DEF LoadFails
        <3> QED BY <1>5, <3>1
    <2>2. CASE a \notin Writers
        <3>1. UNCHANGED <<up, doubt, unread, live, file>>
            <4>1. unread' = (unread \/ a \in Writers) /\ unread \in BOOLEAN
                BY <1>0, <1>10 DEF LoadFails, TypeOKStore
            <4>2. unread' = unread
                BY <2>2, <4>1
            <4> QED BY <1>10, <4>2 DEF LoadFails
        <3>2. \A b \in Reloaders : ~Fresh(b)
            BY <1>6, <1>10, <2>2, <3>1 DEF Fresh, LoadFails
        <3>3. Current
            BY <1>1, <3>1
        <3>4. Current'
            BY <3>1, <3>2, <3>3
        <3>5. UNCHANGED <<version, named, lineage>> /\ phase[a] = "load"
            BY <1>10 DEF LoadFails
        <3> HIDE DEF Current, Goal
        <3> QED BY <1>5, <3>1, <3>4, <3>5
    <2> QED BY <2>1, <2>2
<1>11. ASSUME NEW a \in Reloaders, Assign(a) PROVE Goal
    <2> DEFINE x == [policy |-> loaded[a], by |-> a]
    <2>1. x \in Entries /\ lineage' = Append(lineage, x)
        BY <1>0, <1>11 DEF Assign, Entries, TypeOKStore
    <2>2. Len(lineage') = Len(lineage) + 1 /\ \A i \in 1 .. Len(lineage) : lineage'[i] = lineage[i]
        BY <2>1, LineageGrows
    <2>3. UNCHANGED <<up, doubt, version, named, unread, file>> /\ phase[a] = "assign" /\ live' = loaded[a]
        BY <1>11 DEF Assign
    <2>4. Names(version, named) /\ Unnamed /\ ~Between
        BY <1>1, <1>3, <2>3
    <2>5. Names(version, named)'
        BY <2>1, <2>3, <2>4, NamesKept
    <2>6. Between'
        BY <1>0, <1>11 DEF Assign, To, TypeOKStore
    <2>7. Unnamed'
        <3> SUFFICES ASSUME NEW i \in named' + 1 .. Len(lineage')
                     PROVE  lineage'[i].policy \notin Versioned \/ (i = Len(lineage') /\ Between')
            OBVIOUS
        <3>1. CASE i = Len(lineage')
            BY <2>6, <3>1
        <3>2. CASE i # Len(lineage')
            <4>1. i \in named + 1 .. Len(lineage) /\ lineage'[i] = lineage[i]
                BY <1>0, <2>2, <2>3, <3>2
            <4> QED BY <2>4, <4>1
        <3> QED BY <3>1, <3>2
    <2>8. Current'
        BY <2>3 DEF AloneReload
    <2> QED BY <2>5, <2>7, <2>8
<1>12. ASSUME NEW a \in Reloaders, Find(a) PROVE Goal
    <2>1. UNCHANGED <<up, doubt, version, named, lineage, unread, live, file>> /\ phase[a] = "find"
        BY <1>12 DEF Find
    <2>2. Current'
        BY <2>1 DEF AloneReload
    <2>3. CASE live \in Versioned
        <3>1. Between'
            BY <1>0, <1>12, <2>3 DEF Find, To, TypeOKStore
        <3> QED BY <1>2, <2>1, <2>2, <3>1
    <2>4. CASE live \notin Versioned
        <3>1. Names(version, named)'
            BY <1>1, <2>1, NamesKept
        <3>2. Unnamed'
            BY <1>0, <1>1, <2>1, <2>4
        <3> QED BY <2>2, <3>1, <3>2
    <2> QED BY <2>3, <2>4
<1>13. ASSUME NEW a \in Reloaders, SetVersion(a) PROVE Goal
    <2>1. /\ doubt # "some" /\ phase[a] = "set" /\ version' = found[a] /\ named' = Len(lineage)
          /\ UNCHANGED <<live, lineage, file, unread>>
        BY <1>13 DEF SetVersion
    <2>2. live \in Versioned /\ found[a] = VersionOf[live] /\ (unread \/ live = file)
        BY <2>1 DEF AloneReload
    <2>3. Names(version, named)'
        BY <1>0, <2>1, <2>2 DEF Names
    <2>4. Unnamed'
        BY <1>0, <2>1
    <2> QED BY <2>1, <2>2, <2>3, <2>4
<1>14. ASSUME NEW t, Edit(t) PROVE Goal
    <2>1. UNCHANGED <<up, doubt, version, named, lineage, phase>> /\ unread'
        BY <1>14 DEF Edit
    <2> QED BY <1>2, <2>1
<1>15. CASE UNCHANGED <<up, doubt, version, named, lineage, live, phase, file, unread>>
    BY <1>1, <1>2, <1>15 DEF Fresh
<1>16. CASE Boot
    <2>1. /\ live' = file /\ file \in Versioned /\ version' = VersionOf[file] /\ named' = Len(lineage')
          /\ lineage' = Append(lineage, [policy |-> file, by |-> NoText]) /\ file' = file
        BY <1>16 DEF Boot
    <2>2. lineage'[Len(lineage')] = [policy |-> file, by |-> NoText] /\ Len(lineage') \in Nat
        <3>1. [policy |-> file, by |-> NoText] \in Entries
            BY <2>1 DEF Entries
        <3> QED BY <1>0, <2>1, <3>1, LineageGrows
    <2>3. Names(version, named)'
        BY <2>1, <2>2 DEF Names
    <2>4. Unnamed'
        BY <2>1, <2>2
    <2> QED BY <2>1, <2>3, <2>4
<1>17. CASE Crash
    BY <1>17 DEF Crash, Die
<1> QED BY <1>4, <1>7, <1>8, <1>9, <1>10, <1>11, <1>12, <1>13, <1>14, <1>15, <1>16, <1>17, StoreCases
        DEF StoreStep, StartThread, Backup, BackupFails, Tick

LEMMA StoreInit == Init => BrokenIsUnread /\ AloneReload /\ Settled
<1> SUFFICES ASSUME Init PROVE BrokenIsUnread /\ AloneReload /\ Settled
    OBVIOUS
<1>1. /\ file = Deployed /\ live = Deployed /\ version = VersionOf[Deployed] /\ named = 1
      /\ lineage = <<[policy |-> Deployed, by |-> NoText]>>
      /\ \A a \in Reloaders : phase[a] = "idle"
    BY DEF Init, InitStore
<1>2. BrokenIsUnread /\ AloneReload
    BY <1>1, PolicyStoreAssumption DEF BrokenIsUnread, AloneReload, Active
<1>3. Len(lineage) = 1 /\ lineage[1].policy = Deployed
    BY <1>1
<1>4. Settled
    BY <1>1, <1>3, PolicyStoreAssumption DEF Settled, Names
<1> QED BY <1>2, <1>4

(* A decision's epoch is set as it begins, and a handler that changed the  *)
(* policy waits for nothing after it has set the version.                  *)
LEMMA DecidedCases ==
    ASSUME TypeOKIdentity, epoch \in [Requests -> Nat], [Next]_vars,
           NEW q \in Requests, step'[q] \in Decided
    PROVE  \/ step[q] \in Decided /\ epoch'[q] = epoch[q]
           \/ DecideFirst(q)
           \/ PutPolicy(q) /\ SetVersion(q)
<1> USE DEF Decided
<1> DEFINE Goal == \/ step[q] \in Decided /\ epoch'[q] = epoch[q]
                   \/ DecideFirst(q)
                   \/ PutPolicy(q) /\ SetVersion(q)
<1>1. ASSUME NEW r \in Requests, NEW s, Move(r, s), s \notin Decided, epoch' = epoch PROVE Goal
    BY <1>1 DEF Move, TypeOKIdentity
<1>2. ASSUME UNCHANGED <<epoch, step>> PROVE Goal
    BY <1>2
<1>3. ASSUME NEW r \in Requests, PutPolicy(r) PROVE Goal
    <2>1. CASE q = r
        BY <1>3, <2>1 DEF PutPolicy, Move, TypeOKIdentity
    <2>2. CASE q # r
        <3>1. step'[q] = step[q]
            BY <1>3, <2>2 DEF PutPolicy, Move, TypeOKIdentity
        <3>2. epoch'[q] = epoch[q]
            BY <1>3, <2>2 DEF PutPolicy
        <3> QED BY <3>1, <3>2
    <2> QED BY <2>1, <2>2
<1>4. ASSUME NEW r \in Requests, PutStatus(r) PROVE Goal
    <2>1. step'[r] \in Ended /\ \A p \in Requests \ {r} : step'[p] = step[p]
        BY <1>4 DEF PutStatus, SetStatus, Move, TypeOKIdentity, Ended
    <2>2. q # r /\ step'[q] = step[q]
        BY <2>1 DEF Ended
    <2>3. epoch'[q] = epoch[q]
        BY <1>4, <2>2 DEF PutStatus
    <2> QED BY <2>2, <2>3
<1>5. ASSUME NEW r \in Requests, DecideFirst(r) PROVE Goal
    BY <1>5 DEF DecideFirst, Move, TypeOKIdentity
<1>6. ASSUME NEW r \in Requests, DecideLast(r) PROVE Goal
    BY <1>6 DEF DecideLast, Move, TypeOKIdentity
<1>7. ASSUME NEW r \in Requests, Answer(r) PROVE Goal
    BY <1>1, <1>7 DEF Answer, Decided
<1>8. ASSUME NEW r \in Requests, Identify(r) \/ Touch(r) \/ Enriched(r) \/ Arrive(r) \/ ReadBody(r),
             UNCHANGED decisions
      PROVE Goal
    <2>1. \A s : Move(r, s) /\ s \notin Decided => Goal
        BY <1>1, <1>8
    <2>2. \A t : Resolved(r, t) => Goal
        BY <2>1 DEF Resolved
    <2>3. \A t : DeviceChecked(r, t) => Goal
        BY <2>1, <2>2 DEF DeviceChecked
    <2>4. Move(r, "failed") \/ Move(r, "touching") \/ Move(r, "discovering") \/ Move(r, "acting") => Goal
        BY <2>1
    <2>5. Identify(r) => Goal
        <3>1. Identify(r) => Move(r, "failed") \/ Move(r, "touching") \/ DeviceChecked(r, Verified(r))
            BY DEF Identify
        <3>2. DeviceChecked(r, Verified(r)) => Goal
            BY <2>3
        <3> QED BY <2>4, <3>1, <3>2
    <2>6. Touch(r) => Goal
        <3>1. Touch(r) => Move(r, "failed") \/ DeviceChecked(r, TRUE)
            BY DEF Touch
        <3>2. DeviceChecked(r, TRUE) => Goal
            BY <2>3
        <3> QED BY <2>4, <3>1, <3>2
    <2>7. Enriched(r) \/ Arrive(r) \/ ReadBody(r) => Goal
        BY <2>2, <2>4 DEF Enriched, Arrive, ReadBody
    <2> QED BY <1>8, <2>5, <2>6, <2>7
<1>9. CASE Crash
    BY <1>9 DEF Crash, TypeOKIdentity
<1>10. CASE World
    BY <1>2, <1>9, <1>10 DEF World, Withdrawn, WithdrawElsewhere, EnrollDevice, Enroll, Thread, Edited
<1> QED BY <1>2, <1>3, <1>4, <1>5, <1>6, <1>7, <1>8, <1>10 DEF Next, Request, Advance, Client

LEMMA EpochsNamedStep ==
    ASSUME Typed, PutsReload, EpochsNamed, [Next]_vars
    PROVE  EpochsNamed'
<1> USE DEF EpochsNamed
<1>0. /\ TypeOKIdentity /\ Len(lineage) \in Nat /\ named \in 1 .. Len(lineage)
      /\ epoch \in [Requests -> Nat] /\ \A r \in Requests : epoch[r] <= Len(lineage)
    BY LenProperties DEF Typed, TypeOK, TypeOKStore
<1> SUFFICES ASSUME NEW q \in Requests, step'[q] \in Decided PROVE epoch'[q] <= named'
    OBVIOUS
<1>1. named' \in Nat /\ named' >= named
    <2>1. CASE named' = named
        BY <1>0, <2>1
    <2>2. ASSUME NEW a \in Reloaders, SetVersion(a) PROVE named' \in Nat /\ named' >= named
        BY <1>0, <2>2 DEF SetVersion
    <2>3. CASE Boot
        <3>1. named' = Len(lineage')
            BY <2>3 DEF Boot
        <3>2. Len(lineage') >= Len(lineage) /\ Len(lineage') \in Nat
            BY TypeStore, LenProperties
        <3> QED BY <1>0, <3>1, <3>2
    <2> QED BY <2>1, <2>2, <2>3, StoreCases DEF StoreStep, StartThread, Backup, BackupFails, Truncate, Write,
            WriteFails, Load, LoadFails, Assign, Find, Tick, Edit, Crash, Die
<1>2. CASE step[q] \in Decided /\ epoch'[q] = epoch[q]
    BY <1>0, <1>1, <1>2
<1>3. CASE DecideFirst(q)
    BY <1>0, <1>3 DEF DecideFirst
<1>4. CASE PutPolicy(q) /\ SetVersion(q)
    <2>1. epoch'[q] = epoch[q] /\ named' = Len(lineage)
        BY <1>4 DEF PutPolicy, SetVersion, Assign
    <2> QED BY <1>0, <2>1
<1> QED BY <1>0, <1>2, <1>3, <1>4, DecidedCases

-----------------------------------------------------------------------------
(* The empty file, and the texts the backups keep.                         *)

LEMMA EmptiedStep ==
    ASSUME Typed, PutsReload, Alive, AloneReload, Emptied, [Next]_vars
    PROVE  Emptied'
<1> USE PolicyStoreAssumption
<1>0. TypeOKStore
    BY DEF Typed, TypeOK
<1>1. ASSUME NEW a \in Reloaders, NEW p \in {"load", "truncate", "done"}, Begin(a, p),
             UNCHANGED <<file, loaded, live, up, torn>>
      PROVE Emptied'
    <2>1. \A b \in Reloaders \ {a} : phase'[b] = phase[b]
        BY <1>0, <1>1 DEF Begin, To, TypeOKStore
    <2>2. phase'[a] = p /\ phase[a] = "idle"
        BY <1>0, <1>1 DEF Begin, To, TypeOKStore
    <2>3. doubt' # "some" => /\ \A b \in Reloaders : phase[b] \in {"idle", "done"}
                             /\ doubt' = "none" => doubt = "none"
        BY <1>0, <1>1, BeginsAlone
    <2>4. Writing => Writing'
        BY <2>1, <2>2 DEF Writing
    <2>5. EmptyByAccident'
        BY <1>1, <2>3 DEF Emptied, EmptyByAccident
    <2>6. doubt' # "some" => \A b \in Reloaders : phase'[b] \notin {"assign", "find", "set"}
        BY <2>1, <2>2, <2>3
    <2>7. \A b \in Reloaders : phase'[b] = "assign" => phase[b] = "assign"
        BY <2>1, <2>2
    <2> QED BY <1>1, <2>4, <2>5, <2>6, <2>7 DEF Emptied
<1>2. ASSUME NEW w \in Writers, Truncate(w) PROVE Emptied'
    <2>1. phase'[w] = "write" /\ \A b \in Reloaders \ {w} : phase'[b] = phase[b]
        BY <1>0, <1>2 DEF Truncate, To, TypeOKStore
    <2>2. Writing'
        BY <2>1 DEF Writing
    <2> QED BY <1>2, <2>1, <2>2 DEF Emptied, EmptyByAccident, Truncate
<1>3. ASSUME NEW w \in Writers, Write(w) PROVE Emptied'
    <2>1. phase'[w] = "load" /\ \A b \in Reloaders \ {w} : phase'[b] = phase[b]
        BY <1>0, <1>3 DEF Write, To, TypeOKStore
    <2>2. file' # Empty
        BY <1>3 DEF Write
    <2> QED BY <1>3, <2>1, <2>2 DEF Emptied, EmptyByAccident, Write
<1>4. ASSUME NEW w \in Writers, WriteFails(w) PROVE Emptied'
    <2>1. phase'[w] = "done" /\ phase[w] \in {"truncate", "write"} /\ \A b \in Reloaders \ {w} : phase'[b] = phase[b]
        BY <1>0, <1>4 DEF WriteFails, To, TypeOKStore
    <2>2. UNCHANGED <<loaded, live, up, doubt>> /\ (torn => torn')
        <3>1. UNCHANGED <<loaded, live, up, doubt>>
            BY <1>4 DEF WriteFails
        <3>2. torn' = torn \/ torn' = (torn \/ file' = Empty)
            BY <1>4 DEF WriteFails
        <3>3. torn => torn'
            BY <3>2, Zenon
        <3> QED BY <3>1, <3>3
    <2>3. file' = Empty => torn' \/ Writing'
        <3>1. CASE phase[w] = "truncate"
            <4>1. UNCHANGED <<file, torn>> /\ (Writing => Writing')
                BY <1>4, <2>1, <3>1 DEF WriteFails, Writing
            <4> QED BY <4>1 DEF Emptied
        <3>2. CASE phase[w] = "write"
            BY <1>4, <3>2 DEF WriteFails
        <3> QED BY <2>1, <3>1, <3>2
    <2> QED BY <2>1, <2>2, <2>3 DEF Emptied, EmptyByAccident
<1>5. ASSUME NEW a \in Reloaders, Load(a) \/ LoadFails(a) PROVE Emptied'
    <2>1. phase'[a] \in {"assign", "done"} /\ phase[a] = "load"
          /\ \A b \in Reloaders \ {a} : phase'[b] = phase[b] /\ loaded'[b] = loaded[b]
        BY <1>0, <1>5 DEF Load, LoadFails, To, TypeOKStore
    <2>2. phase'[a] = "assign" => loaded'[a] = file
        BY <1>0, <1>5 DEF Load, LoadFails, To, TypeOKStore
    <2>3. Writing' <=> Writing
        <3>1. \A b \in Reloaders : phase'[b] = "write" <=> phase[b] = "write"
            BY <2>1
        <3> QED BY <3>1 DEF Writing
    <2>4. doubt # "some" => ~Writing
        BY <1>0, <2>1, Sole DEF Writing
    <2>5. UNCHANGED <<file, torn, live, doubt, up>>
        BY <1>5 DEF Load, LoadFails
    <2> QED BY <2>1, <2>2, <2>3, <2>4, <2>5 DEF Emptied, EmptyByAccident
<1>6. ASSUME NEW a \in Reloaders, Assign(a) PROVE Emptied'
    <2>1. phase'[a] = "find" /\ phase[a] = "assign" /\ \A b \in Reloaders \ {a} : phase'[b] = phase[b]
        BY <1>0, <1>6 DEF Assign, To, TypeOKStore
    <2>2. Writing' <=> Writing
        <3>1. \A b \in Reloaders : phase'[b] = "write" <=> phase[b] = "write"
            BY <2>1
        <3> QED BY <3>1 DEF Writing
    <2>3. /\ UNCHANGED <<file, loaded, up, doubt>> /\ live' = loaded[a]
          /\ torn' <=> torn /\ (file = Empty \/ loaded[a] = Empty)
        BY <1>6 DEF Assign
    <2>4. doubt # "some" => /\ \A b \in Reloaders \ {a} : phase[b] \in {"idle", "done"}
                            /\ loaded[a] = Empty => torn
        BY <1>0, <2>1, Sole DEF Emptied
    <2>5. file' = Empty => torn' \/ Writing'
        BY <2>1, <2>2, <2>3 DEF Emptied
    <2>6. \A b \in Reloaders : doubt' # "some" /\ phase'[b] = "assign" /\ loaded'[b] = Empty => torn'
        BY <2>1, <2>3, <2>4
    <2>7. \A b \in Reloaders : doubt' # "some" /\ phase'[b] \in {"find", "set"} /\ live' = Empty => torn'
        BY <2>1, <2>3, <2>4
    <2>8. EmptyByAccident'
        BY <2>3, <2>4 DEF EmptyByAccident
    <2> QED BY <2>5, <2>6, <2>7, <2>8 DEF Emptied
<1>7. ASSUME NEW a \in Reloaders, Find(a) PROVE Emptied'
    <2>1. phase'[a] \in {"set", "done"} /\ phase[a] = "find" /\ \A b \in Reloaders \ {a} : phase'[b] = phase[b]
        BY <1>0, <1>7 DEF Find, To, TypeOKStore
    <2>2. Writing' <=> Writing
        <3>1. \A b \in Reloaders : phase'[b] = "write" <=> phase[b] = "write"
            BY <2>1
        <3> QED BY <3>1 DEF Writing
    <2>3. UNCHANGED <<file, torn, live, loaded, doubt, up>>
        BY <1>7 DEF Find
    <2> QED BY <2>1, <2>2, <2>3 DEF Emptied, EmptyByAccident
<1>8. ASSUME NEW a \in Reloaders, SetVersion(a) PROVE Emptied'
    <2>1. phase'[a] = "done" /\ phase[a] = "set" /\ \A b \in Reloaders \ {a} : phase'[b] = phase[b]
        BY <1>0, <1>8 DEF SetVersion, To, TypeOKStore
    <2>2. Writing' <=> Writing
        <3>1. \A b \in Reloaders : phase'[b] = "write" <=> phase[b] = "write"
            BY <2>1
        <3> QED BY <3>1 DEF Writing
    <2>3. UNCHANGED <<file, torn, live, loaded, up>> /\ (doubt' = "some" <=> doubt = "some")
        BY <1>8 DEF SetVersion
    <2>4. EmptyByAccident'
        <3>1. doubt' = "none" /\ live' = Empty => torn'
            BY <2>1, <2>3 DEF Emptied
        <3> QED BY <3>1 DEF EmptyByAccident
    <2> QED BY <2>1, <2>2, <2>3, <2>4 DEF Emptied
<1>9. ASSUME NEW t \in Texts \cup {Broken}, Edit(t) PROVE Emptied'
    <2>1. file' # Empty /\ UNCHANGED <<live, phase, loaded, up, doubt, torn>>
        BY <1>9 DEF Edit
    <2> QED BY <2>1 DEF Emptied, EmptyByAccident
<1>10. CASE Crash
    <2>1. \A a \in Reloaders : phase'[a] \in {"idle", "done"}
        BY <1>10 DEF Crash, Die
    <2>2. file' = file /\ ~up' /\ (torn' <=> torn \/ \E a \in Reloaders : phase[a] = "write")
        BY <1>10 DEF Crash, Die
    <2>3. file' = Empty => torn'
        BY <2>2 DEF Emptied, Writing
    <2> QED BY <2>1, <2>2, <2>3 DEF Emptied, EmptyByAccident
<1>11. CASE Boot
    <2>1. UNCHANGED <<file, phase, loaded, torn>> /\ ~up /\ live' = file
        BY <1>11 DEF Boot
    <2>2. \A a \in Reloaders : phase[a] \in {"idle", "done"}
        BY <2>1 DEF Alive, Active
    <2>3. ~Writing
        BY <2>2 DEF Writing
    <2> QED BY <2>1, <2>2, <2>3 DEF Emptied, EmptyByAccident
<1>12. CASE UNCHANGED <<file, phase, loaded, torn, live, up, doubt>>
    BY <1>12 DEF Emptied, EmptyByAccident, Writing
<1> QED BY <1>1, <1>2, <1>3, <1>4, <1>5, <1>6, <1>7, <1>8, <1>9, <1>10, <1>11, <1>12, StoreCases
        DEF StoreStep, StartThread, Backup, BackupFails, Tick

(* A finite set that gains at most one element. *)
LEMMA OneMore ==
    ASSUME NEW S, IsFiniteSet(S), NEW x, NEW T, T \subseteq S \cup {x}
    PROVE  IsFiniteSet(T) /\ Cardinality(T) \in Nat /\ Cardinality(S) \in Nat
           /\ Cardinality(T) <= Cardinality(S) + 1
<1>1. IsFiniteSet(S \cup {x}) /\ Cardinality(S \cup {x}) <= Cardinality(S) + 1 /\ Cardinality(S) \in Nat
    BY FS_AddElement, FS_CardinalityType
<1>2. IsFiniteSet(T) /\ Cardinality(T) <= Cardinality(S \cup {x})
    BY <1>1, FS_Subset
<1> QED BY <1>1, <1>2, FS_CardinalityType

LEMMA NoMore ==
    ASSUME NEW S, IsFiniteSet(S), NEW T, T \subseteq S
    PROVE  IsFiniteSet(T) /\ Cardinality(T) \in Nat /\ Cardinality(S) \in Nat
           /\ Cardinality(T) <= Cardinality(S)
BY FS_Subset, FS_CardinalityType

(* What one more backup does to the names and to the texts kept under      *)
(* them: it takes a new name, or loses the text of the old one.            *)
LEMMA BackupCount ==
    ASSUME Typed, NEW t \in Policies \cup {Broken}, backups' = [backups EXCEPT ![second] = t],
           NEW T, IsFiniteSet(T), NoText \notin T
    PROVE  /\ Cardinality(T \ Backed') \in Nat /\ Cardinality(T \ Backed) \in Nat
           /\ Cardinality(Named) \in Nat /\ Cardinality(Named') \in Nat
           /\ Cardinality(T \ Backed') + Cardinality(Named') <= Cardinality(T \ Backed) + Cardinality(Named) + 1
<1>0. backups \in [Seconds -> Policies \cup {Broken, NoText}] /\ second \in Seconds
      /\ backups' = [backups EXCEPT ![second] = t] /\ t # NoText
    BY PolicyStoreAssumption DEF Typed, TypeOK, TypeOKStore
<1>1. IsFiniteSet(Seconds)
    BY FS_Interval, PolicyStoreAssumption DEF Seconds
<1>2. IsFiniteSet(Named) /\ IsFiniteSet(T \ Backed)
    <2>1. Named \subseteq Seconds /\ T \ Backed \subseteq T
        BY DEF Named
    <2> QED BY <1>1, <2>1, FS_Subset
<1>3. CASE backups[second] = NoText
    <2>1. \A p \in T : p \in Backed => p \in Backed'
        <3> SUFFICES ASSUME NEW p \in T, NEW s \in Seconds, backups[s] = p PROVE p \in Backed'
            BY DEF Backed
        <3>1. s # second /\ backups'[s] = p
            BY <1>0, <1>3
        <3> QED BY <3>1 DEF Backed
    <2>2. T \ Backed' \subseteq T \ Backed
        BY <2>1
    <2>3. Named' \subseteq Named \cup {second}
        BY <1>0 DEF Named
    <2>4. Cardinality(T \ Backed') <= Cardinality(T \ Backed)
          /\ Cardinality(T \ Backed') \in Nat /\ Cardinality(T \ Backed) \in Nat
        BY <1>2, <2>2, NoMore
    <2>5. Cardinality(Named') <= Cardinality(Named) + 1
          /\ Cardinality(Named) \in Nat /\ Cardinality(Named') \in Nat
        BY <1>2, <2>3, OneMore
    <2> QED BY <2>4, <2>5
<1>4. CASE backups[second] # NoText
    <2>1. T \ Backed' \subseteq (T \ Backed) \cup {backups[second]}
        <3> SUFFICES ASSUME NEW p \in T, p # backups[second], NEW s \in Seconds, backups[s] = p
                     PROVE  p \in Backed'
            BY DEF Backed
        <3>1. s # second /\ backups'[s] = p
            BY <1>0
        <3> QED BY <3>1 DEF Backed
    <2>2. Named' = Named
        BY <1>0, <1>4 DEF Named
    <2>3. Cardinality(T \ Backed') <= Cardinality(T \ Backed) + 1
          /\ Cardinality(T \ Backed') \in Nat /\ Cardinality(T \ Backed) \in Nat
        BY <1>2, <2>1, OneMore
    <2>4. Cardinality(Named) \in Nat
        BY <1>2, FS_CardinalityType
    <2> QED BY <2>2, <2>3, <2>4
<1> QED BY <1>3, <1>4

LEMMA BackupsStep ==
    ASSUME Typed, PutsReload, Alone, BackupsCounted, [Next]_vars
    PROVE  BackupsCounted'
<1> USE PolicyStoreAssumption
<1> DEFINE Lost  == written \ ({file} \cup Backed)
           Bound == taken - Cardinality(Named) + edits
           Open  == \E w \in Writers : phase[w] \in {"truncate", "write"}
<1>0. /\ TypeOKStore /\ written \subseteq Policies /\ IsFiniteSet(written) /\ edits \in Nat /\ taken \in Nat
      /\ \A w \in Writers : phase[w] \notin {"idle", "done"} => step[w] = "acting"
    BY DEF Typed, TypeOK
<1>1. IsFiniteSet(Lost) /\ IsFiniteSet(written \ Backed)
      /\ Cardinality(Lost) \in Nat /\ Cardinality(written \ Backed) \in Nat
    <2>1. Lost \subseteq written /\ written \ Backed \subseteq written
        OBVIOUS
    <2> QED BY <1>0, <2>1, NoMore
<1>2. Cardinality(Named) \in Nat
    <2>1. IsFiniteSet(Seconds) /\ Named \subseteq Seconds
        BY FS_Interval DEF Seconds, Named
    <2> QED BY <2>1, NoMore
<1>3. Cardinality(Lost) <= Bound /\ (Open => Cardinality(written \ Backed) <= Bound)
    BY DEF BackupsCounted, BackupsBound, Backed, Named
<1>4. SUFFICES Cardinality(Lost') <= Bound' /\ (Open' => Cardinality((written \ Backed)') <= Bound')
    BY DEF BackupsCounted, BackupsBound, Backed, Named
<1> DEFINE Goal == Cardinality(Lost') <= Bound' /\ (Open' => Cardinality((written \ Backed)') <= Bound')
(* One more backup, of whatever text. *)
<1>5. ASSUME NEW t \in Policies \cup {Broken}, backups' = [backups EXCEPT ![second] = t], taken' = taken + 1,
             UNCHANGED <<written, file, edits>>
      PROVE Cardinality(Lost') <= Bound'
    <2> DEFINE T == written \ {file}
    <2>1. IsFiniteSet(T) /\ NoText \notin T
        <3>1. T \subseteq written
            OBVIOUS
        <3> QED BY <1>0, <3>1, NoMore
    <2>2. /\ Cardinality(T \ Backed') \in Nat /\ Cardinality(Named') \in Nat
          /\ Cardinality(T \ Backed') + Cardinality(Named') <= Cardinality(T \ Backed) + Cardinality(Named) + 1
        BY <1>5, <2>1, BackupCount
    <2>3. T \ Backed = Lost /\ T \ Backed' = Lost'
        BY <1>5
    <2>4. Bound' = taken + 1 - Cardinality(Named') + edits
        BY <1>0, <1>5, <2>2
    <2> HIDE DEF T, Lost
    <2>5. Cardinality(T \ Backed') <= taken + 1 - Cardinality(Named') + edits
        <3> DEFINE l == Cardinality(T \ Backed)   n == Cardinality(Named)
                   i == Cardinality(T \ Backed')  k == Cardinality(Named')
        <3>1. l \in Nat /\ l <= taken - n + edits
            BY <1>1, <1>3, <2>3
        <3>2. i \in Nat /\ k \in Nat /\ i + k <= l + n + 1
            BY <2>2
        <3>3. n \in Nat /\ taken \in Nat /\ edits \in Nat
            BY <1>0, <1>2
        <3> HIDE DEF l, n, i, k
        <3>4. i <= taken + 1 - k + edits
            BY <3>1, <3>2, <3>3
        <3> QED BY <3>4 DEF i, k
    <2> QED BY <2>3, <2>4, <2>5
<1>6. ASSUME NEW w \in Writers, Backup(w) PROVE Goal
    <2>1. /\ backups' = [backups EXCEPT ![second] = file] /\ taken' = taken + 1
          /\ UNCHANGED <<written, file, edits>> /\ file \in Policies \cup {Broken}
        BY <1>0, <1>6 DEF Backup, TypeOKStore
    <2>2. file \in Backed'
        BY <1>0, <2>1 DEF Backed, TypeOKStore
    <2>3. (written \ Backed)' = Lost'
        BY <2>1, <2>2
    <2>4. Cardinality(Lost') <= Bound'
        BY <1>5, <2>1
    <2> HIDE DEF Lost, Bound
    <2> QED BY <2>3, <2>4
(* Only one PUT is at its files. *)
<1>7. ASSUME NEW w \in Writers, step[w] = "acting",
              \A v \in Writers \ {w} : phase'[v] = phase[v], phase'[w] \notin {"truncate", "write"}
       PROVE ~Open'
    <2> SUFFICES ASSUME NEW v \in Writers, phase'[v] \in {"truncate", "write"} PROVE FALSE
        OBVIOUS
    <2>1. v # w /\ phase'[v] = phase[v]
        BY <1>7
    <2>2. step[v] = "acting"
        BY <1>0, <2>1
    <2> QED BY <1>7, <2>1, <2>2, ControlPlaneAssumption DEF Alone, OnLoop
<1>8. ASSUME NEW w \in Writers, step[w] = "acting", BackupFails(w) PROVE Goal
    <2>1. phase'[w] = "done" /\ \A v \in Writers \ {w} : phase'[v] = phase[v]
        BY <1>0, <1>8 DEF BackupFails, Begin, To, TypeOKStore
    <2>2. ~Open'
        BY <1>7, <1>8, <2>1
    <2>3. UNCHANGED <<written, file, edits>>
        BY <1>8 DEF BackupFails
    <2>4. CASE UNCHANGED <<backups, taken>>
        <3>1. Lost' = Lost /\ Bound' = Bound
            BY <2>3, <2>4 DEF Backed, Named
        <3> HIDE DEF Lost, Bound, Open
        <3> QED BY <1>3, <2>2, <3>1
    <2>5. ASSUME NEW t \in Leftovers \cup {file}, backups' = [backups EXCEPT ![second] = t], taken' = taken + 1
          PROVE Goal
        <3>1. t \in Policies \cup {Broken}
            BY <1>0 DEF Leftovers, TypeOKStore
        <3>2. Cardinality(Lost') <= Bound'
            BY <1>5, <2>3, <2>5, <3>1
        <3> HIDE DEF Lost, Bound, Open
        <3> QED BY <2>2, <3>2
    <2> QED BY <1>8, <2>4, <2>5 DEF BackupFails
<1>9. ASSUME NEW w \in Writers, Truncate(w) PROVE Goal
    <2>1. UNCHANGED <<written, backups, taken, edits>> /\ Open
        BY <1>9 DEF Truncate
    <2>2. Lost' \subseteq written \ Backed /\ (written \ Backed)' = written \ Backed /\ Bound' = Bound
        BY <2>1 DEF Backed, Named
    <2>3. Cardinality(Lost') <= Cardinality(written \ Backed) /\ Cardinality(Lost') \in Nat
        BY <1>1, <2>2, NoMore
    <2>4. Bound \in Int
        BY <1>0, <1>2
    <2> HIDE DEF Lost, Bound
    <2> QED BY <1>1, <1>3, <2>1, <2>2, <2>3, <2>4
<1>10. ASSUME NEW w \in Writers, step[w] = "acting", Write(w) \/ WriteFails(w), phase[w] = "write" PROVE Goal
    <2>1. /\ UNCHANGED <<backups, taken, edits>> /\ Open
          /\ written' \subseteq written \cup ({file'} \cap {TextOf[w]})
        BY <1>10 DEF Write, WriteFails
    <2>2. Lost' \subseteq written \ Backed /\ Bound' = Bound
        BY <2>1 DEF Backed, Named
    <2>3. Cardinality(Lost') <= Cardinality(written \ Backed) /\ Cardinality(Lost') \in Nat
        BY <1>1, <2>2, NoMore
    <2>4. ~Open'
        <3>1. phase'[w] \in {"load", "done"} /\ \A v \in Writers \ {w} : phase'[v] = phase[v]
            BY <1>0, <1>10 DEF Write, WriteFails, To, TypeOKStore
        <3> QED BY <1>7, <1>10, <3>1
    <2>5. Bound \in Int
        BY <1>0, <1>2
    <2> HIDE DEF Lost, Open, Bound
    <2> QED BY <1>1, <1>3, <2>1, <2>2, <2>3, <2>4, <2>5
<1>11. ASSUME NEW t, Edit(t) PROVE Goal
    <2>1. UNCHANGED <<written, backups, taken, phase>> /\ edits' = edits + 1
        BY <1>11 DEF Edit
    <2>2. Lost' \subseteq Lost \cup {file}
        BY <2>1 DEF Backed
    <2>3. Cardinality(Lost') <= Cardinality(Lost) + 1 /\ Cardinality(Lost') \in Nat
        <3> HIDE DEF Lost
        <3> QED BY <1>1, <2>2, OneMore
    <2>4. Bound' = Bound + 1 /\ (written \ Backed)' = written \ Backed /\ (Open' => Open)
        <3>1. Named' = Named
            BY <2>1 DEF Named
        <3> QED BY <1>0, <1>2, <2>1, <3>1 DEF Backed
    <2>5. Bound \in Int
        BY <1>0, <1>2
    <2> HIDE DEF Lost, Open, Bound
    <2>6. Cardinality(Lost') <= Bound'
        BY <1>1, <1>3, <2>3, <2>4, <2>5
    <2>7. Open' => Cardinality((written \ Backed)') <= Bound'
        <3>1. Open' => Cardinality(written \ Backed) <= Bound
            BY <1>3, <2>4
        <3> DEFINE k == Cardinality(written \ Backed)
        <3>2. (Open' => k <= Bound) /\ k \in Nat /\ Bound' = Bound + 1 /\ Cardinality((written \ Backed)') = k
            BY <1>1, <2>4, <3>1
        <3> HIDE DEF k
        <3> QED BY <2>5, <3>2
    <2> QED BY <2>6, <2>7
<1>12. ASSUME UNCHANGED <<file, written, backups, taken, edits>>,
             \A w \in Writers : phase'[w] \in {"truncate", "write"} => phase'[w] = phase[w]
      PROVE Goal
    <2>1. Lost' = Lost /\ Bound' = Bound /\ (written \ Backed)' = written \ Backed /\ (Open' => Open)
        BY <1>12 DEF Backed, Named
    <2> HIDE DEF Lost, Open, Bound
    <2> QED BY <1>3, <2>1
<1>13. ASSUME NEW a \in Threads, StartThread(a) PROVE Goal
    BY <1>0, <1>12, <1>13 DEF StartThread, Begin, To, TypeOKStore
<1>14. ASSUME NEW a \in Reloaders, Load(a) \/ LoadFails(a) \/ Assign(a) \/ Find(a) \/ SetVersion(a) PROVE Goal
    <2>1. UNCHANGED <<file, written, backups, taken, edits>>
        BY <1>14 DEF Load, LoadFails, Assign, Find, SetVersion
    <2>2. \E p \in {"done", "assign", "find", "set"} : phase' = [phase EXCEPT ![a] = p]
        BY <1>14 DEF Load, LoadFails, Assign, Find, SetVersion, To
    <2> QED BY <1>0, <1>12, <2>1, <2>2 DEF TypeOKStore
<1>15. ASSUME NEW w \in Writers, WriteFails(w), phase[w] = "truncate" PROVE Goal
    <2>1. UNCHANGED <<file, written, backups, taken, edits>> /\ phase' = [phase EXCEPT ![w] = "done"]
        BY <1>15 DEF WriteFails, To
    <2> QED BY <1>0, <1>12, <2>1 DEF TypeOKStore
<1>16. CASE Crash
    BY <1>0, <1>12, <1>16 DEF Crash, Die
<1>17. CASE Tick \/ Boot
    BY <1>12, <1>17 DEF Tick, Boot
<1>18. CASE UNCHANGED storeVars
    BY <1>12, <1>18
<1>19. ASSUME NEW w \in Writers, step[w] = "acting",
              Backup(w) \/ BackupFails(w) \/ Truncate(w) \/ Write(w) \/ WriteFails(w)
       PROVE Goal
    BY <1>6, <1>8, <1>9, <1>10, <1>15, <1>19 DEF Write, WriteFails
<1> QED BY <1>11, <1>13, <1>14, <1>16, <1>17, <1>18, <1>19, StoreCases DEF StoreStep

-----------------------------------------------------------------------------
(* The invariant, and what it gives.                                       *)

LEMMA InvInit == Init => IInv
<1> SUFFICES ASSUME Init PROVE IInv
    OBVIOUS
<1>1. PutsReload /\ Mixed /\ EpochsNamed
    BY DEF Init, InitIdentity, InitStore, PutsReload, Mixed, MixedByThread, EpochsNamed, Decided
<1>2. Emptied
    BY PolicyStoreAssumption DEF Init, InitStore, Emptied, EmptyByAccident
<1>3. BackupsCounted
    <2>1. written \ ({file} \cup Backed) = {} /\ Named = {} /\ taken = 0 /\ edits = 0
        BY DEF Init, InitStore, Named
    <2>2. \A w \in Writers : phase[w] = "idle"
        BY DEF Init, InitStore
    <2> QED BY <2>1, <2>2, FS_EmptySet DEF BackupsCounted, BackupsBound, Backed, Named
<1> QED BY <1>1, <1>2, <1>3, TypeInit, IdentityInit, StoreInit DEF IInv

LEMMA InvStep == IInv /\ [Next]_vars => IInv'
<1> SUFFICES ASSUME IInv, [Next]_vars PROVE IInv'
    OBVIOUS
<1>1. /\ Typed /\ PutsReload /\ Alone /\ Alive /\ Evidenced /\ Admitted /\ Mixed
      /\ BrokenIsUnread /\ AloneReload /\ Settled /\ EpochsNamed /\ Emptied /\ BackupsCounted
    BY DEF IInv
<1>2. TypeOKIdentity /\ TypeOKStore /\ found \in [Reloaders -> Versions]
    BY <1>1 DEF Typed, TypeOK
<1>3. Typed' /\ PutsReload' /\ Alone' /\ Alive'
    BY <1>1, <1>2, TypeStep, AloneStep, AliveStep
<1>4. Evidenced' /\ Admitted' /\ Mixed'
    BY <1>1, <1>2, EvidencedStep, AdmittedStep, MixedStep
<1>5. BrokenIsUnread' /\ AloneReload' /\ Settled' /\ EpochsNamed'
    BY <1>1, <1>2, BrokenIsUnreadStep, AloneReloadStep, SettledStep, EpochsNamedStep
<1>6. Emptied' /\ BackupsCounted'
    BY <1>1, EmptiedStep, BackupsStep
<1> QED BY <1>3, <1>4, <1>5, <1>6 DEF IInv

LEMMA Invariant == Spec => []IInv
BY InvInit, InvStep, PTL DEF Spec

(* The types of the gateway's state are kept by every handler, thread,     *)
(* crash and boot.                                                         *)
THEOREM TypeCorrect == Spec => []TypeOK
<1>1. IInv => TypeOK
    BY DEF IInv, Typed
<1> QED BY <1>1, Invariant, PTL

(* A request counts as one of a trusted device only on evidence, for any   *)
(* number of devices and requests, whoever withdraws trust meanwhile.      *)
THEOREM TrustAlwaysEvidenced == Spec => []TrustIsEvidenced
<1>1. IInv => TrustIsEvidenced
    BY DEF IInv, Evidenced, Evidence, User, Bearer, TrustIsEvidenced, Inside, Resolving
<1> QED BY <1>1, Invariant, PTL

(* Only an admin's word brings trust back: no step of the device's own     *)
(* requests writes the status they have read.                              *)
THEOREM WithdrawalAlwaysSticks == Spec => WithdrawalSticks
<1> DEFINE Sticks == \A d \in Devices : status[d] \in {"revoked", "quarantined"} /\ status'[d] = "trusted" =>
         \E r \in Requests : input[r].kind = "status" /\ step[r] = "acting" /\ step'[r] \in {"answered", "failed"}
<1>1. IInv /\ [Next]_vars => [Sticks]_status
    <2> SUFFICES ASSUME TypeOKIdentity, [Next]_vars, status' # status PROVE Sticks
        BY DEF IInv, Typed, TypeOK
    <2>1. ASSUME NEW r \in Requests, SetStatus(r) PROVE Sticks
        BY <2>1 DEF SetStatus, Move, TypeOKIdentity
    <2>2. ASSUME NEW e \in Devices, Enroll(e) PROVE Sticks
        BY <2>2 DEF Enroll, InsertRow, TypeOKIdentity
    <2>3. ASSUME NEW e \in Devices, NEW s \in Statuses, WithdrawElsewhere(e, s) PROVE Sticks
        BY <2>3 DEF WithdrawElsewhere, WriteStatus, TypeOKIdentity
    <2>4. CASE Crash
        BY <2>4 DEF Crash
    <2> QED BY <2>1, <2>2, <2>3, <2>4, IdentityCases
            DEF IdentityStep, Identify, Enriched, Arrive, ReadBody, Touch
<1> QED BY <1>1, Invariant, PTL DEF Spec, WithdrawalSticks

(* Whatever the headers say, the policy and a device's status are written  *)
(* only for an authenticated admin on a trusted device, where the settings *)
(* ask for them.                                                           *)
THEOREM ChangesAlwaysAuthorised == Spec => ChangesAreAuthorised
<1> DEFINE Changed ==
               \/ (file' # file /\ edits' = edits) \/ taken' # taken
               \/ \E d \in Devices : status[d] # "none" /\ status'[d] # status[d] /\ elsewhere' = elsewhere
           By(r) ==
               /\ step[r] = "acting" /\ input[r].kind \in AdminKinds
               /\ settings.adminAuth =>
                    settings.auth # "disabled" /\ input[r].bearer = "valid" /\ input[r].subject \in Admins
               /\ settings.adminDevice /\ settings.trust # "disabled" => input[r].device \in since[r]
               /\ input[r].kind = "put" => settings.policyWrite
<1>1. IInv /\ [Next]_vars => [Changed => \E r \in Requests : By(r)]_vars
    <2> SUFFICES ASSUME Typed, PutsReload, Evidenced, Admitted, [Next]_vars, Changed
                 PROVE  \E r \in Requests : By(r)
        BY DEF IInv
    <2>1. ASSUME NEW r \in Requests, step[r] = "acting", input[r].kind \in AdminKinds
          PROVE By(r)
        <3>1. MayAdminister(r, trusted[r]) /\ (Bearer(r) => input[r].bearer = "valid")
            BY <2>1 DEF Admitted, InFlight, OnLoop
        <3>2. settings.trust # "disabled" /\ trusted[r] => input[r].device \in since[r]
            BY DEF Evidenced, Evidence
        <3> QED BY <2>1, <3>1, <3>2 DEF MayAdminister, Bearer
    <2>2. CASE (file' # file /\ edits' = edits) \/ taken' # taken
        <3>1. \A t : Edit(t) => edits' # edits /\ taken' = taken
            BY DEF Typed, Edit
        <3>2. PICK w \in Writers : step[w] = "acting" /\ input[w].kind = "put"
            <4>1. \A a \in Reloaders : Load(a) \/ LoadFails(a) \/ Assign(a) \/ Find(a) \/ SetVersion(a)
                      => UNCHANGED <<file, taken>>
                BY DEF Load, LoadFails, Assign, Find, SetVersion
            <4>2. UNCHANGED storeVars \/ (\E a \in Threads : StartThread(a)) \/ Tick \/ Crash \/ Boot
                      => UNCHANGED <<file, taken>>
                BY DEF StartThread, Tick, Crash, Die, Boot
            <4> QED BY <2>2, <3>1, <4>1, <4>2, StoreCases DEF StoreStep
        <3> QED BY <2>1, <3>2, ControlPlaneAssumption DEF AdminKinds
    <2>3. CASE \E d \in Devices : status[d] # "none" /\ status'[d] # status[d] /\ elsewhere' = elsewhere
        <3>1. PICK d \in Devices : status[d] # "none" /\ status'[d] # status[d] /\ elsewhere' = elsewhere
            BY <2>3
        <3>2. ~ \E e \in Devices : Enroll(e)
            BY <3>1 DEF Enroll, InsertRow, Typed, TypeOK, TypeOKIdentity
        <3>3. ~ \E e \in Devices, s \in Statuses : WithdrawElsewhere(e, s)
            BY <3>1 DEF WithdrawElsewhere, Typed, TypeOK, TypeOKIdentity
        <3>4. PICK r \in Requests : SetStatus(r)
            BY <3>1, <3>2, <3>3, IdentityCases DEF IdentityStep, Identify, Enriched, Arrive, ReadBody, Touch, Crash
        <3>5. step[r] = "acting" /\ input[r].kind = "status"
            BY <3>4 DEF SetStatus
        <3> QED BY <2>1, <3>5 DEF AdminKinds
    <2> QED BY <2>2, <2>3
<1> QED BY <1>1, Invariant, PTL DEF Spec, ChangesAreAuthorised

(* A decision that read two policies met a worker thread's reload: the     *)
(* admin's PUT holds the loop from its first write to its last, and        *)
(* decide holds it between its reads.                                      *)
THEOREM OnlyThreadsMix == Spec => []MixedByThread
<1>1. IInv => MixedByThread
    BY DEF IInv, Mixed
<1> QED BY <1>1, Invariant, PTL

(* Once every reload has ended, the policy in force is that of the file,   *)
(* unless the file changed since; and the version is that of the last      *)
(* policy that has one, unless reloads overlapped and none ran alone       *)
(* since: whatever edits, failing disks, unnamed policies and crashes come *)
(* between.                                                                *)
THEOREM ReloadsAlwaysSettle == Spec => []ReloadsSettle
<1>1. IInv => ReloadsSettle
    <2> SUFFICES ASSUME Settled, up, Active(phase) = {}, doubt = "none"
                 PROVE  /\ unread \/ live = file
                        /\ Names(version, named)
                        /\ \A i \in named + 1 .. Len(lineage) : lineage[i].policy \notin Versioned
        BY DEF IInv, ReloadsSettle
    <2>1. \A a \in Reloaders : phase[a] \in {"idle", "done"}
        BY DEF Active
    <2> QED BY <2>1 DEF Settled, Fresh
<1> QED BY <1>1, Invariant, PTL

(* An audit event names a policy whose version was in force at some time   *)
(* from its decision until it is logged, unless reloads overlapped: for    *)
(* any number of reloads while the provider is waited for, also those that *)
(* fail between their two assignments.                                     *)
THEOREM AuditAlwaysNamesPolicy == Spec => AuditNamesPolicy
<1> DEFINE EventNamed ==
        \A r \in Requests : event'[r] # event[r] =>
            \/ doubt # "none"
            \/ \E i \in epoch'[r] .. Len(lineage) : Names(event'[r], i)
<1>1. IInv /\ [Next]_vars => [EventNamed]_vars
    <2> SUFFICES ASSUME Typed, Alive, Settled, EpochsNamed, [Next]_vars,
                        NEW r \in Requests, event'[r] # event[r], doubt = "none"
                 PROVE  \E i \in epoch'[r] .. Len(lineage) : Names(event'[r], i)
        BY DEF IInv
    <2>0. /\ TypeOKIdentity /\ Len(lineage) \in Nat /\ named \in 1 .. Len(lineage)
          /\ event \in [Requests -> {NoVersion} \cup Versions] /\ epoch \in [Requests -> Nat]
        BY LenProperties DEF Typed, TypeOK, TypeOKStore, Versions
    <2>1. Answer(r) \/ PutStatus(r)
        <3>1. ASSUME NEW q \in Requests, Answer(q) \/ PutStatus(q) PROVE q = r
            BY <2>0, <3>1 DEF Answer, PutStatus, LogEvent
        <3> QED BY <3>1 DEF Next, World, Withdrawn, EnrollDevice, Thread, Edited, Crash, Request, Client, Advance,
                PutPolicy, DecideFirst, DecideLast
    <2>2. event'[r] = version /\ step[r] \in {"acting", "decided", "calling"}
        BY <2>0, <2>1 DEF Answer, PutStatus, SetStatus, LogEvent
    <2>3. Names(version, named)
        BY <2>2 DEF Alive, Settled, InFlight, Waiting, OnLoop
    <2>4. epoch'[r] \in Nat /\ epoch'[r] <= named
        <3>1. CASE Answer(r)
            <4>1. epoch' = epoch /\ step[r] \in Decided
                BY <3>1 DEF Answer, Decided
            <4> QED BY <2>0, <4>1 DEF EpochsNamed
        <3>2. CASE PutStatus(r)
            <4>1. epoch'[r] = named
                BY <2>0, <3>2 DEF PutStatus
            <4> QED BY <2>0, <4>1
        <3> QED BY <2>1, <3>1, <3>2
    <2>5. named \in epoch'[r] .. Len(lineage)
        BY <2>0, <2>4
    <2> QED BY <2>2, <2>3, <2>5
<1> QED BY <1>1, Invariant, PTL DEF Spec, AuditNamesPolicy

(* The empty policy is in force only after a crash or a failure in the     *)
(* middle of a write, or overlapping reloads.                              *)
THEOREM EmptyOnlyByAccident == Spec => []EmptyByAccident
<1>1. IInv => EmptyByAccident
    BY DEF IInv, Emptied
<1> QED BY <1>1, Invariant, PTL

(* Concurrent PUTs lose no text of the file but those whose backup another *)
(* of the same second took the name of, and what the operator replaced:    *)
(* for any number of PUTs and edits.                                       *)
THEOREM BackupsAlwaysBound == Spec => []BackupsBound
<1>1. IInv => BackupsBound
    BY DEF IInv, BackupsCounted
<1> QED BY <1>1, Invariant, PTL
=============================================================================
