--------------------------- MODULE DomainLifecycle ---------------------------
(***************************************************************************)
(* The shared runtime of the integration: who creates it, who uses it and  *)
(* who tears it down (custom_components/zemismart_blinds/__init__.py).     *)
(*                                                                         *)
(* Every config entry (one remote) is set up and unloaded by Home          *)
(* Assistant, one call at a time for an entry, any number of entries at    *)
(* once.  The entries share one DomainRuntime, kept in hass.data: the      *)
(* first setup creates it and subscribes to the broker, the last user      *)
(* closes its hub -- unless a disarm is still being retried, in which case *)
(* the clean-up is left to the last disarm and another entry may adopt the *)
(* runtime in the meantime.  A step is what runs between two awaits.       *)
(***************************************************************************)
EXTENDS Integers, FiniteSets

CONSTANTS
    Entries,        \* the config entries
    Nobody,         \* no entry: a free lock
    MaxRuntimes,    \* bound: runtimes created over a behaviour
    Topics,         \* MQTT subscriptions of a runtime (four in the code)
    MaxDisarms      \* bound: disarm requests started over a behaviour

ASSUME EntriesAssumption == IsFiniteSet(Entries) /\ Nobody \notin Entries
ASSUME BoundsAssumption ==
    MaxRuntimes \in Nat /\ Topics \in Nat \ {0} /\ MaxDisarms \in Nat

VARIABLES
    current,        \* hass.data[DOMAIN]: a runtime, or None
    made,           \* runtimes created so far: the next one is made + 1
    users,          \* DomainRuntime.setup_users
    loaded,         \* DomainRuntime.loaded_entries
    subs,           \* subscriptions in DomainRuntime.unsubscribers
    initialized,    \* DomainRuntime.initialized
    lock,           \* holder of DomainRuntime.lifecycle_lock, or Nobody
    closed,         \* ZemismartHub._closed
    disarms,        \* size of ZemismartHub._disarm_requests
    armed,          \* _on_disarms_idle is set (to _finish)
    started,        \* disarm requests started so far (bound)
    pc,             \* where the setup or unload of an entry stands
    runtime         \* the local variable runtime of that call

perRuntime == <<users, loaded, subs, initialized, lock, closed, disarms, armed>>
vars == <<current, made, perRuntime, started, pc, runtime>>

Runtimes == 1..MaxRuntimes
None == 0

SettingUp == {"awaiting_lock", "subscribing", "forwarding"}
Unloading == {"unload_awaiting_lock", "unloading"}
Holding == {"subscribing", "forwarding", "unloading"}
\* "stuck": Home Assistant's FAILED_UNLOAD, which only a restart leaves.
Places == {"idle", "stuck"} \cup SettingUp \cup Unloading

Init ==
    /\ current = None
    /\ made = 0
    /\ users = [r \in Runtimes |-> 0]
    /\ loaded = [r \in Runtimes |-> {}]
    /\ subs = [r \in Runtimes |-> 0]
    /\ initialized = [r \in Runtimes |-> FALSE]
    /\ lock = [r \in Runtimes |-> Nobody]
    /\ closed = [r \in Runtimes |-> FALSE]
    /\ disarms = [r \in Runtimes |-> 0]
    /\ armed = [r \in Runtimes |-> FALSE]
    /\ started = 0
    /\ pc = [e \in Entries |-> "idle"]
    /\ runtime = [e \in Entries |-> None]

-----------------------------------------------------------------------------
(* Teardown *)

\* A mutant: the registrations outlive the runtime.
CleanupOfHub(r) ==
    /\ closed' = [closed EXCEPT ![r] = TRUE]
    /\ disarms' = [disarms EXCEPT ![r] = 0]
    /\ armed' = [armed EXCEPT ![r] = FALSE]
    /\ current' = IF current = r THEN None ELSE current
    /\ UNCHANGED <<subs, initialized>>

\* _clear_domain_registrations, then hub.close(), which cancels every disarm
\* request, then the removal from hass.data.
Cleanup(r) ==
    /\ subs' = [subs EXCEPT ![r] = 0]
    /\ initialized' = [initialized EXCEPT ![r] = FALSE]
    /\ closed' = [closed EXCEPT ![r] = TRUE]
    /\ disarms' = [disarms EXCEPT ![r] = 0]
    /\ armed' = [armed EXCEPT ![r] = FALSE]
    /\ current' = IF current = r THEN None ELSE current

\* What a call that releases nothing leaves alone.
Keep == UNCHANGED <<subs, initialized, closed, disarms, armed, current>>

\* Mutants of the release: at once; without the callback.
ReleaseAtOnce(r) == Cleanup(r)

ReleaseForgetting(r) ==
    IF disarms[r] = 0 THEN Cleanup(r) ELSE Keep

\* _release_domain_runtime: at once, or by the last disarm request.
Release(r) ==
    IF disarms[r] = 0
    THEN Cleanup(r)
    ELSE /\ armed' = [armed EXCEPT ![r] = TRUE]
         /\ UNCHANGED <<subs, initialized, closed, disarms, current>>

\* (ReleaseIgnoringUsers is a mutant.)  The last user of a runtime is the one that releases it: setup_users and
\* loaded_entries as the step leaves them.
ReleaseIgnoringUsers(r) == IF loaded'[r] = {} THEN Release(r) ELSE Keep
ReleaseIfLast(r) ==
    IF loaded'[r] = {} /\ users'[r] = 0 THEN Release(r) ELSE Keep

\* A mutant: a call that fails keeps the lock.
StaysLocked(r, e) == lock

\* Leaving "async with runtime.lifecycle_lock", or the wait for it.
Unlocked(r, e) == IF lock[r] = e THEN [lock EXCEPT ![r] = Nobody] ELSE lock

-----------------------------------------------------------------------------
(* async_setup_entry *)

\* hass.data.setdefault(DOMAIN, candidate), and the turn up to the lock;
\* others: setup_users without this call.
Adopt(e, others) ==
    LET r == IF current = None THEN made + 1 ELSE current IN
    /\ r <= MaxRuntimes
    /\ made' = IF current = None THEN r ELSE made
    /\ current' = r
    /\ users' = [others EXCEPT ![r] = @ + 1]
    /\ runtime' = [runtime EXCEPT ![e] = r]
    /\ pc' = [pc EXCEPT ![e] = "awaiting_lock"]
    /\ UNCHANGED <<loaded, subs, initialized, lock, closed, disarms, armed, started>>

StartSetup(e) ==
    /\ pc[e] = "idle"
    /\ e \notin UNION {loaded[q] : q \in Runtimes}
    /\ Adopt(e, users)

\* The caller has the lock.  It starts over if its runtime was replaced
\* meanwhile; NoDeadRuntime says that this never happens.
EnterSetup(e) ==
    LET r == runtime[e] IN
    /\ pc[e] = "awaiting_lock"
    /\ lock[r] = Nobody
    /\ IF current # r
       THEN Adopt(e, [users EXCEPT ![r] = @ - 1])
       ELSE /\ lock' = [lock EXCEPT ![r] = e]
            /\ pc' = [pc EXCEPT ![e] = IF initialized[r] THEN "forwarding"
                                                         ELSE "subscribing"]
            /\ UNCHANGED <<current, made, users, loaded, subs, initialized, closed,
                           disarms, armed, started, runtime>>

\* One awaited subscription; the last one also sets initialized.
Subscribe(e) ==
    LET r == runtime[e] IN
    /\ pc[e] = "subscribing"
    /\ subs' = [subs EXCEPT ![r] = @ + 1]
    /\ initialized' = [initialized EXCEPT ![r] = subs[r] + 1 = Topics]
    /\ pc' = [pc EXCEPT ![e] = IF subs[r] + 1 = Topics THEN "forwarding" ELSE @]
    /\ UNCHANGED <<current, made, users, loaded, lock, closed, disarms, armed,
                   started, runtime>>

\* The platform is set up; finally: setup_users -= 1.
SetupDone(e) ==
    LET r == runtime[e] IN
    /\ pc[e] = "forwarding"
    /\ loaded' = [loaded EXCEPT ![r] = @ \cup {e}]
    /\ users' = [users EXCEPT ![r] = @ - 1]
    /\ lock' = Unlocked(r, e)
    /\ pc' = [pc EXCEPT ![e] = "idle"]
    /\ Keep
    /\ UNCHANGED <<made, started, runtime>>

\* The call ends in an exception or is cancelled, on the lock or later; a
\* partial initialisation is undone before anything is released.
SetupFails(e) ==
    LET r == runtime[e] IN
    /\ pc[e] \in {"awaiting_lock", "forwarding"}
    /\ users' = [users EXCEPT ![r] = @ - 1]
    /\ lock' = Unlocked(r, e)
    /\ pc' = [pc EXCEPT ![e] = "idle"]
    /\ UNCHANGED <<made, loaded, started, runtime>>
    /\ ReleaseIfLast(r)

\* _clear_domain_registrations before the exception leaves the
\* initialisation.  No disarm can be pending on a runtime not initialised, so
\* a release by the last user is immediate.
SubscribeFails(e) ==
    LET r == runtime[e] IN
    /\ pc[e] = "subscribing"
    /\ users' = [users EXCEPT ![r] = @ - 1]
    /\ lock' = Unlocked(r, e)
    /\ pc' = [pc EXCEPT ![e] = "idle"]
    /\ UNCHANGED <<made, loaded, started, runtime>>
    /\ IF loaded[r] = {} /\ users'[r] = 0
       THEN Cleanup(r)
       ELSE /\ subs' = [subs EXCEPT ![r] = 0]
            /\ UNCHANGED <<initialized, closed, disarms, armed, current>>

-----------------------------------------------------------------------------
(* async_unload_entry *)

\* The drain of the entry's commands is CommandHub's; the call then waits for
\* the lock of the runtime it found.
StartUnload(e) ==
    /\ pc[e] = "idle"
    /\ current # None
    /\ e \in loaded[current]
    /\ runtime' = [runtime EXCEPT ![e] = current]
    /\ pc' = [pc EXCEPT ![e] = "unload_awaiting_lock"]
    /\ UNCHANGED <<current, made, perRuntime, started>>

EnterUnload(e) ==
    /\ pc[e] = "unload_awaiting_lock"
    /\ lock[runtime[e]] = Nobody
    /\ lock' = [lock EXCEPT ![runtime[e]] = e]
    /\ pc' = [pc EXCEPT ![e] = "unloading"]
    /\ UNCHANGED <<current, made, users, loaded, subs, initialized, closed, disarms,
                   armed, started, runtime>>

\* The platform refuses, raises, or the call is cancelled: the entry stays
\* loaded, and Home Assistant does not touch it again before a restart.
UnloadFails(e) ==
    LET r == runtime[e] IN
    /\ pc[e] \in Unloading
    /\ lock' = Unlocked(r, e)
    /\ pc' = [pc EXCEPT ![e] = "stuck"]
    /\ UNCHANGED <<current, made, users, loaded, subs, initialized, closed, disarms,
                   armed, started, runtime>>

UnloadDone(e) ==
    LET r == runtime[e] IN
    /\ pc[e] = "unloading"
    /\ loaded' = [loaded EXCEPT ![r] = @ \ {e}]
    /\ lock' = Unlocked(r, e)
    /\ pc' = [pc EXCEPT ![e] = "idle"]
    /\ UNCHANGED <<made, users, started, runtime>>
    /\ ReleaseIfLast(r)

-----------------------------------------------------------------------------
(* Disarm requests of the hub *)

\* A takeover heard on a subscription, or a relearn, of the current runtime.
StartDisarm ==
    /\ current # None
    /\ initialized[current]
    /\ started < MaxDisarms
    /\ started' = started + 1
    /\ disarms' = [disarms EXCEPT ![current] = @ + 1]
    /\ UNCHANGED <<current, made, users, loaded, subs, initialized, lock, closed,
                   armed, pc, runtime>>

\* A disarm task ends (acknowledged or out of time); the last one calls the
\* one-shot callback, _finish.
EndDisarm(r) ==
    /\ disarms[r] > 0
    /\ UNCHANGED <<made, users, loaded, lock, started, pc, runtime>>
    /\ IF disarms[r] = 1 /\ armed[r] /\ loaded[r] = {} /\ users[r] = 0 /\ current = r
       THEN Cleanup(r)
       ELSE /\ disarms' = [disarms EXCEPT ![r] = @ - 1]
            /\ armed' = IF disarms[r] = 1 THEN [armed EXCEPT ![r] = FALSE] ELSE armed
            /\ UNCHANGED <<subs, initialized, closed, current>>

-----------------------------------------------------------------------------
Operation(e) ==
    \/ StartSetup(e) \/ EnterSetup(e) \/ Subscribe(e) \/ SetupDone(e)
    \/ SetupFails(e) \/ SubscribeFails(e)
    \/ StartUnload(e) \/ EnterUnload(e) \/ UnloadFails(e) \/ UnloadDone(e)

Next ==
    \/ \E e \in Entries : Operation(e)
    \/ StartDisarm
    \/ \E r \in Runtimes : EndDisarm(r)

Spec == Init /\ [][Next]_vars

\* asyncio.Lock serves its waiters in order, so one that waits enters in the
\* end; subscriptions, platforms and disarm retries end or raise.
Fairness ==
    /\ \A e \in Entries :
        /\ SF_vars(EnterSetup(e))
        /\ SF_vars(EnterUnload(e))
        /\ WF_vars(Subscribe(e))
        /\ WF_vars(SetupDone(e))
        /\ WF_vars(UnloadDone(e))
    /\ \A r \in Runtimes : WF_vars(EndDisarm(r))

FairSpec == Spec /\ Fairness

-----------------------------------------------------------------------------
(* Properties *)

\* The types, and who holds the lock: the calls that are inside it.
TypeOK ==
    /\ current \in Runtimes \cup {None}
    /\ made \in 0..MaxRuntimes
    /\ users \in [Runtimes -> Nat]
    /\ loaded \in [Runtimes -> SUBSET Entries]
    /\ subs \in [Runtimes -> 0..Topics]
    /\ initialized \in [Runtimes -> BOOLEAN]
    /\ lock \in [Runtimes -> Entries \cup {Nobody}]
    /\ closed \in [Runtimes -> BOOLEAN]
    /\ disarms \in [Runtimes -> Nat]
    /\ armed \in [Runtimes -> BOOLEAN]
    /\ started \in Nat
    /\ pc \in [Entries -> Places]
    /\ runtime \in [Entries -> Runtimes \cup {None}]
    /\ \A r \in Runtimes, e \in Entries :
        lock[r] = e <=> pc[e] \in Holding /\ runtime[e] = r

\* Whoever is loaded, being set up or being unloaded uses the one current
\* runtime, whose hub is open; any other runtime ever created is closed.  So
\* no entry drives a closed hub or a second one, whatever calls, failures and
\* disarms interleave (setup_users, loaded_entries and the checks of _finish).
NoDeadRuntime ==
    /\ \A e \in Entries : pc[e] \in SettingUp \cup Unloading => runtime[e] = current
    /\ \A r \in Runtimes : loaded[r] # {} \/ users[r] > 0 => current = r
    /\ current # None => ~closed[current]
    /\ \A r \in 1..made : r # current => closed[r]

\* The topics are subscribed once: only by the current runtime, all of them
\* before any entry is loaded, none twice after an initialisation that failed
\* half way, and a part of them only while a call is still subscribing.
SubscribedOnce ==
    \A r \in Runtimes :
        /\ subs[r] > 0 => current = r
        /\ initialized[r] <=> subs[r] = Topics
        /\ loaded[r] # {} => initialized[r]
        /\ subs[r] \in 1..(Topics - 1) =>
            \E e \in Entries : pc[e] = "subscribing" /\ runtime[e] = r

\* A runtime nobody uses is kept only for the disarms that still run, and the
\* callback that will release it is armed then: none is left behind.
NoOrphan ==
    current # None =>
        \/ loaded[current] # {}
        \/ users[current] > 0
        \/ disarms[current] > 0 /\ armed[current]

\* Closing a hub cancels its disarm retries and leaves a fail-safe STOP armed
\* on a bridge: it happens with none pending, or in the task of the last one,
\* never at the end of a set-up or an unload.
DisarmsRunToTheirEnd ==
    [][\A r \in Runtimes :
        closed'[r] /\ ~closed[r] /\ disarms[r] > 0 =>
            disarms[r] = 1 /\ pc' = pc]_vars

\* Under a fair lock every set-up and every unload returns, and a runtime that
\* nobody uses is released or adopted in the end.
CallsReturn ==
    /\ \A e \in Entries : []<>(pc[e] \in {"idle", "stuck"})
    /\ []<>(current # None => loaded[current] # {} \/ users[current] > 0)
=============================================================================
