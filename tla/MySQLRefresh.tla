---------------------------- MODULE MySQLRefresh ----------------------------
(***************************************************************************)
(* `sunbeam cluster refresh mysql`: the mysql-router applications are      *)
(* refreshed first, then the mysql charm is upgraded through states that   *)
(* are kept in clusterd so that a command that fails or is killed can be   *)
(* given again.  Meanwhile the charms go on by themselves and revisions    *)
(* are released.  The manifest names the charms' channels, no revisions.   *)
(***************************************************************************)
EXTENDS Naturals, FiniteSets

CONSTANTS
    Routers,        \* mysql-router applications
    Scale0,         \* the units of mysql before any upgrade
    SettlePolls,    \* REFRESH_SETTLE_POLLS
    MaxResume,      \* MAX_RESUME_ATTEMPTS
    MaxRev,         \* bound: revisions released
    MaxStops        \* bound: commands that fail or are killed

VARIABLES
    latest,    \* the latest revision of the channel
    rev,       \* the revision of the mysql charm
    scale,     \* its units
    stack,     \* units on the charm's upgrade stack
    ordered,   \* the charm was refreshed, and units on the stack run the old revision
    open,      \* resume-upgrade has let all units upgrade
    router,    \* router[r]: the revision of r and the phase of its refresh
    saved,     \* the persisted state: st, 0 when there is none, and the original scale
    pc,        \* where the command is
    todo,      \* apps_to_refresh
    wait,      \* apps_to_wait, with the polls and the resumes of each
    fresh,     \* _refresh_start: the routers this command refreshed
    failed,    \* a router application failed
    lost,      \* the user dropped the persisted state, or scaling back failed
    stops

charm == <<rev, scale, stack, ordered, open>>
step == <<pc, todo, wait, fresh, failed>>
qvars == <<latest, charm, router, saved, step, lost, stops>>

Phases == {"settled", "ordered", "first_unit", "paused", "other_units"}
NoState == [st |-> 0, scale |-> 0]
Polling(apps) == [r \in apps |-> [polls |-> 0, resumes |-> 0]]

\* MySQLUpgradeState, in its order
RECORDED == 1
SCALED_UP == 2
PRECHECK_DONE == 3
HIGHEST_UNIT_UPGRADED == 4
UPGRADE_RESUMED == 5
UNITS_SETTLED == 6
SCALED_BACK == 7

\* The next odd number of units
_target_scale_for_upgrade(original) ==
    IF original % 2 = 0 THEN original + 1 ELSE original + 2

----------------------------------------------------------------------------
Init ==
    /\ latest = 1 /\ rev = 1 /\ scale = Scale0 /\ stack = 0 /\ ordered = FALSE /\ open = FALSE
    /\ router = [r \in Routers |-> [rev |-> 1, phase |-> "settled"]]
    /\ saved = NoState /\ pc = "idle" /\ todo = {} /\ fresh = {} /\ failed = FALSE
    /\ wait = Polling({})
    /\ lost = FALSE /\ stops = 0

Release ==
    /\ latest < MaxRev /\ latest' = latest + 1
    /\ UNCHANGED <<charm, router, saved, step, lost, stops>>

\* The plan is made; --reset-mysql-upgrade-state deletes the state there.
Refresh(reset) ==
    /\ pc = "idle"
    /\ pc' = "routers" /\ failed' = FALSE
    /\ saved' = IF reset THEN NoState ELSE saved
    /\ lost' = (lost \/ (reset /\ saved # NoState))
    /\ UNCHANGED <<latest, charm, router, todo, wait, fresh, stops>>

EndKeepingWait == pc' = "idle" /\ todo' = {} /\ UNCHANGED <<fresh, wait>>

EndCommand == pc' = "idle" /\ todo' = {} /\ fresh' = {} /\ wait' = Polling({})

----------------------------------------------------------------------------
(* MySQLRouterCharmRefreshStep *)

in_channel_refresh_needed(r) == router[r].rev # latest

UpgradeInProgress == saved # NoState

\* Those behind, paused, or with a unit that still upgrades
AppsToWait == {r \in Routers : in_channel_refresh_needed(r) \/ router[r].phase # "settled"}

RouterIsSkip ==
    /\ pc = "routers"
    /\ IF UpgradeInProgress \/ AppsToWait = {}
       THEN pc' = "mysql" /\ UNCHANGED <<todo, wait>>
       ELSE /\ pc' = "refresh_routers"
            /\ todo' = {r \in Routers : in_channel_refresh_needed(r)}
            /\ wait' = Polling(AppsToWait)
    /\ UNCHANGED <<latest, charm, router, saved, fresh, failed, lost, stops>>

\* pre-refresh-check passes, and the charm is refreshed.
RefreshRouter(r) ==
    /\ pc = "refresh_routers" /\ r \in todo
    /\ todo' = todo \ {r}
    /\ router' = [router EXCEPT ![r] = [rev |-> latest, phase |-> "ordered"]]
    /\ fresh' = fresh \cup {r}
    /\ UNCHANGED <<latest, charm, saved, pc, wait, failed, lost, stops>>

\* pre-refresh-check fails: this one is given up, the others go on.
RefreshRefused(r) ==
    /\ pc = "refresh_routers" /\ r \in todo /\ stops < MaxStops
    /\ stops' = stops + 1
    /\ todo' = todo \ {r} /\ failed' = TRUE
    /\ wait' = [x \in DOMAIN wait \ {r} |-> wait[x]]
    /\ UNCHANGED <<latest, charm, router, saved, pc, fresh, lost>>

AllRefreshed ==
    /\ pc = "refresh_routers" /\ todo = {}
    /\ pc' = "wait_routers"
    /\ UNCHANGED <<latest, charm, router, saved, todo, wait, fresh, failed, lost, stops>>

Healthy(r) == router[r].phase \in {"settled", "ordered"}

\* Active and idle for as many polls in a row; one poll is enough for a router
\* that this command did not refresh.
_refresh_done(r) == Healthy(r) /\ wait[r].polls >= (IF r \in fresh THEN SettlePolls ELSE 1)

\* A poll of a router that looks healthy.  The units of one that was just
\* refreshed look so too; they begin before the polls are enough.
PollHealthy(r) ==
    /\ pc = "wait_routers" /\ r \in DOMAIN wait
    /\ Healthy(r)
    /\ wait[r].polls < (IF router[r].phase = "settled" THEN SettlePolls ELSE SettlePolls - 1)
    /\ wait' = [wait EXCEPT ![r].polls = @ + 1]
    /\ UNCHANGED <<latest, charm, router, saved, pc, todo, fresh, failed, lost, stops>>

PollBusy(r) ==
    /\ pc = "wait_routers" /\ r \in DOMAIN wait
    /\ ~Healthy(r) /\ wait[r].polls # 0
    /\ wait' = [wait EXCEPT ![r].polls = 0]
    /\ UNCHANGED <<latest, charm, router, saved, pc, todo, fresh, failed, lost, stops>>

\* resume-refresh on the leader; it may not unstick the application.
_resume(r) ==
    /\ pc = "wait_routers" /\ r \in DOMAIN wait
    /\ router[r].phase = "paused" /\ wait[r].resumes < MaxResume
    /\ wait' = [wait EXCEPT ![r] = [polls |-> 0, resumes |-> @.resumes + 1]]
    /\ \/ router' = [router EXCEPT ![r].phase = "other_units"] /\ UNCHANGED stops
       \/ stops < MaxStops /\ stops' = stops + 1 /\ UNCHANGED router
    /\ UNCHANGED <<latest, charm, saved, pc, todo, fresh, failed, lost>>

GiveUp(r) ==
    /\ pc = "wait_routers" /\ r \in DOMAIN wait
    /\ router[r].phase = "paused" /\ wait[r].resumes = MaxResume
    /\ failed' = TRUE
    /\ wait' = [x \in DOMAIN wait \ {r} |-> wait[x]]
    /\ UNCHANGED <<latest, charm, router, saved, pc, todo, fresh, lost, stops>>

\* _wait_for_apps returns; a failure ends the command before mysql is touched.
RoutersDone ==
    /\ pc = "wait_routers" /\ \A r \in DOMAIN wait : _refresh_done(r)
    /\ IF failed
       THEN EndCommand
       ELSE pc' = "mysql" /\ wait' = Polling({}) /\ UNCHANGED <<todo, fresh>>
    /\ UNCHANGED <<latest, charm, router, saved, failed, lost, stops>>

----------------------------------------------------------------------------
(* MySQLCharmUpgradeStep *)

SkipByRevision == rev = latest \/ (stack # 0 /\ saved = NoState)

\* Skipped when the charm is the latest and its stack is empty, or when an
\* upgrade goes on that this command has no state of
MySQLIsSkip ==
    \/ rev = latest /\ stack = 0
    \/ stack # 0 /\ saved = NoState

BeginMySQL ==
    /\ pc = "mysql"
    /\ IF MySQLIsSkip
       THEN pc' = "reapply"
       ELSE pc' = "upgrade"
    /\ UNCHANGED <<latest, charm, router, saved, todo, wait, fresh, failed, lost, stops>>

Reached(st) == saved.st >= st
_set_state(st) == saved' = [saved EXCEPT !.st = st]

RecordAlways == ~Reached(SCALED_UP) /\ saved.scale # scale

RecordNeeded == ~Reached(RECORDED)

record_original_state ==
    /\ pc = "upgrade" /\ RecordNeeded
    /\ saved' = [st |-> RECORDED, scale |-> scale]
    /\ UNCHANGED <<latest, charm, router, step, lost, stops>>

\* The scale is ordered, and the state kept when the units are active.
scale_up ==
    /\ pc = "upgrade" /\ ~RecordNeeded /\ ~Reached(SCALED_UP)
    /\ IF scale = _target_scale_for_upgrade(saved.scale)
       THEN _set_state(SCALED_UP) /\ UNCHANGED scale
       ELSE scale' = _target_scale_for_upgrade(saved.scale) /\ UNCHANGED saved
    /\ UNCHANGED <<latest, rev, stack, ordered, open, router, step, lost, stops>>

\* pre-upgrade-check puts every unit on the stack.
run_precheck ==
    /\ pc = "upgrade" /\ Reached(SCALED_UP) /\ ~Reached(PRECHECK_DONE)
    /\ IF stack = scale
       THEN _set_state(PRECHECK_DONE) /\ UNCHANGED stack
       ELSE stack' = scale /\ UNCHANGED saved
    /\ UNCHANGED <<latest, rev, scale, ordered, open, router, step, lost, stops>>

RefreshDue == Reached(PRECHECK_DONE) /\ ~Reached(HIGHEST_UNIT_UPGRADED)

charm_refresh ==
    /\ pc = "upgrade" /\ RefreshDue
    /\ rev' = latest
    /\ ordered' = (ordered \/ rev # latest)
    /\ pc' = "highest"
    /\ UNCHANGED <<latest, scale, stack, open, router, saved, todo, wait, fresh, failed, lost, stops>>

\* _wait_for_highest_upgrade
HighestUpgraded ==
    /\ pc = "highest" /\ stack < scale
    /\ _set_state(HIGHEST_UNIT_UPGRADED)
    /\ pc' = "upgrade"
    /\ UNCHANGED <<latest, charm, router, todo, wait, fresh, failed, lost, stops>>

ResumeDue == pc = "upgrade" /\ Reached(HIGHEST_UNIT_UPGRADED) /\ ~Reached(UPGRADE_RESUMED)

\* The charm resumes once, while only the highest unit is upgraded.
resume_upgrade ==
    /\ ResumeDue /\ stack = scale - 1 /\ ~open
    /\ open' = TRUE
    /\ pc' = "resumed"
    /\ UNCHANGED <<latest, rev, scale, stack, ordered, router, saved, todo, wait, fresh, failed, lost, stops>>

Resumed ==
    /\ pc = "resumed"
    /\ _set_state(UPGRADE_RESUMED) /\ pc' = "upgrade"
    /\ UNCHANGED <<latest, charm, router, todo, wait, fresh, failed, lost, stops>>

ResumeRefused ==
    /\ ResumeDue /\ (stack # scale - 1 \/ open)
    /\ EndCommand
    /\ UNCHANGED <<latest, charm, router, saved, failed, lost, stops>>

wait_until_active ==
    /\ pc = "upgrade" /\ Reached(UPGRADE_RESUMED) /\ ~Reached(UNITS_SETTLED)
    /\ stack = 0
    /\ _set_state(UNITS_SETTLED)
    /\ UNCHANGED <<latest, charm, router, step, lost, stops>>

\* Done only from the scale the upgrade made
scale_back ==
    /\ pc = "upgrade" /\ Reached(UNITS_SETTLED) /\ ~Reached(SCALED_BACK)
    /\ IF scale = _target_scale_for_upgrade(saved.scale)
       THEN scale' = saved.scale /\ pc' = "scaled_back"
       ELSE pc' = "end" /\ UNCHANGED scale
    /\ UNCHANGED <<latest, rev, stack, ordered, open, router, saved, todo, wait, fresh, failed, lost, stops>>

ScaledBack ==
    /\ pc = "scaled_back"
    /\ _set_state(SCALED_BACK) /\ pc' = "end"
    /\ UNCHANGED <<latest, charm, router, todo, wait, fresh, failed, lost, stops>>

\* A failure to scale back is logged and the upgrade counts as done.
ScaleBackFails ==
    /\ pc = "upgrade" /\ Reached(UNITS_SETTLED) /\ ~Reached(SCALED_BACK) /\ stops < MaxStops
    /\ stops' = stops + 1
    /\ lost' = TRUE /\ pc' = "end"
    /\ UNCHANGED <<latest, charm, router, saved, todo, wait, fresh, failed>>

_reset_state ==
    /\ pc = "end" \/ (pc = "upgrade" /\ Reached(SCALED_BACK))
    /\ saved' = NoState
    /\ pc' = "reapply"
    /\ UNCHANGED <<latest, charm, router, todo, wait, fresh, failed, lost, stops>>

\* ReapplyMySQLTerraformPlanStep applies the plan to the same applications.
Reapply ==
    /\ pc = "reapply"
    /\ EndCommand
    /\ UNCHANGED <<latest, charm, router, saved, failed, lost, stops>>

\* A wait times out, an action or a call fails, or the command is killed.
Stop ==
    /\ pc # "idle" /\ stops < MaxStops
    /\ stops' = stops + 1
    /\ EndCommand
    /\ UNCHANGED <<latest, charm, router, saved, failed, lost>>

----------------------------------------------------------------------------
(* The charms *)

\* The highest unit upgrades by itself, the others once the upgrade is resumed.
UnitUpgrades ==
    /\ ordered /\ stack > 0
    /\ stack < scale => open
    /\ stack' = stack - 1
    /\ open' = (open /\ stack > 1) /\ ordered' = (stack > 1)
    /\ UNCHANGED <<latest, rev, scale, router, saved, step, lost, stops>>

RouterGoesOn(r) ==
    /\ router[r].phase \in {"ordered", "first_unit", "other_units"}
    /\ router' = [router EXCEPT ![r].phase =
           CASE @ = "ordered" -> "first_unit"
             [] @ = "first_unit" -> "paused"
             [] @ = "other_units" -> "settled"]
    /\ UNCHANGED <<latest, charm, saved, step, lost, stops>>

----------------------------------------------------------------------------
RouterStep ==
    \/ RouterIsSkip \/ AllRefreshed \/ RoutersDone
    \/ \E r \in Routers :
          RefreshRouter(r) \/ PollHealthy(r) \/ PollBusy(r) \/ _resume(r) \/ GiveUp(r)

MySQLStep ==
    \/ BeginMySQL \/ record_original_state \/ scale_up \/ run_precheck
    \/ charm_refresh \/ HighestUpgraded \/ resume_upgrade \/ Resumed \/ ResumeRefused
    \/ wait_until_active \/ scale_back \/ ScaledBack \/ _reset_state \/ Reapply

Charms == UnitUpgrades \/ \E r \in Routers : RouterGoesOn(r)

Next ==
    \/ Release \/ Refresh(TRUE) \/ Refresh(FALSE) \/ RouterStep \/ MySQLStep \/ Charms
    \/ ScaleBackFails \/ Stop \/ \E r \in Routers : RefreshRefused(r)

\* The commands and the charms go on, and the user gives the command again.
Fairness ==
    /\ WF_qvars(RouterStep) /\ WF_qvars(MySQLStep)
    /\ WF_qvars(UnitUpgrades) /\ \A r \in Routers : WF_qvars(RouterGoesOn(r))
    /\ WF_qvars(Refresh(FALSE))

Spec == Init /\ [][Next]_qvars /\ Fairness

----------------------------------------------------------------------------
(* Properties *)

TypeOK ==
    /\ latest \in 1..MaxRev /\ rev \in 1..latest
    /\ scale \in Nat \ {0} /\ stack \in 0..scale
    /\ open \in BOOLEAN /\ ordered \in BOOLEAN /\ failed \in BOOLEAN /\ lost \in BOOLEAN
    /\ router \in [Routers -> [rev : 1..latest, phase : Phases]]
    /\ saved.st \in 0..SCALED_BACK /\ (saved.st = 0 <=> saved = NoState)
    /\ todo \subseteq DOMAIN wait /\ DOMAIN wait \subseteq Routers /\ fresh \subseteq Routers
    /\ \A r \in DOMAIN wait : wait[r] \in [polls : 0..SettlePolls, resumes : 0..MaxResume]
    /\ stops \in 0..MaxStops
    /\ pc = "idle" => wait = Polling({}) /\ fresh = {}

\* The routers a command refreshes have settled before it touches the database.
RoutersFirst ==
    pc \in {"mysql", "upgrade", "highest", "resumed"} =>
        \A r \in fresh : router[r].phase = "settled"

\* The scale an upgrade began with is the database's or is persisted, unless the
\* user dropped that state or scaling back failed.
ScaleRecorded == scale = Scale0 \/ saved.scale = Scale0 \/ lost

\* However often an upgrade is stopped and given again, its order is kept:
\* routers first, the charm of the database replaced only with a unit more than
\* before and after pre-upgrade-check, whichever command did these, and the
\* scale it began with never forgotten.
UpgradeOrdered ==
    [][/\ RoutersFirst' /\ ScaleRecorded'
       /\ rev' # rev => stack > 0 /\ scale = _target_scale_for_upgrade(saved.scale)]_qvars

\* An upgrade the code leaves to the user: one whose persisted state was dropped,
\* and one stopped between resume-upgrade and the write of its state.
Manual ==
    \/ stack # 0 /\ saved = NoState
    \/ saved.st = HIGHEST_UNIT_UPGRADED /\ stack = 0

\* Giving the command again brings the database to the latest revision.
Upgraded == (rev = latest /\ stack = 0) \/ Manual
=============================================================================
