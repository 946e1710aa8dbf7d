---------------------------- MODULE VaultService ----------------------------
(***************************************************************************)
(* The vault feature: `enable vault [--dev-mode]`, `disable vault`,        *)
(* `vault init`, `unseal` and `authorize-charm`, and `refresh vault`.  In  *)
(* dev mode the keys are stored in clusterd and the commands unseal the    *)
(* units themselves.  A key goes to the leader while the leader is sealed, *)
(* and otherwise to all the other units.  Units restart sealed, the        *)
(* leadership moves, and a command may be killed between two steps.        *)
(***************************************************************************)
EXTENDS FiniteSets, Naturals

CONSTANTS
    Units,
    Threshold,     \* keys that unseal a unit of a vault initialised by hand
    MaxEvents,     \* bound: restarts, moves of the leadership and kills
    MaxCommands    \* bound: commands given

VARIABLES
    deployed, enabled,
    row,        \* VaultDevModeInfo: the vault whose keys it holds, 0 when it holds none
    gen,        \* the vault's keys were made by its gen-th initialisation, 0 before it
    gens,       \* initialisations so far
    mode,       \* who initialised it: "dev" or "manual"
    given,      \* given[u]: the keys u was given since it was sealed
    sealed, joined, leader, authorised,
    secret,     \* the temporary secret of the authorisation is in the model
    channel,    \* "old" is before 1.18, "new" is not
    config,     \* keys of the stored vault-config

    cmd, pc,
    known,      \* the row read when the command started
    rounds,     \* unseal steps left
    asking,     \* units the step waits for to ask for their key
    result,     \* of the last command
    quiet,      \* no unit restarted and the leader stayed since the command started
    fresh,      \* the last command but this one was a `disable` that completed
    lost,       \* a command was killed after initialising, before storing the keys
    events, commands

vault == <<deployed, gen, gens, mode, given, sealed, joined, leader, authorised, channel>>
stored == <<enabled, row, config, secret>>
session == <<cmd, known, asking, result, quiet, fresh, lost>>
vvars == <<vault, stored, session, pc, rounds, events, commands>>

Init ==
    /\ deployed = FALSE /\ enabled = FALSE /\ row = 0 /\ gen = 0 /\ gens = 0 /\ mode = "none"
    /\ given = [u \in Units |-> {}] /\ sealed = Units /\ joined = {}
    /\ leader = (CHOOSE u \in Units : TRUE) /\ authorised = FALSE /\ secret = FALSE
    /\ channel = "old" /\ config = {}
    /\ cmd = "none" /\ pc = "idle" /\ known = 0 /\ rounds = 0 /\ asking = {} /\ result = "none"
    /\ quiet = TRUE /\ fresh = TRUE /\ lost = FALSE /\ events = 0 /\ commands = 0

OneRound == 1

\* auto_unseal_vault goes twice through the one key of dev mode.
Rounds == 2

Goto(step) == pc' = step /\ UNCHANGED <<session, events, commands>>

End(outcome) ==
    /\ pc' = "idle" /\ rounds' = 0 /\ result' = outcome
    /\ fresh' = IF cmd = "disable" THEN outcome = "completed" ELSE fresh
    /\ asking' = {}
    /\ UNCHANGED <<cmd, known, quiet, lost, events, commands>>

Command(name, first) ==
    /\ pc = "idle" /\ commands < MaxCommands /\ commands' = commands + 1
    /\ cmd' = name /\ pc' = first /\ known' = row /\ result' = "running" /\ quiet' = TRUE
    /\ fresh' = (fresh /\ name = "enable_dev")
    /\ UNCHANGED <<vault, stored, rounds, asking, lost, events>>

----------------------------------------------------------------------------
(* The workload *)

SealedAgain(us) ==
    /\ sealed' = sealed \cup us
    /\ given' = [u \in Units |-> IF u \in us THEN {} ELSE given[u]]

\* The other units join the raft of the unsealed leader.
Join(u) ==
    /\ deployed /\ gen # 0 /\ leader \notin sealed /\ u \notin joined
    /\ joined' = joined \cup {u}
    /\ UNCHANGED <<deployed, gen, gens, mode, given, sealed, leader, authorised, channel,
                   stored, session, pc, rounds, events, commands>>

Disturb == events < MaxEvents /\ events' = events + 1 /\ quiet' = FALSE /\ fresh' = FALSE

Restart(u) ==
    /\ deployed /\ Disturb /\ SealedAgain({u})
    /\ UNCHANGED <<deployed, gen, gens, mode, joined, leader, authorised, channel, stored,
                   cmd, known, asking, result, lost, pc, rounds, commands>>

MoveLeader(u) ==
    /\ deployed /\ u # leader /\ Disturb /\ leader' = u
    /\ UNCHANGED <<deployed, gen, gens, mode, given, sealed, joined, authorised, channel, stored,
                   cmd, known, asking, result, lost, pc, rounds, commands>>

----------------------------------------------------------------------------
(* sunbeam enable vault, sunbeam disable vault *)

\* The mode is checked against the stored one, which only dev mode stores.
Enable == row = 0 /\ Command("enable", "deploy")
EnableDev == Command("enable_dev", "deploy")

run_enable_plans ==
    /\ pc = "deploy" /\ Goto("flag") /\ deployed' = TRUE
    /\ UNCHANGED <<gen, gens, mode, given, sealed, joined, leader, authorised, channel, stored, rounds>>

Disabling == <<"undeploy", "unflag", "clear", "done">>

FeatureEnabled ==
    /\ pc = "flag" /\ enabled' = TRUE
    /\ IF cmd = "enable" THEN End("completed")
       ELSE IF known # 0 THEN Goto("unseal") /\ rounds' = Rounds
       ELSE Goto("init") /\ UNCHANGED rounds
    /\ UNCHANGED <<vault, row, config, secret>>

\* disable_cmd: the plans, the flag, and only then the stored keys
Disable == Command("disable", Disabling[1])

After(step) == Disabling[1 + CHOOSE i \in 1..3 : Disabling[i] = step]

run_disable_plans ==
    /\ pc = "undeploy" /\ Goto(After("undeploy"))
    /\ deployed' = FALSE /\ gen' = 0 /\ mode' = "none" /\ joined' = {} /\ authorised' = FALSE
    /\ SealedAgain(Units)
    /\ UNCHANGED <<gens, leader, channel, stored, rounds>>

FeatureDisabled ==
    /\ pc = "unflag" /\ Goto(After("unflag")) /\ enabled' = FALSE
    /\ UNCHANGED <<vault, row, config, secret, rounds>>

Cleared ==
    /\ pc = "clear" /\ Goto(After("clear")) /\ row' = 0
    /\ UNCHANGED <<vault, enabled, config, secret, rounds>>

Disabled == pc = "done" /\ End("completed") /\ UNCHANGED <<vault, stored>>

----------------------------------------------------------------------------
(* VaultInitStep, VaultUnsealStep, AuthorizeVaultCharmStep *)

Initialised(by) ==
    /\ gen = 0
    /\ gen' = gens + 1 /\ gens' = gens + 1 /\ mode' = by /\ joined' = {leader}
    /\ UNCHANGED <<deployed, given, sealed, leader, authorised, channel>>

\* A vault already initialised gives no keys: the step is skipped, and its
\* message is not what the command expects.
VaultInitStep ==
    /\ pc = "init"
    /\ \/ Initialised("dev") /\ Goto("store") /\ UNCHANGED rounds
       \/ gen # 0 /\ End("failed") /\ UNCHANGED vault
    /\ UNCHANGED stored

StoreKeys ==
    /\ pc = "store" /\ Goto("unseal") /\ row' = gen /\ rounds' = Rounds
    /\ UNCHANGED <<vault, enabled, config, secret>>

Needed == IF mode = "dev" THEN 1 ELSE Threshold

\* Keys given to an unsealed unit change nothing.
Give(us, k) ==
    LET now == [u \in Units |-> IF u \in us \cap sealed THEN given[u] \cup {k} ELSE given[u]]
    IN  /\ given' = now
        /\ sealed' = {u \in sealed : Cardinality(now[u]) < Needed}
        /\ UNCHANGED <<deployed, gen, gens, mode, joined, leader, authorised, channel>>

Others == Units \ {leader}

\* Keys of another vault, and units that have not joined, are refused.
Accepts(us, g) == gen # 0 /\ g = gen /\ us \subseteq joined

\* The outcomes of a step given key k of vault g: the leader has its last key,
\* or the step is done, or it fails.
LeaderOpened(k, g) ==
    /\ leader \in sealed /\ Accepts({leader}, g) /\ Give({leader}, k)
    /\ leader \notin sealed' /\ Others # {}
    /\ pc' = "wait" /\ asking' = Others

UnsealDone(k, g) ==
    \/ /\ leader \in sealed /\ Accepts({leader}, g) /\ Give({leader}, k)
       /\ leader \in sealed' \/ Others = {}
    \/ leader \notin sealed /\ Accepts(Others, g) /\ Give(Others, k)

UnsealFails(k, g) ==
    /\ ~Accepts(IF leader \in sealed THEN {leader} ELSE Others, g)
    /\ UNCHANGED vault

RoundDone ==
    /\ rounds' = rounds - 1 /\ pc' = (IF rounds = 1 THEN "token" ELSE "unseal") /\ asking' = {}
    /\ UNCHANGED <<cmd, known, result, quiet, fresh, lost, events, commands>>

\* A failure stops `enable`; the refresh tells the operator to unseal by hand.
UnsealFailed == End(IF cmd = "refresh" THEN "sealed" ELSE "failed")

auto_unseal_vault ==
    /\ pc = "unseal"
    /\ \/ /\ LeaderOpened(1, row)
          /\ UNCHANGED <<cmd, known, result, quiet, fresh, lost, rounds, events, commands>>
       \/ UnsealDone(1, row) /\ RoundDone
       \/ UnsealFails(1, row) /\ UnsealFailed
    /\ UNCHANGED stored

AfterLeader == IF cmd = "by_hand" THEN End("completed") ELSE RoundDone

AwaitForever ==
    /\ pc = "wait" /\ asking \subseteq joined \cap sealed /\ AfterLeader
    /\ UNCHANGED <<vault, stored>>

\* After the leader's last key the step waits until every other unit asks for
\* one, which an unsealed unit never does and one that cannot join neither.
AwaitOthers ==
    /\ pc = "wait"
    /\ \/ asking \subseteq joined \cap sealed /\ AfterLeader
       \/ /\ ~(asking \subseteq sealed) \/ (leader \in sealed /\ ~(asking \subseteq joined))
          /\ UnsealFailed
    /\ UNCHANGED <<vault, stored>>

create_token ==
    /\ pc = "token"
    /\ IF leader \notin sealed /\ row = gen
       THEN secret' = TRUE /\ Goto("authorize") /\ UNCHANGED rounds
       ELSE UnsealFailed /\ UNCHANGED secret
    /\ UNCHANGED <<vault, enabled, row, config>>

authorize_charm ==
    /\ pc = "authorize"
    /\ IF leader \notin sealed
       THEN authorised' = TRUE /\ secret' = FALSE /\ End("unsealed")
       ELSE UnsealFailed /\ UNCHANGED <<authorised, secret>>
    /\ UNCHANGED <<deployed, gen, gens, mode, given, sealed, joined, leader, channel,
                   enabled, row, config>>

\* The same steps given by hand
ByHand ==
    /\ pc = "idle" /\ enabled /\ deployed /\ commands < MaxCommands /\ commands' = commands + 1
    /\ cmd' = "by_hand" /\ result' = "none" /\ quiet' = TRUE /\ fresh' = FALSE
    /\ UNCHANGED <<rounds, known, lost, events>>

initialize_vault == ByHand /\ Initialised("manual") /\ UNCHANGED <<stored, pc, asking>>

unseal_vault(k) ==
    /\ ByHand /\ mode = "manual"
    /\ \/ LeaderOpened(k, gen)
       \/ (UnsealDone(k, gen) \/ UnsealFails(k, gen)) /\ UNCHANGED <<pc, asking>>
    /\ UNCHANGED stored

authorize_by_hand ==
    /\ ByHand /\ gen # 0 /\ leader \notin sealed
    /\ authorised' = TRUE /\ secret' = FALSE
    /\ UNCHANGED <<deployed, gen, gens, mode, given, sealed, joined, leader, channel,
                   enabled, row, config, pc, asking>>

----------------------------------------------------------------------------
(* sunbeam refresh vault: VaultCharmUpgradeStep *)

vault_pki_config_key(ch) ==
    IF ch = "new" THEN {"pki_ca_common_name", "pki_allow_subdomains"} ELSE {"common_name"}

migrate_vault_config_in_db(ch) == IF config = {} THEN {} ELSE vault_pki_config_key(ch)

\* features/tls/vault.py stores the configuration for the deployed channel.
ConfigureTls ==
    /\ pc = "idle" /\ deployed /\ config = {}
    /\ config' = vault_pki_config_key(channel)
    /\ UNCHANGED <<vault, enabled, row, secret, session, pc, rounds, events, commands>>

Refresh == deployed /\ Command("refresh", "refresh")

\* The pods restart.  A charm that is up to date still has its stored
\* configuration migrated and applied.
CharmRefreshed ==
    /\ pc = "refresh" /\ Goto("migrate")
    /\ IF channel = "old"
       THEN channel' = "new" /\ SealedAgain(Units) /\ rounds' = 1
       ELSE rounds' = 0 /\ UNCHANGED <<channel, given, sealed>>
    /\ UNCHANGED <<deployed, gen, gens, mode, joined, leader, authorised, stored>>

Migrated ==
    /\ pc = "migrate" /\ config' = migrate_vault_config_in_db(channel)
    /\ IF rounds = 0 THEN End("completed") ELSE Goto("status") /\ rounds' = Rounds
    /\ UNCHANGED <<vault, enabled, row, secret>>

\* An unsealed leader is refused, and without stored keys the operator unseals.
SealStatus ==
    /\ pc = "status"
    /\ IF leader \notin sealed THEN End("failed")
       ELSE IF row = 0 THEN End("sealed")
       ELSE Goto("unseal") /\ UNCHANGED rounds
    /\ UNCHANGED <<vault, stored>>

----------------------------------------------------------------------------
Killed ==
    /\ pc # "idle" /\ events < MaxEvents /\ events' = events + 1
    /\ pc' = "idle" /\ rounds' = 0 /\ asking' = {} /\ result' = "killed" /\ fresh' = FALSE
    /\ lost' = (lost \/ pc = "store")
    /\ UNCHANGED <<vault, stored, cmd, known, quiet, commands>>

Step ==
    \/ run_enable_plans \/ FeatureEnabled \/ run_disable_plans \/ FeatureDisabled \/ Cleared
    \/ Disabled \/ VaultInitStep \/ StoreKeys \/ auto_unseal_vault \/ AwaitOthers \/ create_token
    \/ authorize_charm \/ CharmRefreshed \/ Migrated \/ SealStatus

Next ==
    \/ Step \/ Killed
    \/ Enable \/ EnableDev \/ Disable \/ Refresh \/ ConfigureTls
    \/ initialize_vault \/ authorize_by_hand \/ \E k \in 1..Threshold : unseal_vault(k)
    \/ \E u \in Units : Join(u) \/ Restart(u) \/ MoveLeader(u)

\* A command goes on, and units join a leader that stays unsealed.
Fairness == WF_vvars(Step) /\ \A u \in Units : WF_vvars(Join(u))

Spec == Init /\ [][Next]_vvars /\ Fairness

----------------------------------------------------------------------------
(* Properties *)

TypeOK ==
    /\ row \in 0..gens /\ gen \in 0..gens /\ gens \in 0..MaxCommands
    /\ given \in [Units -> SUBSET (1..Threshold)] /\ sealed \subseteq Units /\ joined \subseteq Units
    /\ (gen = 0) = (mode = "none") /\ (gen = 0 => sealed = Units)
    /\ rounds \in 0..Rounds /\ (asking # {} => pc = "wait") /\ (pc = "idle" => rounds = 0)
    /\ \A u \in Units : u \notin sealed => Cardinality(given[u]) >= Needed

\* When `enable --dev-mode` or `refresh vault` reports that it unsealed the
\* vault, every unit is unsealed and the charm is authorised, unless a unit
\* restarted or the leadership moved meanwhile.
AutoUnsealed == result = "unsealed" /\ quiet => sealed = {} /\ authorised

\* A vault that dev mode initialised can be opened with the stored keys as long
\* as it runs, whatever command was killed where, but for a kill between the
\* initialisation and the write of its keys.
KeysKept == pc = "idle" /\ mode = "dev" /\ ~lost => row = gen

\* After a `disable` that completed, `enable --dev-mode` succeeds whatever
\* happened to the vault before.
FreshEnableSucceeds == fresh => result # "failed"

\* A completed refresh leaves the stored configuration with the keys the
\* charm's channel knows, also when an earlier refresh was killed after the
\* charm was refreshed.
ConfigFits ==
    cmd = "refresh" /\ result \in {"completed", "unsealed", "sealed"}
        => config \in {{}, vault_pki_config_key(channel)}

\* A vault of dev mode opens with what is stored, and its configuration fits its
\* charm, whatever was killed where.
VaultOpens == AutoUnsealed /\ KeysKept /\ FreshEnableSucceeds /\ ConfigFits

\* Every command ends, if only because a unit never asks for its key.
CommandsEnd == pc # "idle" ~> pc = "idle"

=============================================================================
