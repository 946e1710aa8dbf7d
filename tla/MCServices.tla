----------------------------- MODULE MCServices -----------------------------
(* Commands with state of their own.  A behaviour takes one of the parts   *)
(*   "boot"      the Juju controller moves from LXD to Kubernetes;         *)
(*   "mysql"     mysql-k8s and the routers are upgraded;                   *)
(*   "storage"   storage backends are added and removed by two sessions;   *)
(*   "vault"     vault is initialised, unsealed, restarted and refreshed;  *)
(*   "identity"  identity providers come and go.                           *)
(* In each part the commands of the others rest.                           *)
EXTENDS StorageBackends, Sequences

CONSTANTS
    Routers, Scale0, SettlePolls, MaxResume, MaxRev,
    Units, Threshold, MaxEvents,
    External, Canonical, Nodes, Profiles,
    BootStops, MySQLStops, VaultCommands    \* bounds of the parts

\* MySQL has a unit and Vault needs a key; no provider is both of Canonical and of another,
\* nor has the name of the certificate or of no provider.
ASSUME ServicesAssumption ==
    /\ {Scale0, SettlePolls, MaxRev} \subseteq Nat \ {0}
    /\ {MaxResume, BootStops, MySQLStops} \subseteq Nat
    /\ External \cap Canonical = {} /\ Profiles \subseteq External \cup Canonical
    /\ {"saml", "nobody"} \cap (External \cup Canonical) = {}
    /\ Units # {} /\ Threshold \in Nat \ {0} /\ VaultCommands \in Nat

VARIABLES
    part,
    external, current, login, up, models, machine, moving, db, migrated, user, bootRow,
    account, backup, apps, done, jhelper, token, bootPc, bootStops,
    latest, rev, scale, stack, ordered, open, router, saved, mysqlPc, mysqlTodo, wait,
    mysqlFresh, failed, mysqlLost, mysqlStops,
    vault, enabled, row, gen, gens, mode, keys, sealed, joined, leader, authorised,
    vaultSecret, channel, config, vaultCmd, vaultPc, known, rounds, asking, vaultResult, quiet,
    fresh, lost, events, commands,
    cfg, top, tfvars, file, providers, saas, idAnswers, secret, secretId, idPc, cmd, node,
    idTarget, version, todo, result, want, idStopped, stale, idStops, idGiven

B == INSTANCE JujuBootstrap
       WITH Machine0Apps <- <<"sunbeam-machine", "k8s">>,
            LaterApps <- <<"microceph", "openstack", "hypervisor">>,
            MaxStops <- BootStops, row <- bootRow, pc <- bootPc, stops <- bootStops
Q == INSTANCE MySQLRefresh
       WITH MaxStops <- MySQLStops, pc <- mysqlPc, todo <- mysqlTodo, fresh <- mysqlFresh,
            lost <- mysqlLost, stops <- mysqlStops
V == INSTANCE VaultService
       WITH MaxCommands <- VaultCommands, deployed <- vault, given <- keys, secret <- vaultSecret,
            cmd <- vaultCmd, pc <- vaultPc, result <- vaultResult
I == INSTANCE IdentityProviders
       WITH deployed <- providers, answers <- idAnswers, pc <- idPc, target <- idTarget,
            stopped <- idStopped, stops <- idStops, given <- idGiven

bvars == <<external, current, login, up, models, machine, moving, db, migrated, user, bootRow,
           account, backup, apps, done, jhelper, token, bootPc, bootStops>>
qvars == <<latest, rev, scale, stack, ordered, open, router, saved, mysqlPc, mysqlTodo, wait,
           mysqlFresh, failed, mysqlLost, mysqlStops>>
vvars == <<vault, enabled, row, gen, gens, mode, keys, sealed, joined, leader, authorised,
           vaultSecret, channel, config, vaultCmd, vaultPc, known, rounds, asking, vaultResult,
           quiet, fresh, lost, events, commands>>
ivars == <<cfg, top, tfvars, file, providers, saas, idAnswers, secret, secretId, idPc, cmd,
           node, idTarget, version, todo, result, want, idStopped, stale, idStops, idGiven>>

PartInit ==
    /\ part \in {"boot", "mysql", "storage", "vault", "identity"}
    /\ B!Init /\ Q!Init /\ Init /\ V!Init /\ I!Init
    /\ part # "boot" => external
    /\ part # "identity" => node = CHOOSE n \in Nodes : TRUE

PartNext ==
    /\ UNCHANGED part
    /\ \/ part = "boot" /\ B!Next /\ UNCHANGED <<qvars, svars, vvars, ivars>>
       \/ part = "mysql" /\ Q!Next /\ UNCHANGED <<bvars, svars, vvars, ivars>>
       \/ part = "storage" /\ Next /\ UNCHANGED <<bvars, qvars, vvars, ivars>>
       \/ part = "vault" /\ V!Next /\ UNCHANGED <<bvars, qvars, svars, ivars>>
       \/ part = "identity" /\ I!Next /\ UNCHANGED <<bvars, qvars, svars, vvars>>

\* The fairness of each module, in its part.
PartFairness ==
    /\ WF_bvars(part = "boot" /\ B!Start) /\ WF_bvars(part = "boot" /\ B!Step)
    /\ WF_bvars(part = "boot" /\ B!MigrationEnds)
    /\ WF_qvars(part = "mysql" /\ (Q!RouterStep \/ Q!MySQLStep))
    /\ WF_qvars(part = "mysql" /\ Q!UnitUpgrades)
    /\ \A r \in Routers : WF_qvars(part = "mysql" /\ Q!RouterGoesOn(r))
    /\ WF_qvars(part = "mysql" /\ Q!Refresh(FALSE))
    /\ \A s \in Sessions : /\ WF_svars(part = "storage" /\ Step(s))
                           /\ SF_svars(part = "storage" /\ LockedFails(s))
    /\ WF_vvars(part = "vault" /\ V!Step)
    /\ \A u \in Units : WF_vvars(part = "vault" /\ V!Join(u))
    /\ WF_ivars(part = "identity" /\ I!Step)

PartSpec == PartInit /\ [][PartNext]_<<part, bvars, qvars, svars, vvars, ivars>> /\ PartFairness

\* The state of each part has its types.
PartTypeOK ==
    /\ part = "boot" => B!TypeOK
    /\ part = "mysql" => Q!TypeOK
    /\ part = "storage" => TypeOK
    /\ part = "vault" => V!TypeOK
    /\ part = "identity" => I!TypeOK

\* A bootstrap that succeeds leaves one controller, model and set of records, and
\* never loses the credentials of an admin.
BootstrapLeaves == part = "boot" => B!BootstrapLeaves

\* Routers first, the database only when prepared, its scale never forgotten.
UpgradeOrdered == Q!UpgradeOrdered

\* A vault of dev mode opens with what is stored, whatever was killed where.
VaultOpens == part = "vault" => V!VaultOpens

\* An identity provider is configured, stored and deployed alike.
ProvidersInStep == part = "identity" => I!ProvidersInStep

\* Giving a command again completes what it is for: a bootstrap, and the
\* upgrade of MySQL.
AgainCompletes == <>[](/\ part = "boot" => B!Completed
                       /\ part = "mysql" => Q!Upgraded)

\* Every command ends (CommandsEnd of the storage, vault and identity modules).
Running == (\E s \in Sessions : pc[s] # "idle") \/ vaultPc # "idle" \/ idPc # "idle"
ServicesEnd == Running ~> ~ Running
=============================================================================
