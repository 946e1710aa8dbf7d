------------------------ MODULE BackupRestoreProofs ------------------------
(***************************************************************************)
(* For any applications and relations, any number of failures and kills:   *)
(* a MySQL cluster is quiet when its data is replaced, and what is reported *)
(* of backups and of restores is true.  For any hosts and any number of    *)
(* commands: what the variables of the OpenStack plan keep of a deployed    *)
(* cluster.                                                                *)
(***************************************************************************)
EXTENDS MCOpenStack, SequenceTheorems, FiniteSetTheorems, WellFoundedInduction, TLAPS

----------------------------------------------------------------------------
(* The steps of a restore                                                  *)

Statuses == {"running", "finished", "failed"}
Running == {"run", "run wait", "revert", "revert wait"}
Ahead == {"run", "run wait"}
Back == {"revert", "revert wait"}

Pause(a) == [op |-> "pause", app |-> a, n |-> 0]
Resume(a) == [op |-> "resume", app |-> a, n |-> 0]
Restore(a) == [op |-> "restore", app |-> a, n |-> 0]

\* What build_restore_plan puts before the restore of m, and after it
Quieting(m) ==
  IF m \in MySQLs
  THEN {Pause(a) : a \in ApiApps(m)} \cup {Scale(r, 0) : r \in RouterApps(m)} \cup {Scale(m, 1)}
  ELSE {}
Restoring(m, now) ==
  IF m \in MySQLs
  THEN {Resume(a) : a \in ApiApps(m)} \cup {Scale(a, now[a]) : a \in Served(m)}
  ELSE {}

\* The place of the restore in the plan, and how many steps the command has done
RestoreAt(a) ==
  IF a \in Vaults THEN 1
  ELSE Len(PauseApps(a)) + Len(ScaleRouters(a, [r \in RouterApps(a) |-> 0])) + 2
Full == build_restore_plan(App, began.units)
Behind == Len(Full) - Len(plan)

\* What a step has brought about
Done(x) ==
  CASE x.op = "pause" -> x.app \in paused
    [] x.op = "resume" -> x.app \notin paused
    [] x.op = "scale" -> scale[x.app] = x.n /\ units[x.app] = x.n
    [] OTHER -> TRUE

\* What a step asked for
Asked(x) ==
  CASE x.op = "pause" -> x.app \in paused
    [] x.op = "resume" -> x.app \notin paused
    [] x.op = "scale" -> scale[x.app] = x.n
    [] OTHER -> TRUE

----------------------------------------------------------------------------
(* The inductive invariants                                                *)

\* The applications as they are prepared, the units being now
PreparedWith(now) ==
  {[app |-> a, plan |-> build_restore_plan(a, now),
    revert |-> build_restore_revert_plan(a, now)] : a \in Backed}

JujuTypes ==
  /\ scale \in [DOMAIN Scale0 -> Nat] /\ units \in [DOMAIN Scale0 -> Nat]
  /\ repo \in [Backed -> Seq(Statuses)]
  /\ doing \in [Backed -> Nat] /\ data \in [Backed -> Nat]
  /\ late \subseteq {a \in Backed : doing[a] # None}

CommandTypes ==
  /\ shown \in [Backed -> Seq(Statuses)]
  /\ DOMAIN outcome = Backed
  /\ targets \subseteq Backed /\ waiting \subseteq targets
  /\ toTime \in BOOLEAN
  /\ began.units \in [DOMAIN Scale0 -> Nat] /\ began.ids \in [Backed -> Nat]
  /\ pending \in Seq(PreparedWith(began.units))

TypeInv == JujuTypes /\ CommandTypes

PhaseInv ==
  /\ cmd \in {"none", "backup", "list", "restore"}
  /\ pc \in {"none", "resolve", "backups", "inventory", "listed", "confirm", "next"} \cup Running
  /\ (cmd = "none") = (pc = "none")
  /\ cmd # "none" => began.kind = cmd
  /\ pc \in {"resolve", "backups"} => cmd = "backup"
  /\ pc = "listed" => cmd = "list"
  /\ pc = "inventory" => cmd \in {"list", "restore"}
  /\ pc \in {"confirm", "next"} \cup Running => cmd = "restore"
  /\ pc \in Running => pending # <<>>
  /\ pc \notin Running \cup {"next"} => pending = <<>>
  /\ pc \notin Running => plan = <<>>
  /\ pc \in {"run wait", "revert wait"} => plan # <<>>
  /\ pc # "backups" => waiting = {}

\* What is left of the plan of the application being restored, or reverted
PlanInv ==
  /\ pc \in Ahead =>
       /\ Len(plan) <= Len(Full)
       /\ plan \in Seq(Quieting(App) \cup {Restore(App)} \cup Restoring(App, began.units))
       /\ \A i \in 1..Len(plan) : plan[i] = Full[Behind + i]
  /\ pc \in Back => plan \in Seq(Restoring(App, began.units))

\* The step that is waited for has been asked for.
WaitInv ==
  pc \in {"run wait", "revert wait"} => Asked(Now)

\* Before the restore, what quiets the application is done or still to come.
QuietInv ==
  pc \in Ahead /\ Behind < RestoreAt(App) =>
    \A x \in Quieting(App) :
      Done(x) \/ \E i \in (Behind + 1)..(RestoreAt(App) - 1) : Full[i] = x

\* A charm restores what the command waits for, or gave up on.
DoingInv ==
  \A a \in Backed : doing[a] # None /\ a \notin late =>
    pc = "run wait" /\ App = a /\ Now = Restore(a) /\ Behind = RestoreAt(a) - 1

ProgramInv == TypeInv /\ PhaseInv /\ PlanInv

QuietIInv == ProgramInv /\ WaitInv /\ QuietInv /\ DoingInv

\* After the restore, what brings the application back is done or still to come;
\* while it is reverted too, unless a step failed.
BackAhead ==
  pc \in Ahead /\ Behind >= RestoreAt(App) =>
    \A x \in Restoring(App, began.units) :
      Done(x) \/ \E i \in (Behind + 1)..Len(Full) : Full[i] = x
BackRevert ==
  pc \in Back /\ outcome[App] # "rollback failed" =>
    \A x \in Restoring(App, began.units) : Done(x) \/ x \in ToSet(plan)
BackInv == BackAhead /\ BackRevert

\* The applications that wait have no result, and are different ones.
PendingInv ==
  /\ \A i, j \in 1..Len(pending) : pending[i].app = pending[j].app => i = j
  /\ \A i \in 1..Len(pending) :
       outcome[pending[i].app] = "none"
       \/ (i = 1 /\ pc \in Back /\ outcome[App] = "rollback failed")

AllDone(m) == \A x \in Restoring(m, began.units) : Done(x)
Untouched(m) ==
  /\ \A a \in Served(m) : scale[a] = began.scale[a]
  /\ ApiApps(m) \cap paused = ApiApps(m) \cap began.paused

\* What was reported of an application holds; the others were restored, or nothing
\* of them was touched.
ResultsHold ==
  began.kind = "restore" =>
    \A m \in MySQLs :
      /\ outcome[m] \in {"success", "reverted"} => AllDone(m)
      /\ outcome[m] = "not attempted" => Untouched(m)
OthersRest ==
  pc \in {"next"} \cup Running =>
    \A m \in MySQLs :
      \/ pc \in Running /\ m = App
      \/ outcome[m] = "success"
      \/ outcome[m] = "none" /\ Untouched(m)
OthersInv == ResultsHold /\ OthersRest

\* No result before the work
OutcomeInv ==
  pc \in {"resolve", "inventory", "listed", "confirm"} => \A a \in Backed : outcome[a] = "none"

\* v is a finished backup, and no older than a finished one that was printed.
NewestOf(v, statuses, printed) ==
  /\ v \in DOMAIN statuses /\ statuses[v] = "finished"
  /\ \A i \in DOMAIN printed : printed[i] = "finished" => i <= v

Exact(a) == ~ (toTime /\ a \in MySQLs)
RestoredNewest(a) == doing[a] = None /\ (Exact(a) => NewestOf(data[a], repo[a], shown[a]))

ShownInv ==
  \A a \in Backed : \A i \in DOMAIN shown[a] :
    shown[a][i] = "finished" => i \in DOMAIN repo[a] /\ repo[a][i] = "finished"

\* From the restore on, the application has the backup it was to have.
DoingNewest ==
  \A a \in Backed : doing[a] # None /\ a \notin late /\ Exact(a) =>
    NewestOf(doing[a], repo[a], shown[a])
RestoreAwaited ==
  pc = "run wait" /\ Behind = RestoreAt(App) - 1 =>
    App \notin late /\ (doing[App] = None => RestoredNewest(App))
RestoreBehind ==
  pc \in Ahead /\ Behind >= RestoreAt(App) => RestoredNewest(App)
SuccessNewest ==
  began.kind = "restore" =>
    \A a \in Backed : outcome[a] = "success" => RestoredNewest(a)
DataInv == DoingNewest /\ RestoreAwaited /\ RestoreBehind /\ SuccessNewest

BackupInv ==
  /\ pc = "resolve" => \A a \in Backed : Len(repo[a]) = began.ids[a]
  /\ pc = "backups" => \A a \in waiting : Len(repo[a]) = began.ids[a] + 1
  /\ began.kind = "backup" =>
       \A a \in Backed : outcome[a] = "success" =>
         \E i \in DOMAIN repo[a] : i > began.ids[a] /\ repo[a][i] = "finished"

ResultIInv == QuietIInv /\ PendingInv /\ OutcomeInv

OutcomeIInv == ResultIInv /\ BackInv /\ OthersInv

TrueIInv == ResultIInv /\ ShownInv /\ DataInv /\ BackupInv
----------------------------------------------------------------------------
(* Sequences that list a set                                               *)

Lists(s, S) == s \in Seq(S) /\ \A x \in S : \E i \in 1..Len(s) : s[i] = x

LEMMA ListsOfSet ==
  ASSUME NEW S, IsFiniteSet(S)
  PROVE  /\ Lists(SetToSeq(S), S)
         /\ \A i, j \in 1..Len(SetToSeq(S)) : SetToSeq(S)[i] = SetToSeq(S)[j] => i = j
<1>1. PICK n \in Nat : n = Cardinality(S)
  BY FS_CardinalityType
<1>2. PICK f : f \in Bijection(1..n, S)
  BY <1>1, FS_CardinalityType DEF ExistsBijection
<1>3. f \in [1..n -> S] /\ IsInjective(f)
  BY <1>2 DEF Bijection, Injection, IsInjective
<1> DEFINE s == SetToSeq(S)
<1>4. s \in [1..n -> S] /\ IsInjective(s)
  BY <1>1, <1>3 DEF SetToSeq
<1> HIDE DEF s
<1>5. s \in Seq(S) /\ Len(s) = n
  BY <1>4
<1>6. s \in Injection(1..n, S)
  BY <1>4 DEF Injection, IsInjective
<1>7. Cardinality(1..n) = n /\ n = Cardinality(S)
  BY <1>1, FS_Interval
<1>8. s \in Surjection(1..n, S)
  BY <1>6, <1>7, FS_Injection
<1>9. \A x \in S : \E i \in 1..Len(s) : s[i] = x
  BY <1>5, <1>8 DEF Surjection
<1>10. \A i, j \in 1..Len(s) : s[i] = s[j] => i = j
  BY <1>4, <1>5 DEF IsInjective
<1> QED
  BY <1>5, <1>9, <1>10 DEF Lists, s

LEMMA ListsThen ==
  ASSUME NEW S, NEW T, NEW s, NEW t, Lists(s, S), Lists(t, T)
  PROVE  Lists(s \o t, S \cup T) /\ Len(s \o t) = Len(s) + Len(t)
<1> DEFINE st == s \o t
           ST == S \cup T
<1>1. s \in Seq(ST) /\ t \in Seq(ST) /\ Len(s) \in Nat /\ Len(t) \in Nat
  BY DEF Lists
<1>2. /\ st \in Seq(ST) /\ Len(st) = Len(s) + Len(t)
      /\ \A i \in 1..Len(s) : st[i] = s[i]
      /\ \A i \in 1..Len(t) : st[Len(s) + i] = t[i]
  BY <1>1
<1>3. ASSUME NEW x \in S PROVE \E i \in 1..Len(st) : st[i] = x
  <2>1. PICK i \in 1..Len(s) : s[i] = x
    BY DEF Lists
  <2>2. i \in 1..Len(st) /\ st[i] = x
    BY <1>1, <1>2, <2>1
  <2> QED
    BY <2>2
<1>4. ASSUME NEW x \in T PROVE \E i \in 1..Len(st) : st[i] = x
  <2>1. PICK i \in 1..Len(t) : t[i] = x
    BY DEF Lists
  <2>2. Len(s) + i \in 1..Len(st) /\ st[Len(s) + i] = x
    BY <1>1, <1>2, <2>1
  <2> QED
    BY <2>2
<1> QED
  BY <1>2, <1>3, <1>4 DEF Lists

LEMMA JoinedAround ==
  ASSUME NEW S, NEW s \in Seq(S), NEW t \in Seq(S), NEW x \in S, NEW y \in S
  PROVE  LET f == (s \o <<x, y>>) \o t
             L == Len(s)
         IN  /\ f \in Seq(S) /\ Len(f) = L + 2 + Len(t)
             /\ \A i \in 1..L : f[i] = s[i]
             /\ f[L + 1] = x /\ f[L + 2] = y
             /\ \A i \in 1..Len(t) : f[L + 2 + i] = t[i]
<1> DEFINE o == <<x, y>>
           L == Len(s)
<1>1. o \in Seq(S) /\ L \in Nat /\ Len(t) \in Nat
  OBVIOUS
<1>2. Len(o) = 2 /\ o[1] = x /\ o[2] = y
  OBVIOUS
<1> HIDE DEF o
<1> DEFINE so == s \o o
<1>so. so \in Seq(S)
  BY <1>1
<1>3. /\ Len(so) = L + Len(o)
      /\ \A i \in 1..L : so[i] = s[i]
      /\ \A i \in 1..Len(o) : so[L + i] = o[i]
  BY <1>1
<1>4. Len(so) = L + 2 /\ so[L + 1] = x /\ so[L + 2] = y
  BY <1>1, <1>2, <1>3
<1> HIDE DEF so
<1> DEFINE f == so \o t
<1>5. /\ f \in Seq(S) /\ Len(f) = Len(so) + Len(t)
      /\ \A i \in 1..Len(so) : f[i] = so[i]
      /\ \A i \in 1..Len(t) : f[Len(so) + i] = t[i]
  BY <1>so
<1>6. /\ \A i \in 1..L : i \in 1..Len(so)
      /\ L + 1 \in 1..Len(so) /\ L + 2 \in 1..Len(so)
  BY <1>1, <1>4
<1>7. f[L + 1] = x /\ f[L + 2] = y
  BY <1>4, <1>5, <1>6
<1>8. \A i \in 1..L : f[i] = s[i]
  BY <1>3, <1>5, <1>6
<1>9. \A i \in 1..Len(t) : f[L + 2 + i] = t[i]
  BY <1>4, <1>5
<1> QED
  BY <1>4, <1>5, <1>7, <1>8, <1>9 DEF so, o

LEMMA ListsOne == \A x : Lists(<<x>>, {x})
<1> TAKE x
<1>1. <<x>> \in Seq({x}) /\ Len(<<x>>) = 1 /\ <<x>>[1] = x
  OBVIOUS
<1> QED
  BY <1>1 DEF Lists

----------------------------------------------------------------------------
(* The plans                                                               *)

LEMMA RelatedFinite == \A a : IsFiniteSet(Related(a))
<1> TAKE a
<1> DEFINE f == [p \in MysqlClient |-> p[1]]
           g == [p \in MysqlClient |-> p[2]]
           F == {f[p] : p \in MysqlClient}
           G == {g[p] : p \in MysqlClient}
<1>1. f \in Surjection(MysqlClient, F) /\ g \in Surjection(MysqlClient, G)
  BY DEF Surjection
<1>2. IsFiniteSet(F) /\ IsFiniteSet(G)
  BY <1>1, ModelAssumption, FS_Surjection
<1>3. IsFiniteSet(F \cup G)
  BY <1>2, FS_Union
<1>4. Related(a) \subseteq F \cup G
  BY DEF Related
<1> QED
  BY <1>3, <1>4, FS_Subset

LEMMA ApiAppsFinite == \A m : IsFiniteSet(RouterApps(m)) /\ IsFiniteSet(ApiApps(m))
<1> TAKE m
<1>1. IsFiniteSet(RouterApps(m))
  BY RelatedFinite DEF RouterApps
<1> DEFINE f == [p \in MysqlClient |-> p[1]]
           g == [p \in MysqlClient |-> p[2]]
           F == {f[p] : p \in MysqlClient}
           G == {g[p] : p \in MysqlClient}
<1>2. f \in Surjection(MysqlClient, F) /\ g \in Surjection(MysqlClient, G)
  BY DEF Surjection
<1>3. IsFiniteSet(F) /\ IsFiniteSet(G)
  BY <1>2, ModelAssumption, FS_Surjection
<1>4. IsFiniteSet(F \cup G)
  BY <1>3, FS_Union
<1>5. \A r : Related(r) \subseteq F \cup G
  BY DEF Related
<1>6. ApiApps(m) \subseteq F \cup G
  BY <1>5 DEF ApiApps
<1>7. IsFiniteSet(ApiApps(m))
  BY <1>4, <1>6, FS_Subset
<1> QED
  BY <1>1, <1>7

LEMMA PausesListed ==
  ASSUME NEW m
  PROVE  /\ Lists(PauseApps(m), {Pause(a) : a \in ApiApps(m)})
         /\ Lists(ResumeApps(m), {Resume(a) : a \in ApiApps(m)})
<1> DEFINE f == [a \in ApiApps(m) |-> Pause(a)]
           g == [a \in ApiApps(m) |-> Resume(a)]
           F == {Pause(a) : a \in ApiApps(m)}
           G == {Resume(a) : a \in ApiApps(m)}
<1>1. f \in Surjection(ApiApps(m), F) /\ g \in Surjection(ApiApps(m), G)
  BY DEF Surjection
<1>2. IsFiniteSet(F) /\ IsFiniteSet(G)
  BY <1>1, ApiAppsFinite, FS_Surjection
<1>3. PauseApps(m) = SetToSeq(F) /\ ResumeApps(m) = SetToSeq(G)
  BY DEF PauseApps, ResumeApps, Pause, Resume
<1> HIDE DEF F, G
<1>4. Lists(PauseApps(m), F) /\ Lists(ResumeApps(m), G)
  BY <1>2, <1>3, ListsOfSet
<1> QED
  BY <1>4 DEF F, G

LEMMA RoutersListed ==
  ASSUME NEW m, NEW to
  PROVE  Lists(ScaleRouters(m, to), {Scale(r, to[r]) : r \in RouterApps(m)})
<1> DEFINE f == [r \in RouterApps(m) |-> Scale(r, to[r])]
           F == {Scale(r, to[r]) : r \in RouterApps(m)}
<1>1. f \in Surjection(RouterApps(m), F)
  BY DEF Surjection
<1>2. IsFiniteSet(F)
  BY <1>1, ApiAppsFinite, FS_Surjection
<1>3. ScaleRouters(m, to) = SetToSeq(F)
  BY DEF ScaleRouters
<1> HIDE DEF F
<1>4. Lists(ScaleRouters(m, to), F)
  BY <1>2, <1>3, ListsOfSet
<1> QED
  BY <1>4 DEF F

\* What follows a restore, and what a revert does
LEMMA RevertListed ==
  ASSUME NEW a \in Backed, NEW now
  PROVE  Lists(build_restore_revert_plan(a, now), Restoring(a, now))
<1>1. CASE a \in Vaults
  <2>1. a \notin MySQLs
    BY <1>1, BackedAssumption
  <2>2. Lists(<<>>, {})
    BY DEF Lists
  <2> QED
    BY <1>1, <2>1, <2>2 DEF build_restore_revert_plan, Restoring
<1>2. CASE a \notin Vaults
  <2> DEFINE own == {Scale(a, now[a])}
             routers == {Scale(r, now[r]) : r \in RouterApps(a)}
             resumes == {Resume(b) : b \in ApiApps(a)}
             s == <<Scale(a, now[a])>>
             t == ScaleRouters(a, now)
             u == ResumeApps(a)
  <2>1. Lists(s, own) /\ Lists(t, routers) /\ Lists(u, resumes)
    BY ListsOne, RoutersListed, PausesListed
  <2>2. build_restore_revert_plan(a, now) = s \o t \o u
    BY <1>2 DEF build_restore_revert_plan, ScaleBack
  <2>3. Restoring(a, now) = (own \cup routers) \cup resumes
    BY <1>2 DEF Restoring, Backed, Served
  <2> HIDE DEF own, routers, resumes, s, t, u
  <2>4. Lists(s \o t, own \cup routers)
    BY <2>1, ListsThen
  <2>5. Lists((s \o t) \o u, (own \cup routers) \cup resumes)
    BY <2>1, <2>4, ListsThen
  <2> QED
    BY <2>2, <2>3, <2>5
<1> QED
  BY <1>1, <1>2

\* The restore r is in its place R; before it is what quiets the application,
\* after it what brings it back.
Shape(f, R, Q, r, B) ==
  /\ f \in Seq(Q \cup {r} \cup B)
  /\ R \in 1..Len(f) /\ f[R] = r
  /\ \A i \in 1..(R - 1) : f[i] \in Q
  /\ \A x \in Q : \E i \in 1..(R - 1) : f[i] = x
  /\ \A i \in (R + 1)..Len(f) : f[i] \in B
  /\ \A x \in B : \E i \in (R + 1)..Len(f) : f[i] = x

LEMMA PlanShape ==
  ASSUME NEW a \in Backed, NEW now
  PROVE  Shape(build_restore_plan(a, now), RestoreAt(a), Quieting(a), Restore(a), Restoring(a, now))
<1> DEFINE f == build_restore_plan(a, now)
           R == RestoreAt(a)
           Q == Quieting(a)
           B == Restoring(a, now)
           r == Restore(a)
           Steps == Q \cup {r} \cup B
<1>1. CASE a \in Vaults
  <2>1. Q = {} /\ B = {}
    BY <1>1, BackedAssumption DEF Quieting, Restoring
  <2>2. f = <<r>> /\ R = 1
    BY <1>1 DEF build_restore_plan, RestoreAt, Restore
  <2> HIDE DEF f, R, Q, B, r
  <2>3. f \in Seq(Steps) /\ Len(f) = 1 /\ f[1] = r
    BY <2>2
  <2>4. 1..(R - 1) = {} /\ (R + 1)..Len(f) = {} /\ R \in 1..Len(f)
    BY <2>2, <2>3
  <2> QED
    BY <2>1, <2>2, <2>3, <2>4 DEF f, R, Q, B, r, Shape
<1>2. CASE a \notin Vaults
  <2> DEFINE pauses == {Pause(b) : b \in ApiApps(a)}
             gone == {Scale(x, 0) : x \in RouterApps(a)}
             to == [x \in RouterApps(a) |-> 0]
             p == PauseApps(a)
             g == ScaleRouters(a, to)
             one == Scale(a, 1)
             back == ScaleBack(a, now)
             pg == p \o g
             o == <<one, r>>
             PG == pauses \cup gone
  <2>1. Lists(p, pauses)
    BY PausesListed
  <2>2. Lists(g, gone)
    <3> DEFINE G == {Scale(x, to[x]) : x \in RouterApps(a)}
    <3>1. Lists(g, G)
      BY RoutersListed
    <3>2. G = gone
      OBVIOUS
    <3> QED
      BY <3>1, <3>2
  <2>3. Lists(back, B)
    BY <1>2, RevertListed DEF build_restore_revert_plan
  <2>4. Q = PG \cup {one}
    BY <1>2 DEF Quieting, Backed
  <2>5. f = (pg \o o) \o back
    BY <1>2 DEF build_restore_plan, Restore
  <2>6. R = Len(p) + Len(g) + 2
    BY <1>2 DEF RestoreAt
  <2> HIDE DEF f, R, Q, B, r, pauses, gone, to, p, g, one, back, PG
  <2>7. Lists(pg, PG) /\ Len(pg) = Len(p) + Len(g)
    BY <2>1, <2>2, ListsThen DEF PG
  <2>8. /\ p \in Seq(pauses) /\ g \in Seq(gone) /\ pg \in Seq(PG) /\ back \in Seq(B)
        /\ Len(pg) \in Nat /\ Len(back) \in Nat
    BY <2>1, <2>2, <2>3, <2>7 DEF Lists
  <2> DEFINE L == Len(pg)
  <2> HIDE DEF pg
  <2>9. pg \in Seq(Steps) /\ back \in Seq(Steps) /\ one \in Steps /\ r \in Steps
    BY <2>4, <2>8
  <2> HIDE DEF Steps
  <2>11. /\ f \in Seq(Steps) /\ Len(f) = L + 2 + Len(back)
         /\ \A i \in 1..L : f[i] = pg[i]
         /\ f[L + 1] = one /\ f[L + 2] = r
         /\ \A i \in 1..Len(back) : f[L + 2 + i] = back[i]
    BY <2>5, <2>9, JoinedAround
  <2>12. R = L + 2
    BY <2>6, <2>7
  <2>13. R \in 1..Len(f) /\ f[R] = r
    BY <2>8, <2>11, <2>12
  <2>14. ASSUME NEW i \in 1..(R - 1) PROVE f[i] \in Q
    <3>1. CASE i \in 1..L
      <4>1. f[i] = pg[i] /\ pg[i] \in PG
        BY <2>8, <2>11, <3>1
      <4> QED
        BY <2>4, <4>1
    <3>2. CASE i = L + 1
      BY <2>4, <2>8, <2>11, <3>2
    <3> QED
      BY <2>8, <2>12, <3>1, <3>2
  <2>15. ASSUME NEW x \in Q PROVE \E i \in 1..(R - 1) : f[i] = x
    <3>1. CASE x \in PG
      <4>1. PICK i \in 1..L : pg[i] = x
        BY <2>7, <3>1 DEF Lists
      <4>2. i \in 1..(R - 1) /\ f[i] = x
        BY <2>8, <2>11, <2>12, <4>1
      <4> QED
        BY <4>2
    <3>2. CASE x = one
      <4>1. L + 1 \in 1..(R - 1) /\ f[L + 1] = x
        BY <2>8, <2>11, <2>12, <3>2
      <4> QED
        BY <4>1
    <3> QED
      BY <2>4, <3>1, <3>2
  <2>16. ASSUME NEW i \in (R + 1)..Len(f) PROVE f[i] \in B
    <3>1. i - (L + 2) \in 1..Len(back) /\ i = L + 2 + (i - (L + 2))
      BY <2>8, <2>11, <2>12
    <3>2. f[i] = back[i - (L + 2)]
      BY <2>11, <3>1
    <3> QED
      BY <2>8, <3>1, <3>2
  <2>17. ASSUME NEW x \in B PROVE \E i \in (R + 1)..Len(f) : f[i] = x
    <3>1. PICK i \in 1..Len(back) : back[i] = x
      BY <2>3 DEF Lists
    <3>2. L + 2 + i \in (R + 1)..Len(f) /\ f[L + 2 + i] = x
      BY <2>8, <2>11, <2>12, <3>1
    <3> QED
      BY <3>2
  <2> QED
    BY <2>11, <2>13, <2>14, <2>15, <2>16, <2>17 DEF f, R, Q, B, r, Steps, Shape
<1> QED
  BY <1>1, <1>2

----------------------------------------------------------------------------
(* The steps of a plan                                                     *)

LEMMA StepKinds ==
  ASSUME NEW a \in Backed, NEW now \in [DOMAIN Scale0 -> Nat],
         NEW x \in Quieting(a) \cup {Restore(a)} \cup Restoring(a, now)
  PROVE  /\ \/ x.op \in {"pause", "resume"} /\ a \in MySQLs /\ x.app \in ApiApps(a)
            \/ /\ x.op = "scale" /\ a \in MySQLs
               /\ x.app \in Served(a) /\ x.app \in DOMAIN Scale0 /\ x.n \in Nat
            \/ x = Restore(a) /\ x.op = "restore" /\ x.app = a
         /\ x \in Quieting(a) => x.op \in {"pause", "scale"}
         /\ x \in Restoring(a, now) => x.op \in {"resume", "scale"}
<1>1. CASE x \in Quieting(a)
  <2>1. a \in MySQLs
    BY <1>1 DEF Quieting
  <2>2. Served(a) \subseteq DOMAIN Scale0 /\ a \in Served(a) /\ RouterApps(a) \subseteq Served(a)
    BY <2>1, ModelAssumption DEF Served
  <2>3. CASE x \in {Pause(b) : b \in ApiApps(a)}
    <3>1. PICK b \in ApiApps(a) : x = Pause(b)
      BY <2>3
    <3>2. x.op = "pause" /\ x.app = b
      BY <3>1 DEF Pause
    <3>3. x \notin Restoring(a, now)
      BY <3>1, <3>2 DEF Restoring, Resume, Scale
    <3> QED
      BY <2>1, <3>2, <3>3
  <2>4. CASE x \in {Scale(r, 0) : r \in RouterApps(a)} \cup {Scale(a, 1)}
    <3>1. PICK r \in Served(a), n \in Nat : x = Scale(r, n)
      BY <2>2, <2>4
    <3>2. x.op = "scale" /\ x.app = r /\ x.n = n
      BY <3>1 DEF Scale
    <3> QED
      BY <2>1, <2>2, <3>2
  <2> QED
    BY <1>1, <2>1, <2>3, <2>4 DEF Quieting
<1>2. CASE x \in Restoring(a, now)
  <2>1. a \in MySQLs
    BY <1>2 DEF Restoring
  <2>2. Served(a) \subseteq DOMAIN Scale0
    BY <2>1, ModelAssumption
  <2>3. CASE x \in {Resume(b) : b \in ApiApps(a)}
    <3>1. PICK b \in ApiApps(a) : x = Resume(b)
      BY <2>3
    <3>2. x.op = "resume" /\ x.app = b
      BY <3>1 DEF Resume
    <3>3. x \notin Quieting(a)
      BY <3>1, <3>2 DEF Quieting, Pause, Scale
    <3> QED
      BY <2>1, <3>2, <3>3
  <2>4. CASE x \in {Scale(b, now[b]) : b \in Served(a)}
    <3>1. PICK b \in Served(a) : x = Scale(b, now[b])
      BY <2>4
    <3>2. x.op = "scale" /\ x.app = b /\ x.n = now[b]
      BY <3>1 DEF Scale
    <3> QED
      BY <2>1, <2>2, <3>2
  <2> QED
    BY <1>2, <2>1, <2>3, <2>4 DEF Restoring
<1>3. CASE x = Restore(a)
  <2>1. x.op = "restore" /\ x.app = a
    BY <1>3 DEF Restore
  <2>2. x \notin Quieting(a) /\ x \notin Restoring(a, now)
    BY <2>1, <1>3 DEF Quieting, Restoring, Restore, Pause, Resume, Scale
  <2> QED
    BY <1>3, <2>1, <2>2
<1> QED
  BY <1>1, <1>2, <1>3

\* The greatest of a bounded set of naturals is in it.
LEMMA MaxIsGreatest ==
  ASSUME NEW n \in Nat, NEW S \in SUBSET (0..n), S # {}
  PROVE  Max(S) \in S /\ \A y \in S : Max(S) >= y
<1> DEFINE T == {k \in Nat : k <= n /\ n - k \in S}
<1>1. PICK s \in S : TRUE
  OBVIOUS
<1>2. n - s \in T
  BY <1>1
<1>3. PICK k \in T : \A j \in T : k <= j
  <2> DEFINE R == OpToRel(<, Nat)
  <2> HIDE DEF T, R
  <2>1. T \subseteq Nat /\ T # {}
    BY <1>2 DEF T
  <2>2. IsWellFoundedOn(R, Nat)
    BY NatLessThanWellFounded DEF R
  <2>3. PICK k \in T : \A j \in T : ~ (<<j, k>> \in R)
    BY <2>1, <2>2, WFMin
  <2>4. \A j, i \in Nat : j < i => <<j, i>> \in R
    BY DEF R, OpToRel
  <2>5. ASSUME NEW j \in T PROVE k <= j
    <3>1. j \in Nat /\ k \in Nat
      BY <2>1, <2>3
    <3>2. ~ (j < k)
      BY <2>3, <2>4, <3>1, Zenon
    <3> QED
      BY <3>1, <3>2
  <2> QED
    BY <2>5
<1>4. \A y \in S : n - k >= y
  <2> SUFFICES ASSUME NEW y \in S PROVE n - k >= y
    OBVIOUS
  <2>1. y \in Nat /\ y <= n
    OBVIOUS
  <2>2. n - y \in Nat /\ n - y <= n /\ n - (n - y) = y
    BY <2>1
  <2>3. n - y \in T
    BY <2>2
  <2>4. k <= n - y /\ k \in Nat
    BY <1>3, <2>3
  <2> QED
    BY <2>1, <2>4
<1>5. n - k \in S
  BY <1>3
<1>6. \E x \in S : \A y \in S : x >= y
  BY <1>4, <1>5
<1> QED
  BY <1>6 DEF Max

\* _latest_backup and restore_params
LEMMA LatestIsNewest ==
  ASSUME repo \in [Backed -> Seq(Statuses)], NEW a \in Backed
  PROVE  /\ LatestBackup(a) \in Nat /\ RestoreParams(a) \in Nat
         /\ LatestBackup(a) # 0 =>
              LatestBackup(a) \in DOMAIN repo[a] /\ repo[a][LatestBackup(a)] = "finished"
         /\ \A i \in DOMAIN repo[a] : repo[a][i] = "finished" => i <= LatestBackup(a)
<1> DEFINE q == repo[a]
           F == {i \in DOMAIN q : q[i] = "finished"}
           S == {0} \cup F
<1>1. q \in Seq(Statuses)
  OBVIOUS
<1>2. DOMAIN q = 1..Len(q) /\ Len(q) \in Nat
  BY <1>1
<1>3. Successful(a, q) = F
  BY DEF Successful, MySQLParse, VaultParse
<1>4. LatestBackup(a) = Max(S)
  BY <1>3 DEF LatestBackup
<1>5. S \in SUBSET (0..Len(q)) /\ S # {}
  BY <1>2
<1> HIDE DEF S
<1>6. Max(S) \in S /\ \A y \in S : Max(S) >= y
  BY <1>2, <1>5, MaxIsGreatest
<1>7. LatestBackup(a) \in Nat
  <2>1. Max(S) \in 0..Len(q)
    BY <1>5, <1>6
  <2> QED
    BY <1>2, <1>4, <2>1
<1>8. LatestBackup(a) # 0 => LatestBackup(a) \in F
  BY <1>4, <1>6 DEF S
<1>9. \A i \in F : i <= LatestBackup(a)
  BY <1>2, <1>4, <1>6, <1>7 DEF S
<1>10. RestoreParams(a) \in Nat
  BY <1>7, BoundsAssumption DEF RestoreParams, PointInTime
<1> QED
  BY <1>7, <1>8, <1>9, <1>10

----------------------------------------------------------------------------
(* Types, phases and plans                                                 *)

\* The application being restored, its plans and the ones after it
LEMMA HeadIs ==
  ASSUME TypeInv, pending # <<>>
  PROVE  /\ App \in Backed
         /\ Head(pending).plan = Full
         /\ Head(pending).revert = build_restore_revert_plan(App, began.units)
         /\ Tail(pending) \in Seq(PreparedWith(began.units))
         /\ Full \in Seq(Quieting(App) \cup {Restore(App)} \cup Restoring(App, began.units))
<1>1. Head(pending) \in PreparedWith(began.units) /\ Tail(pending) \in Seq(PreparedWith(began.units))
  BY DEF TypeInv, CommandTypes
<1>2. /\ App \in Backed
      /\ Head(pending).plan = Full
      /\ Head(pending).revert = build_restore_revert_plan(App, began.units)
  BY <1>1 DEF PreparedWith, App, Full
<1> QED
  BY <1>1, <1>2, PlanShape DEF Full, Shape

\* The next step of the plan, and the place it has
LEMMA NowIs ==
  ASSUME ProgramInv, pc \in Running, plan # <<>>
  PROVE  /\ App \in Backed
         /\ Now \in Quieting(App) \cup {Restore(App)} \cup Restoring(App, began.units)
         /\ pc \in Back => Now \in Restoring(App, began.units)
         /\ pc \in Ahead => /\ Behind \in Nat /\ Behind + 1 \in 1..Len(Full)
                            /\ Now = Full[Behind + 1]
<1>1. App \in Backed /\ Full \in Seq(Quieting(App) \cup {Restore(App)} \cup Restoring(App, began.units))
  BY HeadIs DEF ProgramInv, PhaseInv
<1>2. CASE pc \in Ahead
  <2>1. /\ plan \in Seq(Quieting(App) \cup {Restore(App)} \cup Restoring(App, began.units))
        /\ Len(plan) <= Len(Full)
        /\ \A i \in 1..Len(plan) : plan[i] = Full[Behind + i]
    BY <1>2 DEF ProgramInv, PlanInv
  <2>2. /\ Len(plan) \in Nat /\ Len(plan) >= 1 /\ Now = plan[1]
        /\ Now \in Quieting(App) \cup {Restore(App)} \cup Restoring(App, began.units)
    BY <2>1 DEF Now
  <2>3. Len(Full) \in Nat
    BY <1>1
  <2>4. Behind \in Nat /\ Behind + 1 \in 1..Len(Full)
    BY <2>1, <2>2, <2>3 DEF Behind
  <2>5. pc \notin Back
    BY <1>2 DEF Ahead, Back
  <2> QED
    BY <1>1, <2>1, <2>2, <2>4, <2>5
<1>3. CASE pc \in Back
  <2>1. plan \in Seq(Restoring(App, began.units)) /\ pc \notin Ahead
    BY <1>3 DEF ProgramInv, PlanInv, Ahead, Back
  <2>2. Now \in Restoring(App, began.units)
    BY <2>1 DEF Now
  <2> QED
    BY <1>1, <2>1, <2>2
<1> QED
  BY <1>2, <1>3 DEF Running, Ahead, Back

LEMMA ExitPhase == ASSUME Exit PROVE PhaseInv' /\ PlanInv'
BY DEF Exit, PhaseInv, PlanInv, Running, Ahead, Back

LEMMA ExitTypes ==
  ASSUME TypeInv, Exit, UNCHANGED <<toTime, shown, began>>, DOMAIN outcome' = Backed
  PROVE  CommandTypes'
BY DEF TypeInv, Exit, CommandTypes

LEMMA JujuRests == ASSUME JujuTypes, UNCHANGED juju PROVE JujuTypes'
BY DEF JujuTypes, juju

LEMMA PlanRests ==
  ASSUME PhaseInv, PlanInv, UNCHANGED <<cmd, pc, waiting, pending, plan, began>>
  PROVE  PhaseInv' /\ PlanInv'
BY DEF PhaseInv, PlanInv, App, Full, Behind

LEMMA ProgramInit == Init => ProgramInv
<1> SUFFICES ASSUME Init PROVE ProgramInv
  OBVIOUS
<1>1. JujuTypes
  BY ModelAssumption DEF Init, JujuTypes, Statuses, None
<1>2. CommandTypes
  <2>1. began.units = Scale0 /\ Scale0 \in [DOMAIN Scale0 -> Nat]
    BY ModelAssumption DEF Init
  <2>2. shown \in [Backed -> Seq(Statuses)] /\ DOMAIN outcome = Backed
    BY DEF Init
  <2>3. pending \in Seq(PreparedWith(began.units)) /\ targets = {} /\ waiting = {} /\ toTime = FALSE
    BY DEF Init
  <2>4. began.ids \in [Backed -> Nat]
    <3>1. began.ids = [a \in Backed |-> 0]
      BY DEF Init
    <3> QED
      BY <3>1
  <2> QED
    BY <2>1, <2>2, <2>3, <2>4 DEF CommandTypes
<1>3. PhaseInv /\ PlanInv
  BY DEF Init, PhaseInv, PlanInv, Running, Ahead, Back
<1> QED
  BY <1>1, <1>2, <1>3 DEF ProgramInv, TypeInv

LEMMA FoundCounts == ASSUME JujuTypes, NEW kind PROVE Found(kind).ids \in [Backed -> Nat]
<1>1. \A a \in Backed : Len(repo[a]) \in Nat
  BY DEF JujuTypes
<1>2. Found(kind).ids = [a \in Backed |-> Len(repo[a])]
  BY DEF Found
<1> QED
  BY <1>1, <1>2

\* Commands that restore nothing yet
LEMMA ProgramBefore ==
  ASSUME ProgramInv,
         Command \/ ResolveBackupTargets \/ (\E a \in Backed : BackupReturns(a)) \/ BackupDone
         \/ ListBackups \/ UnresolvedTarget \/ NothingMore \/ PrecheckFails \/ Decline \/ Kill
  PROVE  ProgramInv'
<1>0. JujuTypes /\ CommandTypes /\ PhaseInv /\ PlanInv /\ TypeInv
  BY DEF ProgramInv, TypeInv
<1>1. CASE Command
  <2>1. PICK k \in {"backup", "list", "restore"}, pit \in BOOLEAN : Validate(k, pit)
    BY <1>1 DEF Command
  <2>2. JujuTypes'
    BY <1>0, <2>1, JujuRests DEF Validate
  <2>3. pending = <<>> /\ plan = <<>> /\ waiting = {}
    BY <1>0, <2>1 DEF Validate, PhaseInv, Running
  <2>4. began'.units = units /\ began'.kind = k
    BY <2>1 DEF Validate, Found
  <2>5. CommandTypes'
    <3>0. shown' = [a \in Backed |-> <<>>] /\ outcome' = [a \in Backed |-> "none"]
      BY <2>1 DEF Validate
    <3>1. shown' \in [Backed -> Seq(Statuses)] /\ DOMAIN outcome' = Backed
      BY <3>0
    <3>2. targets' \subseteq Backed /\ toTime' \in BOOLEAN
      BY <2>1 DEF Validate
    <3>3. waiting' = {} /\ pending' = <<>>
      BY <2>1, <2>3 DEF Validate
    <3>4. began'.units \in [DOMAIN Scale0 -> Nat]
      BY <1>0, <2>4 DEF JujuTypes
    <3>5. pending' \in Seq(PreparedWith(began'.units))
      BY <3>3
    <3>6. began'.ids \in [Backed -> Nat]
      BY <1>0, <2>1, FoundCounts DEF Validate
    <3> QED
      BY <3>1, <3>2, <3>3, <3>4, <3>5, <3>6 DEF CommandTypes
  <2>6. PhaseInv' /\ PlanInv'
    BY <1>0, <2>1, <2>3, <2>4 DEF Validate, PhaseInv, PlanInv, Running, Ahead, Back
  <2> QED
    BY <2>2, <2>5, <2>6 DEF ProgramInv, TypeInv
<1>2. CASE ResolveBackupTargets
  <2>1. PICK unresolved \in SUBSET targets :
          /\ repo' = [a \in Backed |->
                        IF a \in targets \ unresolved THEN Append(repo[a], "running") ELSE repo[a]]
          /\ waiting' = targets \ unresolved
          /\ outcome' = [a \in Backed |-> IF a \in unresolved THEN "unresolved" ELSE "none"]
    BY <1>2 DEF ResolveBackupTargets
  <2>2. \A a \in Backed : repo[a] \in Seq(Statuses) /\ Append(repo[a], "running") \in Seq(Statuses)
    BY <1>0 DEF JujuTypes, Statuses
  <2>3. repo' \in [Backed -> Seq(Statuses)]
    BY <2>1, <2>2
  <2>4. JujuTypes'
    BY <1>0, <1>2, <2>3 DEF ResolveBackupTargets, JujuTypes
  <2>5. CommandTypes'
    BY <1>0, <1>2, <2>1 DEF ResolveBackupTargets, CommandTypes
  <2>6. PhaseInv' /\ PlanInv'
    BY <1>0, <1>2 DEF ResolveBackupTargets, PhaseInv, PlanInv, Running, Ahead, Back
  <2> QED
    BY <2>4, <2>5, <2>6 DEF ProgramInv, TypeInv
<1>3. CASE \E a \in Backed : BackupReturns(a)
  <2>1. PICK a \in Backed : BackupReturns(a)
    BY <1>3
  <2>2. DOMAIN outcome' = Backed
    BY <1>0, <2>1 DEF BackupReturns, CommandTypes
  <2>3. JujuTypes'
    BY <1>0, <2>1, JujuRests DEF BackupReturns
  <2>4. CommandTypes'
    BY <1>0, <2>1, <2>2 DEF BackupReturns, CommandTypes
  <2>5. PhaseInv' /\ PlanInv'
    BY <1>0, <2>1 DEF BackupReturns, PhaseInv, PlanInv, Running, Ahead, Back
  <2> QED
    BY <2>3, <2>4, <2>5 DEF ProgramInv, TypeInv
<1>4. CASE ListBackups
  <2>1. PICK listed \in SUBSET targets :
          /\ shown' = [a \in Backed |-> IF cmd = "restore" /\ a \in listed THEN repo[a] ELSE <<>>]
          /\ pc' = IF cmd = "list" THEN "listed" ELSE "confirm"
          /\ targets' = IF cmd = "list" THEN targets ELSE FilterRestoreTargets(listed)
    BY <1>4 DEF ListBackups
  <2>2. shown' \in [Backed -> Seq(Statuses)]
    BY <1>0, <2>1 DEF JujuTypes
  <2>3. targets' \subseteq Backed
    BY <1>0, <2>1 DEF CommandTypes, FilterRestoreTargets
  <2>4. JujuTypes'
    BY <1>0, <1>4, JujuRests DEF ListBackups
  <2>5. waiting = {} /\ cmd \in {"list", "restore"}
    BY <1>0, <1>4 DEF ListBackups, PhaseInv
  <2>6. CommandTypes'
    BY <1>0, <1>4, <2>2, <2>3, <2>5 DEF ListBackups, CommandTypes
  <2>7. PhaseInv' /\ PlanInv'
    BY <1>0, <1>4, <2>1, <2>5 DEF ListBackups, PhaseInv, PlanInv, Running, Ahead, Back
  <2> QED
    BY <2>4, <2>6, <2>7 DEF ProgramInv, TypeInv
<1>5. CASE BackupDone \/ UnresolvedTarget \/ NothingMore \/ PrecheckFails \/ Decline
  <2>1. Exit /\ UNCHANGED juju /\ UNCHANGED <<toTime, shown, outcome, began>>
    BY <1>5 DEF BackupDone, UnresolvedTarget, NothingMore, PrecheckFails, Decline
  <2>2. DOMAIN outcome' = Backed
    BY <1>0, <2>1 DEF CommandTypes
  <2> QED
    BY <1>0, <2>1, <2>2, ExitPhase, ExitTypes, JujuRests DEF ProgramInv, TypeInv
<1>6. CASE Kill
  <2>1. Exit /\ UNCHANGED <<toTime, shown, outcome, began>> /\ DOMAIN outcome' = Backed
    BY <1>0, <1>6 DEF Kill, CommandTypes
  <2>2. JujuTypes'
    BY <1>0, <1>6 DEF Kill, JujuTypes
  <2> QED
    BY <1>0, <2>1, <2>2, ExitPhase, ExitTypes DEF ProgramInv, TypeInv
<1> QED
  BY <1>1, <1>2, <1>3, <1>4, <1>5, <1>6

LEMMA TailOf ==
  ASSUME NEW S, NEW q \in Seq(S), q # <<>>
  PROVE  /\ Tail(q) \in Seq(S) /\ Head(q) = q[1] /\ Len(q) \in Nat /\ Len(q) >= 1
         /\ Len(Tail(q)) = Len(q) - 1
         /\ \A i \in 1..Len(Tail(q)) : Tail(q)[i] = q[i + 1]
OBVIOUS

LEMMA ElementsTail ==
  ASSUME NEW S, NEW q \in Seq(S)
  PROVE  /\ \A x : x \in ToSet(q) <=> \E i \in 1..Len(q) : q[i] = x
         /\ q # <<>> => \A x \in ToSet(q) : x = Head(q) \/ x \in ToSet(Tail(q))
<1>1. DOMAIN q = 1..Len(q)
  OBVIOUS
<1>2. \A x : x \in ToSet(q) <=> \E i \in 1..Len(q) : q[i] = x
  BY <1>1 DEF ToSet
<1>3. ASSUME q # <<>>, NEW x \in ToSet(q), x # Head(q) PROVE x \in ToSet(Tail(q))
  <2> DEFINE r == Tail(q)
  <2>1. /\ r \in Seq(S) /\ Head(q) = q[1] /\ Len(q) \in Nat /\ Len(r) = Len(q) - 1
        /\ \A i \in 1..Len(r) : r[i] = q[i + 1]
    BY <1>3, TailOf
  <2>2. DOMAIN r = 1..Len(r)
    BY <2>1
  <2> HIDE DEF r
  <2>3. PICK i \in 1..Len(q) : q[i] = x
    BY <1>2, <1>3
  <2>4. i # 1
    BY <1>3, <2>1, <2>3
  <2>5. i - 1 \in 1..Len(r) /\ r[i - 1] = q[(i - 1) + 1] /\ (i - 1) + 1 = i
    BY <2>1, <2>3, <2>4
  <2>6. x \in ToSet(r)
    BY <2>2, <2>3, <2>5 DEF ToSet
  <2> QED
    BY <2>6 DEF r
<1> QED
  BY <1>2, <1>3

\* One step of the plan less
LEMMA AheadStep ==
  ASSUME ProgramInv, pc \in Ahead, plan # <<>>, plan' = Tail(plan), UNCHANGED <<pending, began>>
  PROVE  /\ App' = App /\ Full' = Full /\ Behind' = Behind + 1
         /\ Len(plan') <= Len(Full)
         /\ plan' \in Seq(Quieting(App) \cup {Restore(App)} \cup Restoring(App, began.units))
         /\ \A i \in 1..Len(plan') : plan'[i] = Full[Behind' + i]
<1> DEFINE S == Quieting(App) \cup {Restore(App)} \cup Restoring(App, began.units)
<1>1. App' = App /\ Full' = Full
  BY DEF App, Full
<1>2. /\ plan \in Seq(S) /\ Len(plan) <= Len(Full)
      /\ \A i \in 1..Len(plan) : plan[i] = Full[Behind + i]
  BY DEF ProgramInv, PlanInv
<1>3. Full \in Seq(S)
  BY HeadIs DEF ProgramInv, PhaseInv, Running, Ahead
<1> HIDE DEF S
<1>4. /\ plan' \in Seq(S) /\ Len(plan') = Len(plan) - 1 /\ Len(plan) \in Nat /\ Len(plan) >= 1
      /\ \A i \in 1..Len(plan') : plan'[i] = plan[i + 1]
  BY <1>2, TailOf
<1>5. Len(Full) \in Nat
  BY <1>3
<1>6. Behind \in Int /\ Behind' = Behind + 1
  BY <1>1, <1>4, <1>5 DEF Behind
<1>7. ASSUME NEW i \in 1..Len(plan') PROVE plan'[i] = Full[Behind' + i]
  <2>1. i + 1 \in 1..Len(plan) /\ plan'[i] = plan[i + 1]
    BY <1>4
  <2>2. plan[i + 1] = Full[Behind + (i + 1)] /\ Behind + (i + 1) = Behind' + i
    BY <1>2, <1>6, <2>1
  <2> QED
    BY <2>1, <2>2
<1>8. Len(plan') <= Len(Full)
  BY <1>2, <1>4, <1>5
<1> QED
  BY <1>1, <1>4, <1>6, <1>7, <1>8, Zenon DEF S

\* The loop of RestoreStep and the revert
LEMMA ProgramRestore ==
  ASSUME ProgramInv,
         PrepareRestore \/ NextApp \/ RunStep \/ StepReturns \/ StepFails \/ AppRestored \/ AppReverted
  PROVE  ProgramInv'
<1>0. JujuTypes /\ CommandTypes /\ PhaseInv /\ PlanInv /\ TypeInv
  BY DEF ProgramInv, TypeInv
<1>1. CASE PrepareRestore
  <2> DEFINE P == {Prepared(a) : a \in targets}
             f == [a \in targets |-> Prepared(a)]
  <2>1. pending' = SetToSeq(P) /\ began'.units = units /\ began'.kind = "restore"
    BY <1>1 DEF PrepareRestore, Found
  <2>2. IsFiniteSet(targets)
    BY <1>0, BackedAssumption, FS_Subset DEF CommandTypes
  <2>3. IsFiniteSet(P)
    <3>1. f \in Surjection(targets, P)
      BY DEF Surjection
    <3> QED
      BY <2>2, <3>1, FS_Surjection
  <2>4. P \subseteq PreparedWith(units)
    BY <1>0 DEF CommandTypes, Prepared, PreparedWith
  <2> HIDE DEF P
  <2>5. pending' \in Seq(P)
    BY <2>1, <2>3, ListsOfSet DEF Lists
  <2>6. pending' \in Seq(PreparedWith(units))
    BY <2>4, <2>5
  <2>7. units \in [DOMAIN Scale0 -> Nat]
    BY <1>0 DEF JujuTypes
  <2>8. CommandTypes'
    <3>1. began'.ids \in [Backed -> Nat]
      BY <1>0, <1>1, FoundCounts DEF PrepareRestore
    <3> QED
      BY <1>0, <1>1, <2>1, <2>6, <2>7, <3>1 DEF PrepareRestore, CommandTypes
  <2>9. PhaseInv' /\ PlanInv'
    BY <1>0, <1>1, <2>1 DEF PrepareRestore, PhaseInv, PlanInv, Running, Ahead, Back
  <2>10. JujuTypes'
    BY <1>0, <1>1, JujuRests DEF PrepareRestore
  <2> QED
    BY <2>8, <2>9, <2>10 DEF ProgramInv, TypeInv
<1>2. CASE NextApp
  <2>1. JujuTypes'
    BY <1>0, <1>2, JujuRests DEF NextApp
  <2>2. CASE pending = <<>>
    <3>1. Exit /\ UNCHANGED <<toTime, shown, outcome, began>> /\ DOMAIN outcome' = Backed
      BY <1>0, <1>2, <2>2 DEF NextApp, CommandTypes
    <3> QED
      BY <1>0, <2>1, <3>1, ExitPhase, ExitTypes DEF ProgramInv, TypeInv
  <2>3. CASE pending # <<>>
    <3>1. /\ plan' = Head(pending).plan /\ pc' = "run"
          /\ UNCHANGED <<cmd, targets, waiting, pending, toTime, shown, outcome, began>>
      BY <1>2, <2>3 DEF NextApp
    <3>2. /\ plan' = Full
          /\ Full \in Seq(Quieting(App) \cup {Restore(App)} \cup Restoring(App, began.units))
      BY <1>0, <2>3, <3>1, HeadIs
    <3>3. CommandTypes'
      BY <1>0, <3>1 DEF CommandTypes
    <3>4. PhaseInv'
      BY <1>0, <1>2, <2>3, <3>1 DEF NextApp, PhaseInv, Running
    <3>5. App' = App /\ Full' = Full
      BY <3>1 DEF App, Full
    <3>6. Len(plan') \in Nat /\ Len(plan') = Len(Full) /\ Behind' = 0
      BY <3>2, <3>5 DEF Behind
    <3>7. \A i \in 1..Len(plan') : plan'[i] = Full[Behind' + i]
      BY <3>2, <3>6
    <3>8. PlanInv'
      BY <3>1, <3>2, <3>5, <3>6, <3>7 DEF PlanInv, Ahead, Back
    <3> QED
      BY <2>1, <3>3, <3>4, <3>8 DEF ProgramInv, TypeInv
  <2> QED
    BY <2>2, <2>3
<1>3. CASE RunStep
  <2>1. pc \in {"run", "revert"} /\ plan # <<>>
    BY <1>3 DEF RunStep
  <2>2. /\ App \in Backed
        /\ Now \in Quieting(App) \cup {Restore(App)} \cup Restoring(App, began.units)
    BY <2>1, NowIs DEF Running
  <2>3. began.units \in [DOMAIN Scale0 -> Nat]
    BY <1>0 DEF CommandTypes
  <2>4. \/ Now.op \in {"pause", "resume"}
        \/ Now.op = "scale" /\ Now.app \in DOMAIN Scale0 /\ Now.n \in Nat
        \/ Now.op = "restore" /\ Now.app \in Backed
    BY <2>2, <2>3, StepKinds
  <2>5. ASSUME Now.op \in {"pause", "resume"} PROVE JujuTypes'
    <3>1. UNCHANGED <<scale, units, repo, doing, data, late>>
      BY <1>3, <2>5 DEF RunStep, StepEffect
    <3> QED
      BY <1>0, <3>1 DEF JujuTypes
  <2>6. ASSUME Now.op = "scale" /\ Now.app \in DOMAIN Scale0 /\ Now.n \in Nat PROVE JujuTypes'
    <3>1. scale' = [scale EXCEPT ![Now.app] = Now.n] /\ UNCHANGED <<units, repo, doing, data, late>>
      BY <1>3, <2>6 DEF RunStep, StepEffect
    <3> QED
      BY <1>0, <2>6, <3>1 DEF JujuTypes
  <2>7. ASSUME Now.op = "restore" /\ Now.app \in Backed PROVE JujuTypes'
    <3>1. /\ doing' = [doing EXCEPT ![Now.app] = RestoreParams(Now.app)]
          /\ UNCHANGED <<scale, units, repo, data, late>>
      BY <1>3, <2>7 DEF RunStep, StepEffect
    <3>2. RestoreParams(Now.app) \in Nat /\ RestoreParams(Now.app) # None
      BY <1>0, <1>3, <2>7, LatestIsNewest DEF JujuTypes, RunStep
    <3> QED
      BY <1>0, <2>7, <3>1, <3>2 DEF JujuTypes
  <2>8. JujuTypes'
    BY <2>4, <2>5, <2>6, <2>7
  <2>9. CommandTypes'
    BY <1>0, <1>3 DEF RunStep, SameCommand, CommandTypes
  <2>10. /\ pc' = IF pc = "run" THEN "run wait" ELSE "revert wait"
         /\ UNCHANGED <<plan, cmd, waiting, pending, began>>
    BY <1>3 DEF RunStep, SameCommand
  <2>11. PhaseInv'
    BY <1>0, <2>1, <2>10 DEF PhaseInv, Running
  <2>12. PlanInv'
    BY <1>0, <2>1, <2>10 DEF PlanInv, App, Full, Behind, Ahead, Back
  <2> QED
    BY <2>8, <2>9, <2>11, <2>12 DEF ProgramInv, TypeInv
<1>4. CASE StepReturns
  <2>1. /\ pc \in {"run wait", "revert wait"} /\ plan' = Tail(plan)
        /\ pc' = IF pc = "run wait" THEN "run" ELSE "revert"
        /\ UNCHANGED juju /\ SameCommand
    BY <1>4 DEF StepReturns
  <2>2. JujuTypes'
    BY <1>0, <2>1, JujuRests
  <2>3. CommandTypes'
    BY <1>0, <2>1 DEF SameCommand, CommandTypes
  <2>4. PhaseInv'
    BY <1>0, <2>1 DEF SameCommand, PhaseInv, Running
  <2>5. plan # <<>>
    BY <1>0, <2>1 DEF PhaseInv
  <2>6. App' = App /\ Full' = Full /\ began' = began
    BY <2>1 DEF App, Full, SameCommand
  <2>7. PlanInv'
    <3>1. CASE pc = "run wait"
      <4>1. UNCHANGED <<pending, began>> /\ pc \in Ahead /\ pc' = "run"
        BY <2>1, <3>1 DEF SameCommand, Ahead
      <4>2. /\ Len(plan') <= Len(Full)
            /\ plan' \in Seq(Quieting(App) \cup {Restore(App)} \cup Restoring(App, began.units))
            /\ \A i \in 1..Len(plan') : plan'[i] = Full[Behind' + i]
        BY <2>1, <2>5, <4>1, AheadStep
      <4> QED
        BY <2>6, <4>1, <4>2 DEF PlanInv, Back
    <3>2. CASE pc = "revert wait"
      <4>1. pc' = "revert" /\ plan \in Seq(Restoring(App, began.units))
        BY <1>0, <2>1, <3>2 DEF PlanInv, Back
      <4>2. plan' \in Seq(Restoring(App, began.units))
        BY <2>1, <2>5, <4>1, TailOf
      <4> QED
        BY <2>6, <4>1, <4>2 DEF PlanInv, Ahead
    <3> QED
      BY <2>1, <3>1, <3>2
  <2> QED
    BY <2>2, <2>3, <2>4, <2>7 DEF ProgramInv, TypeInv
<1>5. CASE StepFails
  <2>1. /\ plan # <<>> /\ pc \in Running /\ pc' = "revert"
        /\ UNCHANGED <<scale, units, repo, doing, data, cmd, toTime, targets, shown, waiting, pending,
                       began>>
    BY <1>5 DEF StepFails, Running
  <2>2. App \in Backed /\ App' = App
    BY <1>0, <2>1, HeadIs DEF PhaseInv, App
  <2>3. late' \subseteq {a \in Backed : doing'[a] # None}
    <3>1. Now.op = "restore" => Now.app \in Backed
      <4>1. Now \in Quieting(App) \cup {Restore(App)} \cup Restoring(App, began.units)
        BY <2>1, NowIs
      <4>2. began.units \in [DOMAIN Scale0 -> Nat]
        BY <1>0 DEF CommandTypes
      <4> QED
        BY <2>2, <4>1, <4>2, StepKinds
    <3>2. late' = IF Now.op = "restore" /\ doing[Now.app] # None THEN late \cup {Now.app} ELSE late
      BY <1>5 DEF StepFails
    <3> QED
      BY <1>0, <2>1, <3>1, <3>2 DEF JujuTypes
  <2>4. JujuTypes'
    BY <1>0, <2>1, <2>3 DEF JujuTypes
  <2>5. DOMAIN outcome' = Backed
    BY <1>0, <1>5 DEF StepFails, CommandTypes
  <2>6. CommandTypes'
    BY <1>0, <2>1, <2>5 DEF CommandTypes
  <2>7. PhaseInv'
    BY <1>0, <2>1 DEF PhaseInv, Running
  <2>8. plan' \in Seq(Restoring(App, began.units))
    <3>1. CASE pc \in Ahead
      <4>1. plan' = Head(pending).revert
        BY <1>5, <3>1 DEF StepFails, Ahead
      <4>2. plan' = build_restore_revert_plan(App, began.units)
        BY <1>0, <2>1, <4>1, HeadIs DEF PhaseInv
      <4> QED
        BY <2>2, <4>2, RevertListed DEF Lists
    <3>2. CASE pc \in Back
      <4>1. plan' = Tail(plan)
        BY <1>5, <3>2 DEF StepFails, Back
      <4>2. plan \in Seq(Restoring(App, began.units))
        BY <1>0, <3>2 DEF PlanInv
      <4> QED
        BY <2>1, <4>1, <4>2, TailOf
    <3> QED
      BY <2>1, <3>1, <3>2 DEF Running, Ahead, Back
  <2>9. PlanInv'
    BY <2>1, <2>2, <2>8 DEF PlanInv, Ahead, Back
  <2> QED
    BY <2>4, <2>6, <2>7, <2>9 DEF ProgramInv, TypeInv
<1>6. CASE AppRestored
  <2>1. JujuTypes'
    BY <1>0, <1>6, JujuRests DEF AppRestored
  <2>2. pending # <<>>
    BY <1>0, <1>6 DEF AppRestored, PhaseInv, Running
  <2>3. pending' \in Seq(PreparedWith(began.units)) /\ DOMAIN outcome' = Backed
    BY <1>0, <1>6, <2>2, HeadIs DEF AppRestored, CommandTypes
  <2>4. CommandTypes'
    BY <1>0, <1>6, <2>3 DEF AppRestored, CommandTypes
  <2>5. PhaseInv' /\ PlanInv'
    BY <1>0, <1>6 DEF AppRestored, PhaseInv, PlanInv, Running, Ahead, Back
  <2> QED
    BY <2>1, <2>4, <2>5 DEF ProgramInv, TypeInv
<1>7. CASE AppReverted
  <2>1. Exit /\ UNCHANGED juju /\ UNCHANGED <<toTime, shown, began>> /\ DOMAIN outcome' = Backed
    BY <1>7 DEF AppReverted
  <2> QED
    BY <1>0, <2>1, ExitPhase, ExitTypes, JujuRests DEF ProgramInv, TypeInv
<1> QED
  BY <1>1, <1>2, <1>3, <1>4, <1>5, <1>6, <1>7

\* The charms and Kubernetes
LEMMA ProgramOutside ==
  ASSUME ProgramInv, Outside
  PROVE  ProgramInv'
<1>0. JujuTypes /\ CommandTypes /\ PhaseInv /\ PlanInv
  BY DEF ProgramInv, TypeInv
<1>1. UNCHANGED <<cmd, pc, toTime, targets, shown, waiting, pending, plan, began>>
  BY DEF Outside, BackupEnds, UnitsFollow, RestoreEnds
<1>2. outcome' = outcome
  BY DEF Outside, BackupEnds, UnitsFollow, RestoreEnds
<1>3. CommandTypes'
  BY <1>0, <1>1, <1>2 DEF CommandTypes
<1>4. ASSUME \E a \in Backed, id \in 1..(PointInTime - 1) : BackupEnds(a, id) PROVE JujuTypes'
  <2>1. PICK a \in Backed, id \in 1..(PointInTime - 1) : BackupEnds(a, id)
    BY <1>4
  <2>2. PICK s \in Statuses : repo' = [repo EXCEPT ![a][id] = s]
    BY <2>1 DEF BackupEnds, Statuses
  <2>3. repo[a] \in Seq(Statuses) /\ id \in DOMAIN repo[a]
    BY <1>0, <2>1 DEF JujuTypes, BackupEnds
  <2>4. [repo[a] EXCEPT ![id] = s] \in Seq(Statuses)
    BY <2>3
  <2>5. repo' \in [Backed -> Seq(Statuses)]
    BY <1>0, <2>2, <2>4 DEF JujuTypes
  <2> QED
    BY <1>0, <2>1, <2>5 DEF JujuTypes, BackupEnds
<1>5. ASSUME \E a \in DOMAIN Scale0 : UnitsFollow(a) PROVE JujuTypes'
  BY <1>0, <1>5 DEF JujuTypes, UnitsFollow
<1>6. ASSUME \E a \in Backed : RestoreEnds(a) PROVE JujuTypes'
  <2>1. PICK a \in Backed : RestoreEnds(a)
    BY <1>6
  <2>2. /\ data' = [data EXCEPT ![a] = doing[a]] /\ doing' = [doing EXCEPT ![a] = None]
        /\ late' = late \ {a} /\ UNCHANGED <<scale, units, repo>>
    BY <2>1 DEF RestoreEnds
  <2> QED
    BY <1>0, <2>2 DEF JujuTypes, None
<1> QED
  BY <1>0, <1>1, <1>3, <1>4, <1>5, <1>6, PlanRests DEF Outside, ProgramInv, TypeInv

LEMMA ProgramStep ==
  ASSUME ProgramInv, [Next]_bvars
  PROVE  ProgramInv'
<1>1. CASE UNCHANGED bvars
  <2>1. JujuTypes' /\ CommandTypes'
    BY <1>1 DEF ProgramInv, TypeInv, bvars, JujuTypes, CommandTypes
  <2> QED
    BY <1>1, <2>1, PlanRests DEF ProgramInv, TypeInv, bvars
<1>2. CASE Next
  BY <1>2, ProgramBefore, ProgramRestore, ProgramOutside DEF Next, Step
<1> QED
  BY <1>1, <1>2

----------------------------------------------------------------------------
(* Quiet while the data is replaced                                        *)

LEMMA DoneIs ==
  /\ \A a : Done(Pause(a)) <=> a \in paused
  /\ \A a : Done(Resume(a)) <=> a \notin paused
  /\ \A a, n : Done(Scale(a, n)) <=> scale[a] = n /\ units[a] = n
BY DEF Done, Pause, Resume, Scale

\* A step that is done stays done, whatever the outside does.
LEMMA DoneOutside ==
  ASSUME JujuTypes, Outside \/ UNCHANGED <<scale, units, paused>>
  PROVE  \A x : x.app \in DOMAIN Scale0 \/ x.op # "scale" => (Done(x) => Done(x)')
<1>1. UNCHANGED <<scale, paused>>
  BY DEF Outside, BackupEnds, UnitsFollow, RestoreEnds
<1>2. \A a \in DOMAIN Scale0 : scale[a] = units[a] => units'[a] = units[a]
  <2>1. CASE \E b \in DOMAIN Scale0 : UnitsFollow(b)
    BY <2>1 DEF UnitsFollow, JujuTypes
  <2>2. CASE UNCHANGED units
    BY <2>2
  <2> QED
    BY <2>1, <2>2 DEF Outside, BackupEnds, RestoreEnds
<1> QED
  BY <1>1, <1>2 DEF Done

\* What quiets an application is put back by no step before the restore.
LEMMA QuietingAgrees ==
  ASSUME NEW a \in Backed, NEW x \in Quieting(a), NEW y \in Quieting(a),
         x.op = y.op, x.app = y.app
  PROVE  x.n = y.n
<1>1. a \notin RouterApps(a)
  BY DEF RouterApps, Related
<1>2. a \in MySQLs
  BY DEF Quieting
<1>3. ASSUME NEW z \in Quieting(a)
      PROVE  \/ z.op = "pause" /\ z.n = 0
             \/ z.op = "scale" /\ z.app \in RouterApps(a) /\ z.n = 0
             \/ z.op = "scale" /\ z.app = a /\ z.n = 1
  BY <1>2, <1>3 DEF Quieting, Pause, Scale
<1>4. /\ \/ x.op = "pause" /\ x.n = 0
         \/ x.op = "scale" /\ x.app \in RouterApps(a) /\ x.n = 0
         \/ x.op = "scale" /\ x.app = a /\ x.n = 1
      /\ \/ y.op = "pause" /\ y.n = 0
         \/ y.op = "scale" /\ y.app \in RouterApps(a) /\ y.n = 0
         \/ y.op = "scale" /\ y.app = a /\ y.n = 1
  BY <1>3
<1> QED
  BY <1>1, <1>4

LEMMA WaitStep ==
  ASSUME ProgramInv, WaitInv, [Next]_bvars
  PROVE  WaitInv'
<1>1. CASE RunStep
  <2>1. pc \in Running /\ plan # <<>> /\ StepEffect /\ plan' = plan
    BY <1>1 DEF RunStep, Running
  <2>2. Now' = Now
    BY <2>1 DEF Now
  <2>3. App \in Backed /\ Now \in Quieting(App) \cup {Restore(App)} \cup Restoring(App, began.units)
    BY <2>1, NowIs
  <2>4. began.units \in [DOMAIN Scale0 -> Nat] /\ scale \in [DOMAIN Scale0 -> Nat]
    BY DEF ProgramInv, TypeInv, CommandTypes, JujuTypes
  <2>5. \/ Now.op \in {"pause", "resume"}
        \/ Now.op = "scale" /\ Now.app \in DOMAIN Scale0
        \/ Now.op = "restore"
    BY <2>3, <2>4, StepKinds
  <2>6. /\ Now.op = "pause" => Now.app \in paused'
        /\ Now.op = "resume" => Now.app \notin paused'
        /\ Now.op = "scale" => scale'[Now.app] = Now.n
    BY <2>1, <2>4, <2>5 DEF StepEffect
  <2>7. Asked(Now)'
    BY <2>2, <2>5, <2>6 DEF Asked
  <2> QED
    BY <2>7 DEF WaitInv
<1>2. CASE Outside \/ UNCHANGED bvars
  <2>1. UNCHANGED <<pc, plan, scale, paused>>
    BY <1>2 DEF Outside, BackupEnds, UnitsFollow, RestoreEnds, bvars
  <2> QED
    BY <2>1 DEF WaitInv, Asked, Now
<1>3. CASE ~RunStep /\ (Command \/ Step \/ Decline \/ Kill)
  <2>1. pc' \notin {"run wait", "revert wait"}
    <3>1. CASE Command
      BY <3>1 DEF Command, Validate
    <3>2. CASE ResolveBackupTargets \/ (\E a \in Backed : BackupReturns(a)) \/ BackupDone
               \/ ListBackups \/ UnresolvedTarget \/ NothingMore
      BY <3>2 DEF ResolveBackupTargets, BackupReturns, BackupDone, ListBackups, UnresolvedTarget,
         NothingMore, Exit
    <3>3. CASE PrepareRestore \/ PrecheckFails \/ NextApp \/ StepReturns \/ StepFails
               \/ AppRestored \/ AppReverted
      BY <3>3 DEF PrepareRestore, PrecheckFails, NextApp, StepReturns, StepFails, AppRestored,
         AppReverted, Exit
    <3>4. CASE Decline \/ Kill
      BY <3>4 DEF Decline, Kill, Exit
    <3> QED
      BY <1>3, <3>1, <3>2, <3>3, <3>4 DEF Step
  <2> QED
    BY <2>1 DEF WaitInv
<1> QED
  BY <1>1, <1>2, <1>3 DEF Next, Step

\* Where the restore is in the plan
LEMMA RestoreIsThere ==
  ASSUME ProgramInv, pc \in Ahead, plan # <<>>
  PROVE  /\ App \in Backed /\ RestoreAt(App) \in Nat /\ Behind \in Nat
         /\ Now = Restore(App) <=> Behind = RestoreAt(App) - 1
         /\ Behind < RestoreAt(App) - 1 => Now \in Quieting(App)
         /\ Behind >= RestoreAt(App) => Now \in Restoring(App, began.units)
<1> DEFINE R == RestoreAt(App)
<1>1. App \in Backed /\ Behind \in Nat /\ Behind + 1 \in 1..Len(Full) /\ Now = Full[Behind + 1]
  BY NowIs DEF Running, Ahead
<1>2. /\ R \in 1..Len(Full) /\ Full[R] = Restore(App)
      /\ \A i \in 1..(R - 1) : Full[i] \in Quieting(App)
      /\ \A i \in (R + 1)..Len(Full) : Full[i] \in Restoring(App, began.units)
      /\ Full \in Seq(Quieting(App) \cup {Restore(App)} \cup Restoring(App, began.units))
  BY <1>1, PlanShape DEF Full, Shape
<1>3. Restore(App) \notin Quieting(App) /\ Restore(App) \notin Restoring(App, began.units)
  BY DEF Quieting, Restoring, Restore, Pause, Resume, Scale
<1> HIDE DEF R
<1>4. R \in Nat /\ Len(Full) \in Nat
  BY <1>2
<1>5. Behind < R - 1 => Now \in Quieting(App)
  <2>1. Behind < R - 1 => Behind + 1 \in 1..(R - 1)
    BY <1>1, <1>4
  <2> QED
    BY <1>1, <1>2, <2>1
<1>6. Behind >= R => Now \in Restoring(App, began.units)
  <2>1. Behind >= R => Behind + 1 \in (R + 1)..Len(Full)
    BY <1>1, <1>4
  <2> QED
    BY <1>1, <1>2, <2>1
<1>7. Behind = R - 1 => Now = Restore(App)
  BY <1>1, <1>2, <1>4
<1> QED
  BY <1>1, <1>3, <1>4, <1>5, <1>6, <1>7 DEF R

\* The step that returns has been done.
LEMMA ReturnedIsDone ==
  ASSUME WaitInv, StepReturns
  PROVE  Done(Now)
<1>1. Asked(Now) /\ StepDone
  BY DEF WaitInv, StepReturns
<1> QED
  BY <1>1 DEF Asked, StepDone, Done

\* How a command comes to carry out a plan
LEMMA RunningOnly ==
  ASSUME [Next]_bvars
  PROVE  /\ pc' \in Ahead => \/ NextApp /\ pending # <<>> /\ plan' = Head(pending).plan
                             \/ RunStep /\ pc = "run"
                             \/ StepReturns /\ pc = "run wait"
                             \/ Outside \/ UNCHANGED bvars
         /\ pc' \in Back => \/ StepFails
                            \/ RunStep /\ pc = "revert"
                            \/ StepReturns /\ pc = "revert wait"
                            \/ Outside \/ UNCHANGED bvars
<1>1. CASE Command
  BY <1>1 DEF Command, Validate, Ahead, Back
<1>2. CASE ResolveBackupTargets \/ (\E a \in Backed : BackupReturns(a)) \/ BackupDone
           \/ ListBackups \/ UnresolvedTarget \/ NothingMore
  BY <1>2 DEF ResolveBackupTargets, BackupReturns, BackupDone, ListBackups, UnresolvedTarget,
     NothingMore, Exit, Ahead, Back
<1>3. CASE PrepareRestore \/ PrecheckFails \/ StepFails \/ AppRestored \/ AppReverted
           \/ Decline \/ Kill
  BY <1>3 DEF PrepareRestore, PrecheckFails, StepFails, AppRestored, AppReverted, Decline, Kill,
     Exit, Ahead, Back
<1>4. CASE NextApp
  BY <1>4 DEF NextApp, Exit, Ahead, Back
<1>5. CASE RunStep \/ StepReturns
  BY <1>5 DEF RunStep, StepReturns, Ahead, Back
<1> QED
  BY <1>1, <1>2, <1>3, <1>4, <1>5 DEF Next, Step

\* The steps of a plan are about applications that are scaled, or paused.
LEMMA QuietingScales ==
  ASSUME NEW a \in Backed, NEW now \in [DOMAIN Scale0 -> Nat],
         NEW x \in Quieting(a) \cup Restoring(a, now)
  PROVE  x.app \in DOMAIN Scale0 \/ x.op # "scale"
BY StepKinds

LEMMA QuietStep ==
  ASSUME ProgramInv, WaitInv, QuietInv, [Next]_bvars
  PROVE  QuietInv'
<1> SUFFICES ASSUME pc' \in Ahead PROVE QuietInv'
  BY DEF QuietInv
<1>0. JujuTypes /\ CommandTypes /\ TypeInv /\ PhaseInv
  BY DEF ProgramInv, TypeInv
<1>1. CASE NextApp /\ pending # <<>> /\ plan' = Head(pending).plan
  <2>1. pending' = pending /\ began' = began
    BY <1>1 DEF NextApp
  <2>2. App' = App /\ Full' = Full /\ plan' = Full /\ App \in Backed
    BY <1>0, <1>1, <2>1, HeadIs DEF App, Full
  <2>3. Full \in Seq(Quieting(App) \cup {Restore(App)} \cup Restoring(App, began.units))
    BY <1>0, <1>1, HeadIs
  <2>4. Behind' = 0
    BY <2>2, <2>3 DEF Behind
  <2>5. \A x \in Quieting(App) : \E i \in 1..(RestoreAt(App) - 1) : Full[i] = x
    <3> DEFINE now == began.units
    <3>1. Shape(Full, RestoreAt(App), Quieting(App), Restore(App), Restoring(App, now))
      BY <2>2, PlanShape DEF Full
    <3> QED
      BY <3>1, Zenon DEF Shape
  <2> QED
    BY <2>2, <2>4, <2>5 DEF QuietInv
<1>2. CASE RunStep /\ pc = "run"
  <2>1. plan # <<>> /\ UNCHANGED <<plan, pending, began, units>> /\ StepEffect
    BY <1>2 DEF RunStep, SameCommand
  <2>2. App' = App /\ Full' = Full /\ Behind' = Behind
    BY <2>1 DEF App, Full, Behind
  <2> SUFFICES ASSUME Behind < RestoreAt(App), NEW x \in Quieting(App), Done(x)
               PROVE  Done(x)'
    <3>1. Behind < RestoreAt(App) =>
            \A x \in Quieting(App) :
              Done(x) \/ \E i \in (Behind + 1)..(RestoreAt(App) - 1) : Full[i] = x
      BY <1>2 DEF QuietInv, Ahead
    <3> QED
      BY <2>2, <3>1 DEF QuietInv
  <2>3. App \in Backed /\ (Now \in Quieting(App) \/ Now = Restore(App))
    <3>1. /\ App \in Backed /\ RestoreAt(App) \in Nat /\ Behind \in Nat
          /\ Now = Restore(App) <=> Behind = RestoreAt(App) - 1
          /\ Behind < RestoreAt(App) - 1 => Now \in Quieting(App)
      BY <1>2, <2>1, RestoreIsThere DEF Ahead
    <3> QED
      BY <3>1
  <2>4. /\ x.op \in {"pause", "scale"}
        /\ x.app \in DOMAIN Scale0 \/ x.op # "scale"
    <3>1. began.units \in [DOMAIN Scale0 -> Nat]
      BY <1>0 DEF CommandTypes
    <3> QED
      BY <2>3, <3>1, StepKinds
  <2>5. CASE Now = Restore(App)
    <3>1. UNCHANGED <<scale, paused>>
      BY <2>1, <2>5 DEF StepEffect, Restore
    <3> QED
      BY <2>1, <3>1 DEF Done
  <2>6. CASE Now \in Quieting(App)
    <3>1. Now.op \in {"pause", "scale"}
      <4>1. began.units \in [DOMAIN Scale0 -> Nat]
        BY <1>0 DEF CommandTypes
      <4> QED
        BY <2>3, <2>6, <4>1, StepKinds
    <3>2. CASE Now.op = "pause"
      <4>1. paused' = paused \cup {Now.app} /\ scale' = scale
        BY <2>1, <3>2 DEF StepEffect
      <4> QED
        BY <2>1, <2>4, <4>1 DEF Done
    <3>3. CASE Now.op = "scale"
      <4>1. scale' = [scale EXCEPT ![Now.app] = Now.n] /\ paused' = paused
        BY <2>1, <3>3 DEF StepEffect
      <4>2. x.op = "scale" /\ x.app = Now.app => x.n = Now.n
        BY <2>3, <2>6, <3>3, QuietingAgrees
      <4> QED
        BY <1>0, <2>1, <2>4, <4>1, <4>2 DEF Done, JujuTypes
    <3> QED
      BY <3>1, <3>2, <3>3
  <2> QED
    BY <2>3, <2>5, <2>6
<1>3. CASE StepReturns /\ pc = "run wait"
  <2>1. /\ plan # <<>> /\ plan' = Tail(plan) /\ UNCHANGED <<pending, began>>
        /\ UNCHANGED <<scale, units, paused>>
    BY <1>0, <1>3 DEF StepReturns, SameCommand, PhaseInv, juju
  <2>2. App' = App /\ Full' = Full /\ Behind' = Behind + 1
    BY <1>3, <2>1, AheadStep DEF Ahead
  <2>3. Behind \in Nat /\ Now = Full[Behind + 1]
    BY <1>3, <2>1, NowIs DEF Ahead, Running
  <2>4. Done(Now)
    BY <1>3, ReturnedIsDone
  <2>5. App \in Backed /\ RestoreAt(App) \in Nat
    BY <1>3, <2>1, RestoreIsThere DEF Ahead
  <2> SUFFICES ASSUME Behind + 1 < RestoreAt(App), NEW x \in Quieting(App)
               PROVE  Done(x) \/ \E i \in (Behind + 2)..(RestoreAt(App) - 1) : Full[i] = x
    <3>1. \A x : Done(x)' <=> Done(x)
      BY <2>1 DEF Done
    <3>2. Behind + 1 + 1 = Behind + 2
      BY <2>3
    <3> QED
      BY <2>2, <3>1, <3>2 DEF QuietInv
  <2>6. Done(x) \/ \E i \in (Behind + 1)..(RestoreAt(App) - 1) : Full[i] = x
    <3> DEFINE R == RestoreAt(App)
    <3>0. R \in Nat /\ Behind \in Nat /\ Behind + 1 < R
      BY <2>3, <2>5
    <3> HIDE DEF R
    <3>1. Behind < R
      BY <3>0
    <3>2. pc \in Ahead /\ Behind < RestoreAt(App)
      BY <1>3, <3>1 DEF Ahead, R
    <3> QED
      BY <3>2, Zenon DEF QuietInv
  <2>7. ASSUME NEW i \in (Behind + 1)..(RestoreAt(App) - 1), Full[i] = x
        PROVE  Done(x) \/ \E j \in (Behind + 2)..(RestoreAt(App) - 1) : Full[j] = x
    <3>1. i = Behind + 1 \/ i \in (Behind + 2)..(RestoreAt(App) - 1)
      BY <2>3, <2>5
    <3> QED
      BY <2>3, <2>4, <2>7, <3>1
  <2> QED
    BY <2>6, <2>7
<1>4. CASE Outside \/ UNCHANGED bvars
  <2>1. UNCHANGED <<pc, plan, pending, began>>
    BY <1>4 DEF Outside, BackupEnds, UnitsFollow, RestoreEnds, bvars
  <2>2. App' = App /\ Full' = Full /\ Behind' = Behind /\ pc \in Ahead
    BY <2>1 DEF App, Full, Behind
  <2>3. \A x : x.app \in DOMAIN Scale0 \/ x.op # "scale" => (Done(x) => Done(x)')
    BY <1>0, <1>4, DoneOutside DEF bvars
  <2>4. App \in Backed /\ began.units \in [DOMAIN Scale0 -> Nat]
    BY <1>0, <2>2, HeadIs DEF PhaseInv, CommandTypes, Running, Ahead
  <2>5. \A x \in Quieting(App) : Done(x) => Done(x)'
    BY <2>3, <2>4, QuietingScales
  <2> QED
    BY <2>2, <2>5 DEF QuietInv
<1> QED
  BY <1>1, <1>2, <1>3, <1>4, RunningOnly

LEMMA DoingStep ==
  ASSUME ProgramInv, DoingInv, [Next]_bvars
  PROVE  DoingInv'
<1>0. JujuTypes /\ CommandTypes /\ TypeInv /\ PhaseInv
  BY DEF ProgramInv, TypeInv
<1>1. CASE RunStep
  <2>1. plan # <<>> /\ pc \in {"run", "revert"} /\ StepEffect
        /\ UNCHANGED <<plan, pending, began, late>>
        /\ pc' = IF pc = "run" THEN "run wait" ELSE "revert wait"
    BY <1>1 DEF RunStep, SameCommand
  <2>2. App' = App /\ Full' = Full /\ Behind' = Behind /\ Now' = Now
    BY <2>1 DEF App, Full, Behind, Now
  <2>3. \A a \in Backed : ~ (doing[a] # None /\ a \notin late)
    BY <2>1 DEF DoingInv
  <2>4. /\ App \in Backed
        /\ Now \in Quieting(App) \cup {Restore(App)} \cup Restoring(App, began.units)
        /\ pc \in Back => Now \in Restoring(App, began.units)
    BY <2>1, NowIs DEF Running
  <2>5. began.units \in [DOMAIN Scale0 -> Nat]
    BY <1>0 DEF CommandTypes
  <2>6. CASE Now.op # "restore"
    <3>1. doing' = doing
      BY <2>1, <2>4, <2>5, <2>6, StepKinds DEF StepEffect
    <3> QED
      BY <2>1, <2>3, <3>1 DEF DoingInv
  <2>7. CASE Now.op = "restore"
    <3>1. Now = Restore(App) /\ Now.app = App /\ pc = "run"
      BY <2>1, <2>4, <2>5, <2>7, StepKinds DEF Back
    <3>2. doing' = [doing EXCEPT ![App] = RestoreParams(App)]
      BY <2>1, <2>7, <3>1 DEF StepEffect
    <3>3. Behind = RestoreAt(App) - 1
      BY <2>1, <3>1, RestoreIsThere DEF Ahead
    <3>4. \A a \in Backed : a # App => doing'[a] = doing[a]
      BY <3>2
    <3> QED
      BY <2>1, <2>2, <2>3, <3>1, <3>3, <3>4 DEF DoingInv
  <2> QED
    BY <2>6, <2>7
<1>2. CASE StepReturns
  <2>1. StepDone /\ UNCHANGED <<doing, late>>
    BY <1>2 DEF StepReturns, juju
  <2>2. ASSUME NEW a \in Backed, doing[a] # None, a \notin late PROVE FALSE
    <3>1. Now = Restore(a)
      BY <2>2 DEF DoingInv
    <3>2. doing[a] = None
      BY <2>1, <3>1 DEF StepDone, Restore
    <3> QED
      BY <2>2, <3>2
  <2> QED
    BY <2>1, <2>2 DEF DoingInv
<1>3. CASE StepFails
  <2>1. /\ late' = IF Now.op = "restore" /\ doing[Now.app] # None THEN late \cup {Now.app} ELSE late
        /\ doing' = doing
    BY <1>3 DEF StepFails
  <2>2. ASSUME NEW a \in Backed, doing[a] # None, a \notin late' PROVE FALSE
    <3>1. a \notin late
      BY <2>1, <2>2
    <3>2. Now = Restore(a)
      BY <2>2, <3>1 DEF DoingInv
    <3> QED
      BY <2>1, <2>2, <3>2 DEF Restore
  <2> QED
    BY <2>1, <2>2 DEF DoingInv
<1>4. CASE Kill
  <2>1. late' = late \cup {a \in Backed : doing[a] # None} /\ doing' = doing
    BY <1>4 DEF Kill
  <2> QED
    BY <2>1 DEF DoingInv
<1>5. CASE Outside \/ UNCHANGED bvars
  <2>1. UNCHANGED <<pc, plan, pending, began>>
    BY <1>5 DEF Outside, BackupEnds, UnitsFollow, RestoreEnds, bvars
  <2>2. App' = App /\ Full' = Full /\ Behind' = Behind /\ Now' = Now
    BY <2>1 DEF App, Full, Behind, Now
  <2>3. \A a \in Backed : doing'[a] # None /\ a \notin late' => doing[a] # None /\ a \notin late
    <3>1. CASE UNCHANGED <<doing, late>>
      BY <3>1
    <3>2. CASE \E b \in Backed : RestoreEnds(b)
      BY <1>0, <3>2 DEF RestoreEnds, JujuTypes
    <3> QED
      BY <1>5, <3>1, <3>2 DEF Outside, BackupEnds, UnitsFollow, bvars
  <2> QED
    BY <2>1, <2>2, <2>3 DEF DoingInv
<1>6. CASE Command \/ (Step /\ ~RunStep /\ ~StepReturns /\ ~StepFails) \/ Decline
  <2>1. UNCHANGED <<doing, late>>
    BY <1>6 DEF Command, Validate, Step, ResolveBackupTargets, BackupReturns, BackupDone,
       ListBackups, UnresolvedTarget, NothingMore, PrepareRestore, PrecheckFails, NextApp,
       AppRestored, AppReverted, Decline, juju
  <2>2. pc # "run wait"
    <3>1. CASE Command
      BY <1>0, <3>1 DEF Command, Validate, PhaseInv
    <3>2. CASE Step /\ ~RunStep /\ ~StepReturns /\ ~StepFails
      BY <3>2 DEF Step, ResolveBackupTargets, BackupReturns, BackupDone,
         ListBackups, UnresolvedTarget, NothingMore, PrepareRestore, PrecheckFails, NextApp,
         AppRestored, AppReverted
    <3>3. CASE Decline
      BY <3>3 DEF Decline
    <3> QED
      BY <1>6, <3>1, <3>2, <3>3
  <2> QED
    BY <2>1, <2>2 DEF DoingInv
<1> QED
  BY <1>1, <1>2, <1>3, <1>4, <1>5, <1>6 DEF Next

LEMMA QuietIInit == Init => QuietIInv
BY ProgramInit DEF Init, QuietIInv, WaitInv, QuietInv, DoingInv, Ahead, None

LEMMA QuietIStep == QuietIInv /\ [Next]_bvars => QuietIInv'
BY ProgramStep, WaitStep, QuietStep, DoingStep DEF QuietIInv

\* The application whose charm restores it for the command is quiet.
LEMMA QuietWhileRestored ==
  ASSUME QuietIInv
  PROVE  \A m \in MySQLs : doing[m] # None /\ m \notin late => Quiesced(m)
<1> SUFFICES ASSUME NEW m \in MySQLs, doing[m] # None, m \notin late PROVE Quiesced(m)
  OBVIOUS
<1>1. m \in Backed
  BY DEF Backed
<1>2. pc = "run wait" /\ App = m /\ Behind = RestoreAt(m) - 1
  BY <1>1 DEF QuietIInv, DoingInv
<1>3. plan # <<>>
  BY <1>2 DEF QuietIInv, ProgramInv, PhaseInv
<1>4. RestoreAt(m) \in Nat /\ pc \in Ahead
  BY <1>2, <1>3, RestoreIsThere DEF QuietIInv, Ahead
<1>4a. Behind < RestoreAt(m) /\ \A i \in (Behind + 1)..(RestoreAt(m) - 1) : FALSE
  <2> DEFINE R == RestoreAt(m)
  <2>1. R \in Nat /\ Behind = R - 1
    BY <1>2, <1>4
  <2> HIDE DEF R
  <2>2. Behind < R /\ \A i \in (Behind + 1)..(R - 1) : FALSE
    BY <2>1
  <2> QED
    BY <2>2 DEF R
<1>5. \A x \in Quieting(m) :
        Done(x) \/ \E i \in (Behind + 1)..(RestoreAt(m) - 1) : Full[i] = x
  BY <1>2, <1>4, <1>4a, Zenon DEF QuietIInv, QuietInv
<1>7. \A x \in Quieting(m) : Done(x)
  BY <1>4a, <1>5
<1>8. \A b \in ApiApps(m) : b \in paused
  <2>1. \A b \in ApiApps(m) : Pause(b) \in Quieting(m)
    BY DEF Quieting
  <2> QED
    BY <1>7, <2>1, DoneIs
<1>9. \A r \in RouterApps(m) : units[r] = 0
  <2>1. \A r \in RouterApps(m) : Scale(r, 0) \in Quieting(m)
    BY DEF Quieting
  <2> QED
    BY <1>7, <2>1, DoneIs
<1>10. units[m] = 1
  <2>1. Scale(m, 1) \in Quieting(m)
    BY DEF Quieting
  <2> QED
    BY <1>7, <2>1, DoneIs
<1> QED
  BY <1>8, <1>9, <1>10 DEF Quiesced

\* What Juju, the charms and the command keep always has its types, and the plans that
\* wait are the ones built from the units found (RestoreStep.run).
THEOREM TypeCorrect == Spec => []TypeInv
<1>1. QuietIInv => TypeInv
  BY DEF QuietIInv, ProgramInv
<1> QED
  BY <1>1, QuietIInit, QuietIStep, PTL DEF Spec

\* The data of a MySQL cluster is replaced only while its API applications are
\* paused, its routers are gone and one unit is left, unless by a restore
\* action the command gave up on (build_restore_plan, _ScaleAppStep).
THEOREM ReplacedWhileQuiet == Spec => RestoredWhileQuiet
<1>1. QuietIInv =>
        [\A m \in MySQLs : doing[m] # None /\ doing'[m] = None /\ m \notin late => Quiesced(m)]_bvars
  BY QuietWhileRestored
<1> QED
  BY <1>1, QuietIInit, QuietIStep, PTL DEF Spec, RestoredWhileQuiet

----------------------------------------------------------------------------
(* Results                                                                 *)

LEMMA OutcomeStep ==
  ASSUME ProgramInv, OutcomeInv, [Next]_bvars
  PROVE  OutcomeInv'
<1> DEFINE Before == {"resolve", "inventory", "listed", "confirm"}
<1>1. CASE Command
  <2>1. outcome' = [a \in Backed |-> "none"]
    BY <1>1 DEF Command, Validate
  <2> QED
    BY <2>1 DEF OutcomeInv
<1>2. CASE ListBackups
  BY <1>2 DEF ListBackups, OutcomeInv
<1>3. CASE Outside \/ UNCHANGED bvars
  <2>1. UNCHANGED <<pc, outcome>>
    BY <1>3 DEF Outside, BackupEnds, UnitsFollow, RestoreEnds, bvars
  <2> QED
    BY <2>1 DEF OutcomeInv
<1>4. CASE (Step /\ ~ListBackups) \/ Decline \/ Kill
  <2>1. CASE ResolveBackupTargets \/ BackupDone \/ UnresolvedTarget \/ NothingMore
    BY <2>1 DEF ResolveBackupTargets, BackupDone, UnresolvedTarget, NothingMore, Exit, OutcomeInv
  <2>2. CASE \E a \in Backed : BackupReturns(a)
    BY <2>2 DEF BackupReturns, OutcomeInv
  <2>3. CASE PrepareRestore \/ PrecheckFails \/ NextApp \/ RunStep \/ StepReturns \/ StepFails
             \/ AppRestored \/ AppReverted
    BY <2>3 DEF PrepareRestore, PrecheckFails, NextApp, RunStep, StepReturns, StepFails,
       AppRestored, AppReverted, Exit, OutcomeInv
  <2>4. CASE Decline \/ Kill
    BY <2>4 DEF Decline, Kill, Exit, OutcomeInv
  <2> QED
    BY <1>4, <2>1, <2>2, <2>3, <2>4 DEF Step
<1> QED
  BY <1>1, <1>2, <1>3, <1>4 DEF Next

LEMMA NonePending == ASSUME pending = <<>> PROVE PendingInv
<1>1. 1..Len(pending) = {}
  OBVIOUS
<1> QED
  BY <1>1 DEF PendingInv

\* The applications that wait are different, and have no result.
LEMMA PendingStep ==
  ASSUME ProgramInv, PendingInv, OutcomeInv, [Next]_bvars
  PROVE  PendingInv'
<1>0. /\ pending \in Seq(PreparedWith(began.units)) /\ PhaseInv /\ TypeInv
      /\ targets \subseteq Backed /\ DOMAIN outcome = Backed
  BY DEF ProgramInv, TypeInv, CommandTypes
<1>a. ASSUME pending' = <<>> PROVE PendingInv'
  <2>1. \A i \in 1..Len(pending') : FALSE
    BY <1>a
  <2> QED
    BY <2>1 DEF PendingInv
<1>b. ASSUME UNCHANGED <<pending, outcome>>, pc \in Back => pc' \in Back PROVE PendingInv'
  BY <1>b DEF PendingInv, App
<1>1. CASE Command \/ ResolveBackupTargets \/ (\E a \in Backed : BackupReturns(a)) \/ ListBackups
  <2>1. pending' = pending
    BY <1>1 DEF Command, Validate, ResolveBackupTargets, BackupReturns, ListBackups
  <2>2. pending = <<>>
    BY <1>0, <1>1 DEF Command, Validate, ResolveBackupTargets, BackupReturns, ListBackups, PhaseInv,
       Running
  <2> QED
    BY <1>a, <2>1, <2>2
<1>2. CASE BackupDone \/ UnresolvedTarget \/ NothingMore \/ PrecheckFails \/ AppReverted \/ Decline \/ Kill
  <2>1. pending' = <<>>
    BY <1>2 DEF BackupDone, UnresolvedTarget, NothingMore, PrecheckFails, AppReverted, Decline,
       Kill, Exit
  <2> QED
    BY <1>a, <2>1
<1>3. CASE NextApp
  <2>1. pending' = <<>> \/ (UNCHANGED <<pending, outcome>> /\ pc \notin Back)
    BY <1>3 DEF NextApp, Exit, Back
  <2> QED
    BY <1>a, <1>b, <2>1
<1>4. CASE RunStep \/ StepReturns
  <2>1. UNCHANGED <<pending, outcome>> /\ (pc \in Back => pc' \in Back)
    BY <1>4 DEF RunStep, StepReturns, SameCommand, Back
  <2> QED
    BY <1>b, <2>1
<1>5. CASE Outside \/ UNCHANGED bvars
  <2>1. UNCHANGED <<pending, outcome, pc>>
    BY <1>5 DEF Outside, BackupEnds, UnitsFollow, RestoreEnds, bvars
  <2> QED
    BY <1>b, <2>1
<1>6. CASE PrepareRestore
  <2> DEFINE P == {Prepared(a) : a \in targets}
             f == [a \in targets |-> Prepared(a)]
  <2>1. pending' = SetToSeq(P) /\ outcome' = outcome /\ pc = "confirm"
    BY <1>6 DEF PrepareRestore
  <2>2. IsFiniteSet(targets)
    BY <1>0, BackedAssumption, FS_Subset
  <2>3. f \in Surjection(targets, P)
    BY DEF Surjection
  <2>4. IsFiniteSet(P)
    BY <2>2, <2>3, FS_Surjection
  <2>5. \A x \in P : x.app \in Backed /\ x = Prepared(x.app)
    BY <1>0 DEF Prepared
  <2> HIDE DEF P
  <2>6. pending' \in Seq(P) /\ \A i, j \in 1..Len(pending') : pending'[i] = pending'[j] => i = j
    BY <2>1, <2>4, ListsOfSet DEF Lists
  <2>7. \A i \in 1..Len(pending') : pending'[i] \in P
    BY <2>6
  <2>8. \A i, j \in 1..Len(pending') : pending'[i].app = pending'[j].app => i = j
    BY <2>5, <2>6, <2>7
  <2>9. \A i \in 1..Len(pending') : outcome'[pending'[i].app] = "none"
    BY <2>1, <2>5, <2>7 DEF OutcomeInv
  <2> QED
    BY <2>8, <2>9 DEF PendingInv
<1>7. CASE StepFails
  <2>1. pending' = pending /\ pc \in Running /\ pc' = "revert"
    BY <1>7 DEF StepFails, Running
  <2>2. pending # <<>> /\ App' = App
    BY <1>0, <2>1 DEF PhaseInv, App
  <2>3. App \in Backed /\ App = pending[1].app
    BY <1>0, <2>2, HeadIs DEF App
  <2>4. outcome' = outcome \/ outcome' = [outcome EXCEPT ![App] = "rollback failed"]
    BY <1>7 DEF StepFails
  <2>5. ASSUME NEW i \in 1..Len(pending')
        PROVE  outcome'[pending'[i].app] = "none"
               \/ (i = 1 /\ outcome'[App'] = "rollback failed")
    <3>1. i \in 1..Len(pending) /\ pending'[i] = pending[i]
      BY <2>1
    <3>2. outcome[pending[i].app] = "none" \/ (i = 1 /\ outcome[App] = "rollback failed")
      BY <3>1 DEF PendingInv
    <3>3. pending[i].app = App => i = 1
      <4>1. 1 \in 1..Len(pending)
        BY <3>1
      <4> QED
        BY <2>3, <3>1, <4>1 DEF PendingInv
    <3>4. CASE outcome' = outcome
      BY <2>2, <3>1, <3>2, <3>4
    <3>5. CASE outcome' = [outcome EXCEPT ![App] = "rollback failed"]
      <4>1. CASE pending[i].app = App
        BY <1>0, <2>2, <2>3, <3>3, <3>5, <4>1
      <4>2. CASE pending[i].app # App
        <5>1. outcome'[pending[i].app] = outcome[pending[i].app]
          <6>1. pending[i].app \in Backed
            <7>1. pending[i] \in PreparedWith(began.units)
              BY <1>0, <3>1
            <7> QED
              BY <7>1 DEF PreparedWith
          <6> QED
            BY <1>0, <3>5, <4>2, <6>1
        <5>2. i # 1
          BY <2>3, <4>2
        <5> QED
          BY <3>1, <3>2, <5>1, <5>2
      <4> QED
        BY <4>1, <4>2
    <3> QED
      BY <2>4, <3>4, <3>5
  <2>6. \A i, j \in 1..Len(pending') : pending'[i].app = pending'[j].app => i = j
    BY <2>1 DEF PendingInv
  <2>7. pc' \in Back
    BY <2>1 DEF Back
  <2> QED
    BY <2>5, <2>6, <2>7 DEF PendingInv
<1>8. CASE AppRestored
  <2>1. /\ pc = "run" /\ pending' = Tail(pending)
        /\ outcome' = [outcome EXCEPT ![App] = "success"]
    BY <1>8 DEF AppRestored
  <2>2. pending # <<>>
    BY <1>0, <2>1 DEF PhaseInv, Running
  <2>3. App \in Backed /\ App = pending[1].app
    BY <1>0, <2>2, HeadIs DEF App
  <2>4. /\ Len(pending) \in Nat /\ Len(pending) >= 1 /\ Len(pending') = Len(pending) - 1
        /\ \A i \in 1..Len(pending') : pending'[i] = pending[i + 1]
    BY <1>0, <2>1, <2>2, TailOf
  <2>5. \A i \in 1..Len(pending') : i + 1 \in 1..Len(pending) /\ i + 1 # 1
    BY <2>4
  <2>6. ASSUME NEW i \in 1..Len(pending') PROVE outcome'[pending'[i].app] = "none"
    <3>1. pending'[i] = pending[i + 1] /\ i + 1 \in 1..Len(pending) /\ i + 1 # 1 /\ 1 \in 1..Len(pending)
      BY <2>4, <2>5
    <3>2. outcome[pending[i + 1].app] = "none"
      BY <3>1 DEF PendingInv
    <3>3. pending[i + 1].app # App
      BY <2>3, <3>1 DEF PendingInv
    <3> QED
      BY <2>1, <3>1, <3>2, <3>3
  <2>7. ASSUME NEW i \in 1..Len(pending'), NEW j \in 1..Len(pending'), pending'[i].app = pending'[j].app
        PROVE  i = j
    <3>1. /\ i + 1 \in 1..Len(pending) /\ j + 1 \in 1..Len(pending)
          /\ pending[i + 1].app = pending[j + 1].app
      BY <2>4, <2>5, <2>7
    <3>2. i + 1 = j + 1
      BY <3>1 DEF PendingInv
    <3> QED
      BY <3>2
  <2> QED
    BY <2>6, <2>7 DEF PendingInv
<1> QED
  BY <1>1, <1>2, <1>3, <1>4, <1>5, <1>6, <1>7, <1>8 DEF Next, Step

LEMMA ResultIInit == Init => ResultIInv
<1> SUFFICES ASSUME Init PROVE ResultIInv
  OBVIOUS
<1>1. QuietIInv
  BY QuietIInit
<1>2. PendingInv
  BY NonePending DEF Init
<1>3. OutcomeInv
  BY DEF Init, OutcomeInv
<1> QED
  BY <1>1, <1>2, <1>3 DEF ResultIInv

LEMMA ResultIStep == ResultIInv /\ [Next]_bvars => ResultIInv'
BY QuietIStep, PendingStep, OutcomeStep DEF ResultIInv, QuietIInv

----------------------------------------------------------------------------
(* What is said of backups                                                 *)

\* A finished backup stays one; only a backup command adds any.
LEMMA RepoGrows ==
  ASSUME JujuTypes, [Next]_bvars, NEW a \in Backed
  PROVE  /\ \A i \in DOMAIN repo[a] :
              i \in DOMAIN repo'[a] /\ (repo[a][i] = "finished" => repo'[a][i] = "finished")
         /\ ~ResolveBackupTargets => Len(repo'[a]) = Len(repo[a])
<1>0. repo[a] \in Seq(Statuses) /\ DOMAIN repo[a] = 1..Len(repo[a]) /\ Len(repo[a]) \in Nat
  BY DEF JujuTypes
<1>1. CASE ResolveBackupTargets
  <2>1. repo'[a] = repo[a] \/ repo'[a] = Append(repo[a], "running")
    BY <1>1 DEF ResolveBackupTargets
  <2>2. CASE repo'[a] = Append(repo[a], "running")
    <3> DEFINE q == repo[a]
    <3>1. q \in Seq(Statuses) /\ "running" \in Statuses
      BY <1>0 DEF Statuses
    <3> HIDE DEF q
    <3>2. \A i \in DOMAIN q : i \in DOMAIN Append(q, "running") /\ Append(q, "running")[i] = q[i]
      BY <3>1
    <3> QED
      BY <1>1, <2>2, <3>2 DEF q
  <2> QED
    BY <1>1, <2>1, <2>2
<1>2. CASE \E b \in Backed, id \in 1..(PointInTime - 1) : BackupEnds(b, id)
  <2>1. PICK b \in Backed, id \in 1..(PointInTime - 1), s \in Statuses :
          /\ id \in DOMAIN repo[b] /\ repo[b][id] = "running"
          /\ repo' = [repo EXCEPT ![b][id] = s]
    BY <1>2 DEF BackupEnds, Statuses
  <2>2. CASE a = b
    <3>1. repo'[a] = [repo[a] EXCEPT ![id] = s]
      BY <2>1, <2>2 DEF JujuTypes
    <3> DEFINE q == repo[a]
               r == repo'[a]
    <3>q. q \in Seq(Statuses) /\ id \in DOMAIN q /\ r = [q EXCEPT ![id] = s]
      BY <1>0, <2>1, <2>2, <3>1
    <3> HIDE DEF q, r
    <3>r. /\ DOMAIN r = DOMAIN q /\ r \in Seq(Statuses)
          /\ \A i \in DOMAIN q : i # id => r[i] = q[i]
      BY <3>q
    <3>l. Len(r) = Len(q)
      BY <3>q, <3>r
    <3>2. /\ DOMAIN repo'[a] = DOMAIN repo[a] /\ repo'[a] \in Seq(Statuses)
          /\ \A i \in DOMAIN repo[a] : i # id => repo'[a][i] = repo[a][i]
      BY <3>r DEF q, r
    <3>3. Len(repo'[a]) = Len(repo[a])
      BY <3>l DEF q, r
    <3>4. repo[a][id] # "finished"
      BY <2>1, <2>2
    <3> QED
      BY <3>2, <3>3, <3>4
  <2>3. CASE a # b
    BY <2>1, <2>3 DEF JujuTypes
  <2> QED
    BY <2>2, <2>3
<1>3. CASE ~ResolveBackupTargets /\ ~(\E b \in Backed, id \in 1..(PointInTime - 1) : BackupEnds(b, id))
  <2>1. CASE Command \/ Decline \/ Kill \/ UNCHANGED bvars
    BY <2>1 DEF Command, Validate, Decline, Kill, juju, bvars
  <2>2. CASE Step
    BY <1>3, <2>2 DEF Step, BackupReturns, BackupDone,
         ListBackups, UnresolvedTarget, NothingMore, PrepareRestore, PrecheckFails, NextApp,
         AppRestored, AppReverted, RunStep, StepReturns, StepFails, juju
  <2>3. CASE Outside
    BY <1>3, <2>3 DEF Outside, UnitsFollow, RestoreEnds
  <2>4. repo' = repo
    BY <1>3, <2>1, <2>2, <2>3 DEF Next, Command, Validate, Decline, Kill, juju, bvars, Step, BackupReturns, BackupDone,
         ListBackups, UnresolvedTarget, NothingMore, PrepareRestore, PrecheckFails, NextApp,
         AppRestored, AppReverted, RunStep, StepReturns, StepFails, Outside, UnitsFollow, RestoreEnds
  <2> QED
    BY <2>4
<1> QED
  BY <1>1, <1>2, <1>3

LEMMA NewestKept ==
  ASSUME NEW v, NEW q, NEW r, NEW s, NewestOf(v, q, s),
         \A i \in DOMAIN q : i \in DOMAIN r /\ (q[i] = "finished" => r[i] = "finished")
  PROVE  NewestOf(v, r, s)
BY DEF NewestOf

\* What the inventory calls finished is finished in the repository.
LEMMA ShownStep ==
  ASSUME ProgramInv, ShownInv, [Next]_bvars
  PROVE  ShownInv'
<1> SUFFICES ASSUME NEW a \in Backed, NEW i \in DOMAIN shown'[a], shown'[a][i] = "finished"
             PROVE  i \in DOMAIN repo'[a] /\ repo'[a][i] = "finished"
  BY DEF ShownInv
<1>0. JujuTypes
  BY DEF ProgramInv, TypeInv
<1>1. \A j \in DOMAIN repo[a] :
        j \in DOMAIN repo'[a] /\ (repo[a][j] = "finished" => repo'[a][j] = "finished")
  BY <1>0, RepoGrows
<1>2. CASE Command
  <2>1. shown' = [b \in Backed |-> <<>>]
    BY <1>2 DEF Command, Validate
  <2>2. DOMAIN shown'[a] = {}
    BY <2>1
  <2> QED
    BY <2>2
<1>3. CASE ListBackups
  <2>1. PICK listed \in SUBSET targets :
          shown' = [b \in Backed |-> IF cmd = "restore" /\ b \in listed THEN repo[b] ELSE <<>>]
    BY <1>3 DEF ListBackups
  <2>2. shown'[a] = repo[a] \/ shown'[a] = <<>>
    BY <2>1
  <2>3. CASE shown'[a] = <<>>
    <3>1. DOMAIN shown'[a] = {}
      BY <2>3
    <3> QED
      BY <3>1
  <2>4. CASE shown'[a] = repo[a]
    BY <1>1, <2>4
  <2> QED
    BY <2>2, <2>3, <2>4
<1>4. CASE shown' = shown
  <2>1. i \in DOMAIN repo[a] /\ repo[a][i] = "finished"
    BY <1>4 DEF ShownInv
  <2> QED
    BY <1>1, <2>1
<1>5. Command \/ ListBackups \/ shown' = shown
  BY DEF Next, Step, Outside, BackupEnds, UnitsFollow, RestoreEnds, bvars, Decline, Kill,
     ResolveBackupTargets, BackupReturns, BackupDone, UnresolvedTarget, NothingMore, PrepareRestore,
     PrecheckFails, NextApp, RunStep, SameCommand, StepReturns, StepFails, AppRestored, AppReverted
<1> QED
  BY <1>2, <1>3, <1>4, <1>5

\* A backup that is counted was made by the command.
LEMMA BackupStep ==
  ASSUME ProgramInv, OutcomeInv, BackupInv, [Next]_bvars
  PROVE  BackupInv'
<1>0. JujuTypes /\ CommandTypes /\ PhaseInv
  BY DEF ProgramInv, TypeInv
<1>1. CASE Command
  <2>1. PICK k \in {"backup", "list", "restore"}, pit \in BOOLEAN : Validate(k, pit)
    BY <1>1 DEF Command
  <2>2. /\ pc' # "backups" /\ outcome' = [a \in Backed |-> "none"]
        /\ began' = Found(k) /\ UNCHANGED juju
    BY <2>1 DEF Validate
  <2>3. repo' = repo /\ \A a \in Backed : began'.ids[a] = Len(repo[a])
    BY <2>2 DEF Found, juju
  <2> QED
    BY <2>2, <2>3 DEF BackupInv
<1>2. CASE ResolveBackupTargets
  <2>1. PICK unresolved \in SUBSET targets :
          /\ repo' = [a \in Backed |->
                        IF a \in targets \ unresolved THEN Append(repo[a], "running") ELSE repo[a]]
          /\ waiting' = targets \ unresolved
          /\ outcome' = [a \in Backed |-> IF a \in unresolved THEN "unresolved" ELSE "none"]
    BY <1>2 DEF ResolveBackupTargets
  <2>2. pc = "resolve" /\ pc' = "backups" /\ began' = began
    BY <1>2 DEF ResolveBackupTargets
  <2>3. \A a \in Backed : outcome'[a] # "success"
    BY <2>1
  <2>4. ASSUME NEW a \in waiting' PROVE Len(repo'[a]) = began.ids[a] + 1
    <3>1. a \in Backed /\ repo'[a] = Append(repo[a], "running")
      BY <1>0, <2>1 DEF CommandTypes
    <3>2. repo[a] \in Seq(Statuses)
      BY <1>0, <3>1 DEF JujuTypes
    <3>3. Len(Append(repo[a], "running")) = Len(repo[a]) + 1
      BY <3>2
    <3>4. Len(repo[a]) = began.ids[a]
      BY <2>2, <3>1 DEF BackupInv
    <3> QED
      BY <3>1, <3>3, <3>4
  <2> QED
    BY <2>2, <2>3, <2>4 DEF BackupInv
<1>3. CASE \E a \in Backed : BackupReturns(a)
  <2>1. PICK a \in Backed : BackupReturns(a)
    BY <1>3
  <2>2. /\ pc = "backups" /\ a \in waiting /\ pc' = pc /\ began' = began /\ repo' = repo
        /\ outcome' = [outcome EXCEPT ![a] = BackupAppResult(Last(repo[a]))]
        /\ waiting' = waiting \ {a}
    BY <2>1 DEF BackupReturns, juju
  <2>3. Len(repo[a]) = began.ids[a] + 1
    BY <2>2 DEF BackupInv
  <2>4. ASSUME BackupAppResult(Last(repo[a])) = "success"
        PROVE  \E i \in DOMAIN repo[a] : i > began.ids[a] /\ repo[a][i] = "finished"
    <3>1. Last(repo[a]) = "finished"
      BY <2>4 DEF BackupAppResult
    <3>2. repo[a][Len(repo[a])] = "finished"
      BY <3>1 DEF Last
    <3>3. repo[a] \in Seq(Statuses)
      BY <1>0 DEF JujuTypes
    <3>4. began.ids[a] \in Nat
      BY <1>0 DEF CommandTypes
    <3>5. Len(repo[a]) \in DOMAIN repo[a] /\ Len(repo[a]) > began.ids[a]
      BY <2>3, <3>3, <3>4
    <3> QED
      BY <3>2, <3>5
  <2>5. ASSUME NEW b \in Backed, began.kind = "backup", outcome'[b] = "success"
        PROVE  \E i \in DOMAIN repo[b] : i > began.ids[b] /\ repo[b][i] = "finished"
    <3>1. CASE b = a
      BY <1>0, <2>2, <2>4, <2>5, <3>1 DEF CommandTypes
    <3>2. CASE b # a
      <4>1. outcome[b] = "success"
        BY <1>0, <2>2, <2>5, <3>2 DEF CommandTypes
      <4> QED
        BY <2>5, <4>1 DEF BackupInv
    <3> QED
      BY <3>1, <3>2
  <2> QED
    BY <2>2, <2>5 DEF BackupInv
<1>4. ASSUME pc' \notin {"resolve", "backups"} \/ (pc' = pc /\ waiting' = waiting), began' = began,
             ~ResolveBackupTargets,
             began.kind = "backup" =>
               \A a \in Backed : outcome'[a] = "success" => outcome[a] = "success"
      PROVE  BackupInv'
  <2>1. \A a \in Backed : Len(repo'[a]) = Len(repo[a])
    BY <1>0, <1>4, RepoGrows
  <2>2. ASSUME NEW a \in Backed, NEW i \in DOMAIN repo[a], repo[a][i] = "finished"
        PROVE  i \in DOMAIN repo'[a] /\ repo'[a][i] = "finished"
    BY <1>0, <2>2, RepoGrows
  <2>3. ASSUME NEW a \in Backed, began.kind = "backup", outcome'[a] = "success"
        PROVE  \E i \in DOMAIN repo'[a] : i > began.ids[a] /\ repo'[a][i] = "finished"
    <3>1. PICK i \in DOMAIN repo[a] : i > began.ids[a] /\ repo[a][i] = "finished"
      BY <1>4, <2>3 DEF BackupInv
    <3> QED
      BY <2>2, <3>1
  <2>4. \A a \in waiting : a \in Backed
    BY <1>0 DEF CommandTypes
  <2> QED
    BY <1>4, <2>1, <2>3, <2>4 DEF BackupInv
<1>5. CASE PrepareRestore
  <2>1. pc' = "next" /\ began'.kind = "restore"
    BY <1>5 DEF PrepareRestore, Found
  <2> QED
    BY <2>1 DEF BackupInv
<1>6. CASE Outside \/ UNCHANGED bvars
  <2>1. UNCHANGED <<pc, waiting, outcome, began>> /\ ~ResolveBackupTargets
    BY <1>6 DEF Outside, BackupEnds, UnitsFollow, RestoreEnds, bvars, ResolveBackupTargets
  <2> QED
    BY <1>4, <2>1
<1>7. CASE Step /\ ~ResolveBackupTargets /\ ~(\E a \in Backed : BackupReturns(a)) /\ ~PrepareRestore
  <2>1. began' = began /\ pc' \notin {"resolve", "backups"}
    BY <1>7 DEF Step, BackupDone, ListBackups, UnresolvedTarget, NothingMore, PrecheckFails, NextApp,
       RunStep, SameCommand, StepReturns, StepFails, AppRestored, AppReverted, Exit
  <2>2. outcome' = outcome \/ began.kind = "restore"
    BY <1>0, <1>7 DEF Step, BackupDone, ListBackups, UnresolvedTarget, NothingMore, PrecheckFails, NextApp,
       RunStep, SameCommand, StepReturns, StepFails, AppRestored, AppReverted, PhaseInv, Running
  <2> QED
    BY <1>4, <1>7, <2>1, <2>2
<1>8. CASE Decline \/ Kill
  <2>1. began' = began /\ pc' = "none" /\ outcome' = outcome /\ ~ResolveBackupTargets
    BY <1>8 DEF Decline, Kill, Exit, ResolveBackupTargets
  <2> QED
    BY <1>4, <2>1
<1> QED
  BY <1>1, <1>2, <1>3, <1>5, <1>6, <1>7, <1>8 DEF Next

\* The data of an application stays what it is, but for a restore.
LEMMA RestoredStays ==
  ASSUME ProgramInv, [Next]_bvars, NEW a \in Backed, RestoredNewest(a),
         ~Command, ~ListBackups, ~(RunStep /\ Now = Restore(a))
  PROVE  RestoredNewest(a)'
<1>0. JujuTypes /\ CommandTypes /\ doing[a] = None
  BY DEF ProgramInv, TypeInv, RestoredNewest
<1>1. UNCHANGED <<shown, toTime>>
  BY DEF Next, Step, Outside, BackupEnds, UnitsFollow, RestoreEnds, bvars, Decline, Kill,
     ResolveBackupTargets, BackupReturns, BackupDone, UnresolvedTarget, NothingMore, PrepareRestore,
     PrecheckFails, NextApp, RunStep, SameCommand, StepReturns, StepFails, AppRestored, AppReverted
<1>2. doing'[a] = None /\ data'[a] = data[a]
  <2>1. CASE RunStep
    <3>1. plan # <<>> /\ pc \in Running /\ StepEffect /\ data' = data
      BY <2>1 DEF RunStep, Running
    <3>2. App \in Backed /\ Now \in Quieting(App) \cup {Restore(App)} \cup Restoring(App, began.units)
      BY <3>1, NowIs
    <3>3. began.units \in [DOMAIN Scale0 -> Nat]
      BY <1>0 DEF CommandTypes
    <3>4. \/ Now.op \in {"pause", "resume", "scale"}
          \/ Now = Restore(App) /\ Now.op = "restore" /\ Now.app = App
      BY <3>2, <3>3, StepKinds
    <3>5. Now = Restore(App) => App # a
      BY <2>1
    <3> QED
      BY <1>0, <3>1, <3>4, <3>5 DEF StepEffect, JujuTypes
  <2>2. CASE \E b \in Backed : RestoreEnds(b)
    <3>1. PICK b \in Backed : RestoreEnds(b)
      BY <2>2
    <3>2. b # a
      BY <1>0, <3>1 DEF RestoreEnds
    <3> QED
      BY <1>0, <3>1, <3>2 DEF RestoreEnds, JujuTypes
  <2>3. CASE ~RunStep /\ ~(\E b \in Backed : RestoreEnds(b))
    <3>1. UNCHANGED <<doing, data>>
      BY <2>3 DEF Next, Step, Outside, BackupEnds, UnitsFollow, bvars, Decline, Kill,
         ResolveBackupTargets, BackupReturns, BackupDone, UnresolvedTarget, NothingMore,
         PrepareRestore, PrecheckFails, NextApp, StepReturns, StepFails, AppRestored, AppReverted, juju
    <3> QED
      BY <1>0, <3>1
  <2> QED
    BY <2>1, <2>2, <2>3
<1>3. \A i \in DOMAIN repo[a] :
        i \in DOMAIN repo'[a] /\ (repo[a][i] = "finished" => repo'[a][i] = "finished")
  BY <1>0, RepoGrows
<1>4. Exact(a)' <=> Exact(a)
  BY <1>1 DEF Exact
<1>5. Exact(a) => NewestOf(data[a], repo[a], shown[a])
  BY DEF RestoredNewest
<1>6. Exact(a) => NewestOf(data[a], repo'[a], shown[a])
  BY <1>3, <1>5, NewestKept
<1> QED
  BY <1>1, <1>2, <1>4, <1>6 DEF RestoredNewest

\* The command has not restored the application it is about to restore.
LEMMA HeadUnreported ==
  ASSUME ProgramInv, PendingInv, pc \in Running
  PROVE  outcome[App] \in {"none", "rollback failed"}
<1>1. pending # <<>> /\ pending \in Seq(PreparedWith(began.units))
  BY DEF ProgramInv, PhaseInv, TypeInv, CommandTypes
<1>2. 1 \in 1..Len(pending) /\ App = pending[1].app
  BY <1>1 DEF App
<1> QED
  BY <1>2 DEF PendingInv

\* When no step is left the restore is behind.
LEMMA RestoredBehind ==
  ASSUME ProgramInv, pc \in Ahead, plan = <<>>
  PROVE  Behind >= RestoreAt(App)
<1>1. App \in Backed /\ Full \in Seq(Quieting(App) \cup {Restore(App)} \cup Restoring(App, began.units))
  BY HeadIs DEF ProgramInv, PhaseInv, Running, Ahead
<1>2. RestoreAt(App) \in 1..Len(Full)
  BY <1>1, PlanShape DEF Full, Shape
<1> DEFINE R == RestoreAt(App)
<1>3. R \in 1..Len(Full) /\ Len(Full) \in Nat /\ Behind = Len(Full) - 0
  BY <1>1, <1>2 DEF Behind
<1> HIDE DEF R
<1>4. Behind >= R
  BY <1>3
<1> QED
  BY <1>4 DEF R

LEMMA DoingNewestStep ==
  ASSUME ProgramInv, DoingInv, DoingInv', ShownInv, DoingNewest, [Next]_bvars
  PROVE  DoingNewest'
<1> SUFFICES ASSUME NEW a \in Backed, doing'[a] # None, a \notin late', Exact(a)'
             PROVE  NewestOf(doing'[a], repo'[a], shown'[a])
  BY DEF DoingNewest
<1>0. JujuTypes /\ CommandTypes /\ PhaseInv
  BY DEF ProgramInv, TypeInv
<1>1. pc' = "run wait"
  BY DEF DoingInv
<1>2. \/ RunStep /\ pc = "run"
      \/ Outside \/ UNCHANGED bvars
  <2>1. ~NextApp /\ ~StepReturns
    BY <1>1 DEF NextApp, StepReturns, Exit
  <2> QED
    BY <1>1, <2>1, RunningOnly DEF Ahead
<1>3. \A i \in DOMAIN repo[a] :
        i \in DOMAIN repo'[a] /\ (repo[a][i] = "finished" => repo'[a][i] = "finished")
  BY <1>0, RepoGrows
<1>4. UNCHANGED <<shown, toTime>>
  BY <1>2 DEF RunStep, SameCommand, Outside, BackupEnds, UnitsFollow, RestoreEnds, bvars
<1>5. Exact(a)
  BY <1>4 DEF Exact
<1>6. CASE RunStep /\ pc = "run"
  <2>1. plan # <<>> /\ StepEffect /\ late' = late /\ repo' = repo
    BY <1>6 DEF RunStep
  <2>2. doing[a] = None
    BY <1>6, <2>1 DEF DoingInv
  <2>3. App \in Backed /\ Now \in Quieting(App) \cup {Restore(App)} \cup Restoring(App, began.units)
    BY <1>6, <2>1, NowIs DEF Running
  <2>4. began.units \in [DOMAIN Scale0 -> Nat]
    BY <1>0 DEF CommandTypes
  <2>5. \/ Now.op \in {"pause", "resume", "scale"}
        \/ Now = Restore(App) /\ Now.op = "restore" /\ Now.app = App
    BY <2>3, <2>4, StepKinds
  <2>6. /\ Now.op = "restore" /\ Now.app = App
        /\ doing' = [doing EXCEPT ![App] = RestoreParams(App)]
    BY <2>1, <2>2, <2>5 DEF StepEffect
  <2>7. a = App /\ doing'[a] = RestoreParams(a) /\ RestoreParams(a) # None
    BY <1>0, <2>2, <2>3, <2>6 DEF JujuTypes
  <2>8. RestoreParams(a) = LatestBackup(a)
    BY <1>5 DEF RestoreParams, Exact
  <2>9. /\ LatestBackup(a) \in DOMAIN repo[a] /\ repo[a][LatestBackup(a)] = "finished"
        /\ \A i \in DOMAIN repo[a] : repo[a][i] = "finished" => i <= LatestBackup(a)
    BY <1>0, <2>7, <2>8, LatestIsNewest DEF JujuTypes, None
  <2>10. \A i \in DOMAIN shown[a] : shown[a][i] = "finished" => i <= LatestBackup(a)
    BY <2>9 DEF ShownInv
  <2>11. NewestOf(LatestBackup(a), repo[a], shown[a])
    BY <2>9, <2>10 DEF NewestOf
  <2> QED
    BY <1>4, <2>1, <2>7, <2>8, <2>11
<1>7. CASE Outside \/ UNCHANGED bvars
  <2>1. doing[a] # None /\ a \notin late /\ doing'[a] = doing[a]
    <3>1. CASE UNCHANGED <<doing, late>>
      BY <3>1
    <3>2. CASE \E b \in Backed : RestoreEnds(b)
      BY <1>0, <3>2 DEF RestoreEnds, JujuTypes
    <3> QED
      BY <1>7, <3>1, <3>2 DEF Outside, BackupEnds, UnitsFollow, bvars
  <2>2. NewestOf(doing[a], repo[a], shown[a])
    BY <1>5, <2>1 DEF DoingNewest
  <2>3. NewestOf(doing[a], repo'[a], shown[a])
    BY <1>3, <2>2, NewestKept
  <2> QED
    BY <1>4, <2>1, <2>3
<1> QED
  BY <1>2, <1>6, <1>7

LEMMA AwaitedStep ==
  ASSUME ProgramInv, DoingNewest, RestoreAwaited, [Next]_bvars
  PROVE  RestoreAwaited'
<1> SUFFICES ASSUME pc' = "run wait", Behind' = RestoreAt(App') - 1
             PROVE  App' \notin late' /\ (doing'[App'] = None => RestoredNewest(App)')
  BY DEF RestoreAwaited
<1>0. JujuTypes /\ CommandTypes /\ PhaseInv /\ TypeInv
  BY DEF ProgramInv, TypeInv
<1>2. \/ RunStep /\ pc = "run"
      \/ Outside \/ UNCHANGED bvars
  <2>1. ~NextApp /\ ~StepReturns
    BY DEF NextApp, StepReturns, Exit
  <2> QED
    BY <2>1, RunningOnly DEF Ahead
<1>3. UNCHANGED <<plan, pending, began, shown, toTime>>
  BY <1>2 DEF RunStep, SameCommand, Outside, BackupEnds, UnitsFollow, RestoreEnds, bvars
<1>4. App' = App /\ Full' = Full /\ Behind' = Behind /\ Now' = Now
  BY <1>3 DEF App, Full, Behind, Now
<1>5. pc \in Ahead
  BY <1>2 DEF Outside, BackupEnds, UnitsFollow, RestoreEnds, bvars, Ahead
<1>6. plan # <<>> /\ pending # <<>>
  BY <1>0, <1>2, <1>5 DEF PhaseInv, Outside, BackupEnds, UnitsFollow, RestoreEnds, bvars, RunStep,
     Running, Ahead
<1>7. App \in Backed /\ Now = Restore(App)
  BY <1>4, <1>5, <1>6, RestoreIsThere
<1>8. CASE RunStep /\ pc = "run"
  <2>1. /\ doing[App] = None /\ RestoreParams(App) # None /\ late' = late
        /\ doing' = [doing EXCEPT ![App] = RestoreParams(App)]
    BY <1>7, <1>8 DEF RunStep, StepEffect, Restore
  <2>2. App \notin late
    BY <1>0, <1>7, <2>1 DEF JujuTypes
  <2>3. doing'[App] # None
    BY <1>0, <1>7, <2>1 DEF JujuTypes
  <2> QED
    BY <1>4, <2>1, <2>2, <2>3
<1>9. CASE Outside \/ UNCHANGED bvars
  <2>1. pc = "run wait"
    BY <1>9 DEF Outside, BackupEnds, UnitsFollow, RestoreEnds, bvars
  <2>2. App \notin late /\ (doing[App] = None => RestoredNewest(App))
    BY <1>4, <2>1 DEF RestoreAwaited
  <2>3. App \notin late'
    BY <1>9, <2>2 DEF Outside, BackupEnds, UnitsFollow, RestoreEnds, bvars
  <2>4. CASE doing[App] = None
    <3>1. ~Command /\ ~ListBackups /\ ~RunStep
      BY <2>1 DEF ListBackups, RunStep, Command, Validate
    <3> DEFINE a == App
    <3>2. a \in Backed /\ RestoredNewest(a)
      BY <1>7, <2>2, <2>4
    <3>3. ASSUME NEW b \in Backed, RestoredNewest(b) PROVE RestoredNewest(b)'
      BY <3>1, <3>3, RestoredStays
    <3>4. \A b \in Backed : b = App => RestoredNewest(b)'
      BY <2>2, <2>4, <3>3
    <3>5. RestoredNewest(App)'
      BY <1>4, <1>7, <3>4 DEF RestoredNewest, Exact
    <3> QED
      BY <1>4, <2>3, <3>5
  <2>5. CASE doing[App] # None
    <3> SUFFICES ASSUME doing'[App] = None PROVE RestoredNewest(App)'
      BY <1>4, <2>3
    <3>1. RestoreEnds(App)
      <4>1. PICK b \in Backed : RestoreEnds(b)
        BY <1>9, <2>5 DEF Outside, BackupEnds, UnitsFollow, bvars
      <4>2. b = App
        BY <1>0, <1>7, <2>5, <4>1 DEF RestoreEnds, JujuTypes
      <4> QED
        BY <4>1, <4>2
    <3>2. data'[App] = doing[App] /\ repo' = repo
      BY <1>0, <1>7, <3>1 DEF RestoreEnds, JujuTypes
    <3>3. Exact(App) => NewestOf(doing[App], repo[App], shown[App])
      BY <1>7, <2>2, <2>5 DEF DoingNewest
    <3> QED
      BY <1>3, <1>4, <3>2, <3>3 DEF RestoredNewest, Exact
  <2> QED
    BY <2>4, <2>5
<1> QED
  BY <1>2, <1>8, <1>9

LEMMA BehindStep ==
  ASSUME ProgramInv, RestoreAwaited, RestoreBehind, [Next]_bvars
  PROVE  RestoreBehind'
<1> SUFFICES ASSUME pc' \in Ahead, Behind' >= RestoreAt(App') PROVE RestoredNewest(App)'
  BY DEF RestoreBehind
<1>0. JujuTypes /\ CommandTypes /\ PhaseInv /\ TypeInv
  BY DEF ProgramInv, TypeInv
<1>a. ASSUME NEW b \in Backed, RestoredNewest(b), b = App, App' = App,
             ~Command, ~ListBackups, ~(RunStep /\ Now = Restore(b))
      PROVE  RestoredNewest(App)'
  <2>1. RestoredNewest(b)'
    BY <1>a, RestoredStays
  <2> QED
    BY <1>a, <2>1 DEF RestoredNewest, Exact
<1>1. CASE NextApp /\ pending # <<>> /\ plan' = Head(pending).plan
  <2>1. pending' = pending /\ began' = began
    BY <1>1 DEF NextApp
  <2>2. App' = App /\ Full' = Full /\ plan' = Full /\ App \in Backed
    BY <1>0, <1>1, <2>1, HeadIs DEF App, Full
  <2>3. Full \in Seq(Quieting(App) \cup {Restore(App)} \cup Restoring(App, began.units))
    BY <1>0, <1>1, HeadIs
  <2>4. Behind' = 0
    BY <2>2, <2>3 DEF Behind
  <2>5. RestoreAt(App) \in 1..Len(Full)
    BY <2>2, PlanShape DEF Full, Shape
  <2> DEFINE R == RestoreAt(App)
  <2>6. R \in 1..Len(Full) /\ 0 >= R /\ Len(Full) \in Nat
    BY <2>2, <2>3, <2>4, <2>5
  <2> HIDE DEF R
  <2>7. FALSE
    BY <2>6
  <2> QED
    BY <2>7
<1>2. CASE RunStep /\ pc = "run"
  <2>1. plan # <<>> /\ UNCHANGED <<plan, pending, began>>
    BY <1>2 DEF RunStep, SameCommand
  <2>2. App' = App /\ Full' = Full /\ Behind' = Behind
    BY <2>1 DEF App, Full, Behind
  <2>3. App \in Backed /\ Now # Restore(App)
    <3> DEFINE R == RestoreAt(App)
    <3>1. App \in Backed /\ R \in Nat /\ Behind \in Nat /\ Behind >= R
          /\ (Now = Restore(App) <=> Behind = R - 1)
      BY <1>2, <2>1, <2>2, RestoreIsThere DEF Ahead
    <3> HIDE DEF R
    <3>2. Behind # R - 1
      BY <3>1
    <3> QED
      BY <3>1, <3>2
  <2>4. RestoredNewest(App)
    BY <1>2, <2>2 DEF RestoreBehind, Ahead
  <2>5. ~Command /\ ~ListBackups
    BY <1>0, <1>2 DEF Command, Validate, ListBackups, PhaseInv
  <2> QED
    BY <1>a, <2>2, <2>3, <2>4, <2>5
<1>3. CASE StepReturns /\ pc = "run wait"
  <2>1. /\ plan # <<>> /\ plan' = Tail(plan) /\ UNCHANGED <<pending, began>>
    BY <1>0, <1>3 DEF StepReturns, SameCommand, PhaseInv
  <2>2. App' = App /\ Full' = Full /\ Behind' = Behind + 1
    BY <1>3, <2>1, AheadStep DEF Ahead
  <2>3. /\ App \in Backed /\ RestoreAt(App) \in Nat /\ Behind \in Nat
        /\ Now = Restore(App) <=> Behind = RestoreAt(App) - 1
    BY <1>3, <2>1, RestoreIsThere DEF Ahead
  <2>4. Behind >= RestoreAt(App) \/ Behind = RestoreAt(App) - 1
    <3> DEFINE R == RestoreAt(App)
    <3>1. R \in Nat /\ Behind \in Nat /\ Behind + 1 >= R
      BY <2>2, <2>3
    <3> HIDE DEF R
    <3>2. Behind >= R \/ Behind = R - 1
      BY <3>1
    <3> QED
      BY <3>2 DEF R
  <2>5. RestoredNewest(App)
    <3>1. CASE Behind >= RestoreAt(App)
      BY <1>3, <3>1 DEF RestoreBehind, Ahead
    <3>2. CASE Behind = RestoreAt(App) - 1
      <4>1. doing[App] = None
        <5>1. Now = Restore(App)
          BY <2>3, <3>2
        <5>2. StepDone
          BY <1>3 DEF StepReturns
        <5> QED
          BY <5>1, <5>2 DEF StepDone, Restore
      <4> QED
        BY <1>3, <3>2, <4>1 DEF RestoreAwaited
    <3> QED
      BY <2>4, <3>1, <3>2
  <2>6. ~Command /\ ~ListBackups /\ ~RunStep
    BY <1>0, <1>3 DEF Command, Validate, ListBackups, PhaseInv, RunStep
  <2> QED
    BY <1>a, <2>2, <2>3, <2>5, <2>6
<1>4. CASE Outside \/ UNCHANGED bvars
  <2>1. UNCHANGED <<pc, plan, pending, began>>
    BY <1>4 DEF Outside, BackupEnds, UnitsFollow, RestoreEnds, bvars
  <2>2. App' = App /\ Full' = Full /\ Behind' = Behind /\ pc \in Ahead
    BY <2>1 DEF App, Full, Behind
  <2>3. App \in Backed
    BY <1>0, <2>2, HeadIs DEF PhaseInv, Running, Ahead
  <2>4. RestoredNewest(App)
    BY <2>2 DEF RestoreBehind
  <2>5. ~Command /\ ~ListBackups /\ ~RunStep
    BY <1>0, <2>1, <2>2 DEF Command, Validate, ListBackups, RunStep, PhaseInv, Ahead
  <2> QED
    BY <1>a, <2>2, <2>3, <2>4, <2>5
<1> QED
  BY <1>1, <1>2, <1>3, <1>4, RunningOnly

LEMMA SuccessStep ==
  ASSUME ProgramInv, PendingInv, OutcomeInv, RestoreBehind, SuccessNewest, [Next]_bvars
  PROVE  SuccessNewest'
<1> SUFFICES ASSUME began'.kind = "restore", NEW a \in Backed, outcome'[a] = "success"
             PROVE  RestoredNewest(a)'
  BY DEF SuccessNewest
<1>0. JujuTypes /\ CommandTypes /\ PhaseInv /\ TypeInv
  BY DEF ProgramInv, TypeInv
<1>1. ~Command /\ ~ResolveBackupTargets /\ ~PrepareRestore /\ ~ListBackups
  <2>1. ~Command
    BY DEF Command, Validate
  <2>2. ~ResolveBackupTargets
    BY DEF ResolveBackupTargets
  <2>3. ~PrepareRestore
    BY DEF PrepareRestore, OutcomeInv
  <2>4. ~ListBackups
    BY DEF ListBackups, OutcomeInv
  <2> QED
    BY <2>1, <2>2, <2>3, <2>4
<1>2. began' = began
  BY <1>1 DEF Next, Step, Outside, BackupEnds, UnitsFollow, RestoreEnds, bvars, Decline, Kill,
     BackupReturns, BackupDone, UnresolvedTarget, NothingMore,
     PrecheckFails, NextApp, RunStep, SameCommand, StepReturns, StepFails, AppRestored, AppReverted
<1>3. ~ \E b \in Backed : BackupReturns(b)
  BY <1>0, <1>2 DEF BackupReturns, PhaseInv
<1>4. RestoredNewest(a)
  <2>1. CASE outcome[a] = "success"
    BY <1>2, <2>1 DEF SuccessNewest
  <2>2. CASE outcome[a] # "success"
    <3>1. AppRestored
      <4>1. CASE StepFails
        BY <1>0, <2>2, <4>1 DEF StepFails, CommandTypes
      <4>2. CASE AppReverted
        BY <2>2, <4>2 DEF AppReverted, Reverted
      <4>3. CASE outcome' = outcome
        BY <2>2, <4>3
      <4> QED
        BY <1>1, <1>3, <4>1, <4>2, <4>3 DEF Next, Step, Outside, BackupEnds, UnitsFollow, RestoreEnds, bvars,
           Decline, Kill, BackupDone, UnresolvedTarget, NothingMore, PrecheckFails, NextApp, RunStep,
           SameCommand, StepReturns
    <3>2. a = App /\ pc = "run" /\ plan = <<>>
      BY <1>0, <2>2, <3>1 DEF AppRestored, CommandTypes
    <3> QED
      BY <3>2, RestoredBehind DEF RestoreBehind, Ahead
  <2> QED
    BY <2>1, <2>2
<1>5. ~(RunStep /\ Now = Restore(a))
  <2> SUFFICES ASSUME RunStep, Now = Restore(a) PROVE FALSE
    OBVIOUS
  <2>1. plan # <<>> /\ pc \in Running /\ outcome' = outcome
    BY DEF RunStep, SameCommand, Running
  <2>2. App \in Backed /\ Now \in Quieting(App) \cup {Restore(App)} \cup Restoring(App, began.units)
    BY <2>1, NowIs
  <2>3. began.units \in [DOMAIN Scale0 -> Nat] /\ Now.op = "restore" /\ Now.app = a
    BY <1>0 DEF CommandTypes, Restore
  <2>4. App = a
    BY <2>2, <2>3, StepKinds
  <2> QED
    BY <2>1, <2>4, HeadUnreported
<1> QED
  BY <1>1, <1>4, <1>5, RestoredStays

LEMMA TrueIInit == Init => TrueIInv
<1> SUFFICES ASSUME Init PROVE TrueIInv
  OBVIOUS
<1>1. ResultIInv
  BY ResultIInit
<1>2. ShownInv
  <2>1. \A a \in Backed : DOMAIN shown[a] = {}
    BY DEF Init
  <2> QED
    BY <2>1 DEF ShownInv
<1>3. DataInv
  BY DEF Init, DataInv, DoingNewest, RestoreAwaited, RestoreBehind, SuccessNewest, Ahead
<1>4. BackupInv
  BY DEF Init, BackupInv
<1> QED
  BY <1>1, <1>2, <1>3, <1>4 DEF TrueIInv

LEMMA TrueIStep == TrueIInv /\ [Next]_bvars => TrueIInv'
BY ResultIStep, ShownStep, DoingNewestStep, AwaitedStep, BehindStep, SuccessStep, BackupStep
   DEF TrueIInv, ResultIInv, QuietIInv, DataInv

\* What the commands say of backups is true: the result of a restore
\* (restore_params), of a backup and of its manifest (_BackupAppStep).
THEOREM BackupsAreTrue == Spec => []BackupsTrue
<1>1. TrueIInv => BackupsTrue
  <2> SUFFICES ASSUME TrueIInv, NEW a \in Backed, outcome[a] = "success"
               PROVE  /\ began.kind = "restore" /\ ~ (toTime /\ a \in MySQLs) =>
                           /\ data[a] \in DOMAIN repo[a] /\ repo[a][data[a]] = "finished"
                           /\ \A i \in DOMAIN shown[a] : shown[a][i] = "finished" => i <= data[a]
                      /\ began.kind = "backup" =>
                           \E i \in DOMAIN repo[a] : i > began.ids[a] /\ repo[a][i] = "finished"
    BY DEF BackupsTrue
  <2>1. began.kind = "restore" => RestoredNewest(a)
    BY DEF TrueIInv, DataInv, SuccessNewest
  <2>2. began.kind = "backup" => \E i \in DOMAIN repo[a] : i > began.ids[a] /\ repo[a][i] = "finished"
    BY DEF TrueIInv, BackupInv
  <2> QED
    BY <2>1, <2>2 DEF RestoredNewest, Exact, NewestOf
<1> QED
  BY <1>1, TrueIInit, TrueIStep, PTL DEF Spec

----------------------------------------------------------------------------
(* What a result says of its application                                   *)

LEMMA RestoringAgrees ==
  ASSUME NEW a \in Backed, NEW now, NEW x \in Restoring(a, now), NEW y \in Restoring(a, now),
         x.op = y.op, x.app = y.app
  PROVE  x.n = y.n
<1>1. a \in MySQLs
  BY DEF Restoring
<1> DEFINE Fits(z) == (z.op = "resume" /\ z.n = 0) \/ (z.op = "scale" /\ z.n = now[z.app])
<1>2. ASSUME NEW z \in Restoring(a, now) PROVE Fits(z)
  <2>1. CASE \E b \in ApiApps(a) : z = Resume(b)
    BY <2>1 DEF Resume
  <2>2. CASE \E b \in Served(a) : z = Scale(b, now[b])
    BY <2>2 DEF Scale
  <2> QED
    BY <1>1, <1>2, <2>1, <2>2, Zenon DEF Restoring
<1>3. Fits(x) /\ Fits(y)
  BY <1>2
<1> QED
  BY <1>3

\* A step that brings the application back undoes no other.
LEMMA BackKept ==
  ASSUME ProgramInv, RunStep, Now \in Restoring(App, began.units),
         NEW x \in Restoring(App, began.units), Done(x)
  PROVE  Done(x)'
<1>0. JujuTypes /\ CommandTypes
  BY DEF ProgramInv, TypeInv
<1>1. pc \in Running /\ plan # <<>> /\ StepEffect /\ units' = units
  BY DEF RunStep, Running
<1>2. App \in Backed /\ began.units \in [DOMAIN Scale0 -> Nat]
  BY <1>0, <1>1, NowIs DEF CommandTypes
<1>3. /\ x.op \in {"resume", "scale"} /\ Now.op \in {"resume", "scale"}
      /\ x.app \in DOMAIN Scale0 \/ x.op # "scale"
  BY <1>2, StepKinds
<1>4. CASE Now.op = "resume"
  <2>1. paused' = paused \ {Now.app} /\ scale' = scale
    BY <1>1, <1>4 DEF StepEffect
  <2> QED
    BY <1>1, <1>3, <2>1 DEF Done
<1>5. CASE Now.op = "scale"
  <2>1. scale' = [scale EXCEPT ![Now.app] = Now.n] /\ paused' = paused
    BY <1>1, <1>5 DEF StepEffect
  <2>2. x.op = "scale" /\ x.app = Now.app => x.n = Now.n
    BY <1>2, <1>5, RestoringAgrees
  <2> QED
    BY <1>0, <1>1, <1>3, <2>1, <2>2 DEF Done, JujuTypes
<1> QED
  BY <1>3, <1>4, <1>5

LEMMA BackAheadStep ==
  ASSUME ProgramInv, WaitInv, BackAhead, [Next]_bvars
  PROVE  BackAhead'
<1> SUFFICES ASSUME pc' \in Ahead, Behind' >= RestoreAt(App') PROVE BackAhead'
  BY DEF BackAhead
<1>0. JujuTypes /\ CommandTypes /\ PhaseInv /\ TypeInv
  BY DEF ProgramInv, TypeInv
<1>1. CASE NextApp /\ pending # <<>> /\ plan' = Head(pending).plan
  <2>1. pending' = pending /\ began' = began
    BY <1>1 DEF NextApp
  <2>2. App' = App /\ Full' = Full /\ plan' = Full /\ App \in Backed
    BY <1>0, <1>1, <2>1, HeadIs DEF App, Full
  <2>3. Full \in Seq(Quieting(App) \cup {Restore(App)} \cup Restoring(App, began.units))
    BY <1>0, <1>1, HeadIs
  <2>4. Behind' = 0
    BY <2>2, <2>3 DEF Behind
  <2>5. RestoreAt(App) \in 1..Len(Full)
    BY <2>2, PlanShape DEF Full, Shape
  <2> DEFINE R == RestoreAt(App)
  <2>6. R \in 1..Len(Full) /\ 0 >= R /\ Len(Full) \in Nat
    BY <2>2, <2>3, <2>4, <2>5
  <2> HIDE DEF R
  <2>7. FALSE
    BY <2>6
  <2> QED
    BY <2>7
<1>2. CASE RunStep /\ pc = "run"
  <2>1. plan # <<>> /\ UNCHANGED <<plan, pending, began>>
    BY <1>2 DEF RunStep, SameCommand
  <2>2. App' = App /\ Full' = Full /\ Behind' = Behind
    BY <2>1 DEF App, Full, Behind
  <2>3. Now \in Restoring(App, began.units)
    BY <1>2, <2>1, <2>2, RestoreIsThere DEF Ahead
  <2>4. \A x \in Restoring(App, began.units) :
          Done(x) \/ \E i \in (Behind + 1)..Len(Full) : Full[i] = x
    BY <1>2, <2>2 DEF BackAhead, Ahead
  <2>5. \A x \in Restoring(App, began.units) : Done(x) => Done(x)'
    BY <1>2, <2>3, BackKept
  <2> QED
    BY <2>1, <2>2, <2>4, <2>5 DEF BackAhead
<1>3. CASE StepReturns /\ pc = "run wait"
  <2>1. /\ plan # <<>> /\ plan' = Tail(plan) /\ UNCHANGED <<pending, began>>
        /\ UNCHANGED <<scale, units, paused>>
    BY <1>0, <1>3 DEF StepReturns, SameCommand, PhaseInv, juju
  <2>2. App' = App /\ Full' = Full /\ Behind' = Behind + 1
    BY <1>3, <2>1, AheadStep DEF Ahead
  <2>3. Behind \in Nat /\ Now = Full[Behind + 1] /\ Behind + 1 \in 1..Len(Full)
    BY <1>3, <2>1, NowIs DEF Ahead, Running
  <2>4. Done(Now)
    BY <1>3, ReturnedIsDone
  <2>5. App \in Backed /\ RestoreAt(App) \in Nat
    BY <1>3, <2>1, RestoreIsThere DEF Ahead
  <2> SUFFICES ASSUME NEW x \in Restoring(App, began.units)
               PROVE  Done(x) \/ \E i \in (Behind + 2)..Len(Full) : Full[i] = x
    <3>1. \A x : Done(x)' <=> Done(x)
      BY <2>1 DEF Done
    <3>2. Behind + 1 + 1 = Behind + 2
      BY <2>3
    <3> QED
      BY <2>1, <2>2, <3>1, <3>2 DEF BackAhead
  <2>6. Behind >= RestoreAt(App) \/ Behind = RestoreAt(App) - 1
    <3> DEFINE R == RestoreAt(App)
    <3>1. R \in Nat /\ Behind \in Nat /\ Behind + 1 >= R
      BY <2>2, <2>3, <2>5
    <3> HIDE DEF R
    <3>2. Behind >= R \/ Behind = R - 1
      BY <3>1
    <3> QED
      BY <3>2 DEF R
  <2>7. CASE Behind >= RestoreAt(App)
    <3>1. Done(x) \/ \E i \in (Behind + 1)..Len(Full) : Full[i] = x
      <4>1. pc \in Ahead
        BY <1>3 DEF Ahead
      <4> QED
        BY <2>7, <4>1, Zenon DEF BackAhead
    <3>2. ASSUME NEW i \in (Behind + 1)..Len(Full), Full[i] = x
          PROVE  Done(x) \/ \E j \in (Behind + 2)..Len(Full) : Full[j] = x
      <4>1. i = Behind + 1 \/ i \in (Behind + 2)..Len(Full)
        BY <2>3
      <4> QED
        BY <2>3, <2>4, <3>2, <4>1
    <3> QED
      BY <3>1, <3>2
  <2>8. CASE Behind = RestoreAt(App) - 1
    <3>1. Shape(Full, RestoreAt(App), Quieting(App), Restore(App), Restoring(App, began.units))
      BY <2>5, PlanShape DEF Full
    <3>2. PICK i \in (RestoreAt(App) + 1)..Len(Full) : Full[i] = x
      BY <3>1, Zenon DEF Shape
    <3>3. RestoreAt(App) + 1 = Behind + 2
      <4> DEFINE R == RestoreAt(App)
      <4>1. R \in Nat /\ Behind = R - 1
        BY <2>5, <2>8
      <4> HIDE DEF R
      <4>2. R + 1 = Behind + 2
        BY <4>1
      <4> QED
        BY <4>2 DEF R
    <3> QED
      BY <3>2, <3>3
  <2> QED
    BY <2>6, <2>7, <2>8
<1>4. CASE Outside \/ UNCHANGED bvars
  <2>1. UNCHANGED <<pc, plan, pending, began>>
    BY <1>4 DEF Outside, BackupEnds, UnitsFollow, RestoreEnds, bvars
  <2>2. App' = App /\ Full' = Full /\ Behind' = Behind /\ pc \in Ahead
    BY <2>1 DEF App, Full, Behind
  <2>3. \A x : x.app \in DOMAIN Scale0 \/ x.op # "scale" => (Done(x) => Done(x)')
    BY <1>0, <1>4, DoneOutside DEF bvars
  <2>4. App \in Backed /\ began.units \in [DOMAIN Scale0 -> Nat]
    BY <1>0, <2>2, HeadIs DEF PhaseInv, CommandTypes, Running, Ahead
  <2>5. \A x \in Restoring(App, began.units) : Done(x) => Done(x)'
    BY <2>3, <2>4, QuietingScales
  <2> QED
    BY <2>1, <2>2, <2>5 DEF BackAhead
<1> QED
  BY <1>1, <1>2, <1>3, <1>4, RunningOnly

LEMMA BackRevertStep ==
  ASSUME ProgramInv, WaitInv, BackRevert, [Next]_bvars
  PROVE  BackRevert'
<1> SUFFICES ASSUME pc' \in Back, outcome'[App'] # "rollback failed",
                    NEW x \in Restoring(App', began'.units)
             PROVE  Done(x)' \/ x \in ToSet(plan')
  BY DEF BackRevert
<1>0. JujuTypes /\ CommandTypes /\ PhaseInv /\ TypeInv
  BY DEF ProgramInv, TypeInv
<1>1. UNCHANGED <<pending, began>> /\ pc \in Running
  BY RunningOnly DEF StepFails, RunStep, StepReturns, SameCommand, Outside, BackupEnds, UnitsFollow,
     RestoreEnds, bvars, Running, Back
<1>2. pending # <<>> /\ App' = App /\ App \in Backed
  BY <1>0, <1>1, HeadIs DEF PhaseInv, App
<1>3. x \in Restoring(App, began.units)
  BY <1>1, <1>2
<1>4. CASE StepFails
  <2>1. CASE pc \in Ahead
    <3>1. plan' = Head(pending).revert
      BY <1>4, <2>1 DEF StepFails, Ahead
    <3>2. plan' = build_restore_revert_plan(App, began.units)
      BY <1>0, <1>2, <3>1, HeadIs
    <3>3. Lists(plan', Restoring(App, began.units))
      BY <1>2, <3>2, RevertListed
    <3>4. PICK i \in 1..Len(plan') : plan'[i] = x
      BY <1>3, <3>3 DEF Lists
    <3>5. plan' \in Seq(Restoring(App, began.units))
      BY <3>3 DEF Lists
    <3>7. x \in ToSet(plan')
      BY <3>4, <3>5, ElementsTail
    <3> QED
      BY <3>7
  <2>2. CASE pc \in Back
    <3>1. outcome' = [outcome EXCEPT ![App] = "rollback failed"]
      BY <1>4, <2>2 DEF StepFails, Back
    <3>2. outcome'[App'] = "rollback failed"
      BY <1>0, <1>2, <3>1 DEF CommandTypes
    <3> QED
      BY <3>2
  <2> QED
    BY <1>1, <2>1, <2>2 DEF Running, Ahead, Back
<1>5. CASE RunStep /\ pc = "revert"
  <2>1. plan # <<>> /\ plan' = plan /\ outcome' = outcome /\ pc \in Back
    BY <1>5 DEF RunStep, SameCommand, Back
  <2>2. Now \in Restoring(App, began.units)
    BY <1>1, <2>1, NowIs
  <2>3. Done(x) \/ x \in ToSet(plan)
    BY <1>2, <1>3, <2>1 DEF BackRevert
  <2>4. Done(x) => Done(x)'
    BY <1>3, <1>5, <2>2, BackKept
  <2> QED
    BY <2>1, <2>3, <2>4
<1>6. CASE StepReturns /\ pc = "revert wait"
  <2>1. /\ plan # <<>> /\ plan' = Tail(plan) /\ outcome' = outcome /\ pc \in Back
        /\ UNCHANGED <<scale, units, paused>>
    BY <1>0, <1>6 DEF StepReturns, SameCommand, PhaseInv, juju, Back
  <2>2. Done(Now)
    BY <1>6, ReturnedIsDone
  <2>3. Done(x) \/ x \in ToSet(plan)
    BY <1>2, <1>3, <2>1 DEF BackRevert
  <2>4. \A y : y \in ToSet(plan) => y = Now \/ y \in ToSet(plan')
    <3>1. plan \in Seq(Restoring(App, began.units))
      BY <2>1 DEF ProgramInv, PlanInv
    <3> QED
      BY <2>1, <3>1, ElementsTail DEF Now
  <2>5. Done(x)' <=> Done(x)
    BY <2>1 DEF Done
  <2> QED
    BY <2>2, <2>3, <2>4, <2>5
<1>7. CASE Outside \/ UNCHANGED bvars
  <2>1. UNCHANGED <<pc, plan, outcome>>
    BY <1>7 DEF Outside, BackupEnds, UnitsFollow, RestoreEnds, bvars
  <2>2. Done(x) \/ x \in ToSet(plan)
    BY <1>2, <1>3, <2>1 DEF BackRevert
  <2>3. began.units \in [DOMAIN Scale0 -> Nat]
    BY <1>0 DEF CommandTypes
  <2>4. x.app \in DOMAIN Scale0 \/ x.op # "scale"
    BY <1>2, <1>3, <2>3, QuietingScales
  <2>5. Done(x) => Done(x)'
    BY <1>0, <1>7, <2>4, DoneOutside DEF bvars
  <2> QED
    BY <2>1, <2>2, <2>5
<1> QED
  BY <1>4, <1>5, <1>6, <1>7, RunningOnly

----------------------------------------------------------------------------
(* What every result says                                                  *)

\* What a step does to one application is no other's.
LEMMA Spared ==
  ASSUME ProgramInv, NEW m \in MySQLs, UNCHANGED began,
         UNCHANGED <<scale, units, paused>> \/ Outside \/ (RunStep /\ App # m)
  PROVE  (AllDone(m) => AllDone(m)') /\ (Untouched(m) => Untouched(m)')
<1>0. JujuTypes /\ CommandTypes /\ m \in Backed /\ Served(m) \subseteq DOMAIN Scale0
  BY ModelAssumption DEF ProgramInv, TypeInv, Backed
<1>1. ASSUME NEW x \in Restoring(m, began.units)
      PROVE  \/ x.op = "resume" /\ x.app \in ApiApps(m)
             \/ x.op = "scale" /\ x.app \in Served(m)
  BY <1>0, StepKinds DEF CommandTypes
<1>2. CASE UNCHANGED <<scale, units, paused>> \/ Outside
  <2>1. \A x \in Restoring(m, began.units) : Done(x) => Done(x)'
    <3>1. \A x \in Restoring(m, began.units) : x.app \in DOMAIN Scale0 \/ x.op # "scale"
      BY <1>0, <1>1
    <3> QED
      BY <1>0, <1>2, <3>1, DoneOutside
  <2>2. UNCHANGED <<scale, paused>>
    BY <1>2 DEF Outside, BackupEnds, UnitsFollow, RestoreEnds
  <2> QED
    BY <2>1, <2>2 DEF AllDone, Untouched
<1>3. CASE RunStep /\ App # m
  <2>1. plan # <<>> /\ pc \in Running /\ StepEffect /\ units' = units
    BY <1>3 DEF RunStep, Running
  <2>2. App \in Backed /\ Now \in Quieting(App) \cup {Restore(App)} \cup Restoring(App, began.units)
    BY <2>1, NowIs
  <2>3. \/ Now.op \in {"pause", "resume"} /\ App \in MySQLs /\ Now.app \in ApiApps(App)
        \/ Now.op = "scale" /\ App \in MySQLs /\ Now.app \in Served(App)
        \/ Now.op = "restore"
    BY <1>0, <2>2, StepKinds DEF CommandTypes
  <2>4. App \in MySQLs => Served(m) \cap Served(App) = {} /\ ApiApps(m) \cap ApiApps(App) = {}
    BY <1>3, SeparateAssumption
  <2>5. \A b \in ApiApps(m) : b \in paused' <=> b \in paused
    <3>1. CASE Now.op \in {"pause", "resume"}
      <4>1. paused' = paused \cup {Now.app} \/ paused' = paused \ {Now.app}
        BY <2>1, <3>1 DEF StepEffect
      <4>2. Now.app \notin ApiApps(m)
        BY <2>3, <2>4, <3>1
      <4> QED
        BY <4>1, <4>2
    <3>2. CASE Now.op \in {"scale", "restore"}
      BY <2>1, <3>2 DEF StepEffect
    <3> QED
      BY <2>3, <3>1, <3>2
  <2>6. \A b \in Served(m) : scale'[b] = scale[b]
    <3>1. CASE Now.op = "scale"
      <4>1. scale' = [scale EXCEPT ![Now.app] = Now.n]
        BY <2>1, <3>1 DEF StepEffect
      <4>2. Now.app \notin Served(m)
        BY <2>3, <2>4, <3>1
      <4> QED
        BY <1>0, <4>1, <4>2 DEF JujuTypes
    <3>2. CASE Now.op \in {"pause", "resume", "restore"}
      BY <2>1, <3>2 DEF StepEffect
    <3> QED
      BY <2>3, <3>1, <3>2
  <2>7. \A x \in Restoring(m, began.units) : Done(x) => Done(x)'
    <3> SUFFICES ASSUME NEW x \in Restoring(m, began.units), Done(x) PROVE Done(x)'
      OBVIOUS
    <3>1. CASE x.op = "resume" /\ x.app \in ApiApps(m)
      BY <2>5, <3>1 DEF Done
    <3>2. CASE x.op = "scale" /\ x.app \in Served(m)
      BY <2>1, <2>6, <3>2 DEF Done
    <3> QED
      BY <1>1, <3>1, <3>2
  <2>8. AllDone(m) => AllDone(m)'
    BY <2>7 DEF AllDone
  <2>9. ApiApps(m) \cap paused' = ApiApps(m) \cap paused
    BY <2>5
  <2>10. Untouched(m) => Untouched(m)'
    BY <2>6, <2>9 DEF Untouched
  <2> QED
    BY <2>8, <2>10
<1> QED
  BY <1>2, <1>3

LEMMA ResultsStep ==
  ASSUME ProgramInv, PendingInv, OutcomeInv, BackInv, OthersInv, [Next]_bvars
  PROVE  ResultsHold'
<1> SUFFICES ASSUME began'.kind = "restore", NEW m \in MySQLs
             PROVE  /\ outcome'[m] \in {"success", "reverted"} => AllDone(m)'
                    /\ outcome'[m] = "not attempted" => Untouched(m)'
  BY DEF ResultsHold
<1>0. CommandTypes /\ PhaseInv /\ PlanInv /\ TypeInv /\ m \in Backed
  BY DEF ProgramInv, TypeInv, Backed
<1>1. CASE Command \/ ResolveBackupTargets \/ ListBackups \/ PrepareRestore
  <2>1. CASE Command
    BY <1>0, <2>1 DEF Command, Validate
  <2>2. CASE ResolveBackupTargets
    BY <1>0, <2>2 DEF ResolveBackupTargets
  <2>3. CASE ListBackups
    BY <1>0, <2>3 DEF ListBackups, OutcomeInv
  <2>4. CASE PrepareRestore
    BY <1>0, <2>4 DEF PrepareRestore, OutcomeInv
  <2> QED
    BY <1>1, <2>1, <2>2, <2>3, <2>4
<1>2. CASE ~(Command \/ ResolveBackupTargets \/ ListBackups \/ PrepareRestore)
  <2>1. began' = began
    BY <1>2 DEF Next, Step, Outside, BackupEnds, UnitsFollow, RestoreEnds, bvars, Decline, Kill,
       BackupReturns, BackupDone, UnresolvedTarget, NothingMore,
       PrecheckFails, NextApp, RunStep, SameCommand, StepReturns, StepFails, AppRestored, AppReverted
  <2>2. ~ \E b \in Backed : BackupReturns(b)
    BY <1>0, <2>1 DEF BackupReturns, PhaseInv
  <2>3. /\ outcome[m] \in {"success", "reverted"} => AllDone(m)
        /\ outcome[m] = "not attempted" => Untouched(m)
    BY <2>1 DEF OthersInv, ResultsHold
  <2>4. CASE RunStep /\ App = m
    <3>1. outcome' = outcome /\ pc \in Running
      BY <2>4 DEF RunStep, SameCommand, Running
    <3> QED
      BY <2>4, <3>1, HeadUnreported
  <2>5. CASE ~(RunStep /\ App = m)
    <3>1. UNCHANGED <<scale, units, paused>> \/ Outside \/ (RunStep /\ App # m)
      BY <1>2, <2>2, <2>5 DEF Next, Step, bvars, juju, Decline, Kill, BackupDone,
         UnresolvedTarget, NothingMore, PrecheckFails, NextApp, StepReturns, StepFails,
         AppRestored, AppReverted
    <3>2. (AllDone(m) => AllDone(m)') /\ (Untouched(m) => Untouched(m)')
      BY <2>1, <3>1, Spared
    <3>3. CASE outcome' = outcome
      BY <2>3, <3>2, <3>3
    <3>4. CASE StepFails
      <4>1. outcome'[m] = outcome[m] \/ outcome'[m] = "rollback failed"
        BY <1>0, <3>4 DEF StepFails, CommandTypes
      <4> QED
        BY <2>3, <3>2, <4>1
    <3>5. CASE AppRestored
      <4>1. pc \in Ahead /\ plan = <<>> /\ outcome' = [outcome EXCEPT ![App] = "success"]
        BY <3>5 DEF AppRestored, Ahead
      <4>2. CASE m = App
        <5>1. Behind >= RestoreAt(App)
          BY <4>1, RestoredBehind
        <5>2. Full \in Seq(Quieting(App) \cup {Restore(App)} \cup Restoring(App, began.units))
          BY <1>0, <4>1, HeadIs DEF PhaseInv, Running, Ahead
        <5>3. \A i \in (Behind + 1)..Len(Full) : FALSE
          <6>1. Len(Full) \in Nat /\ Behind = Len(Full) - 0
            BY <4>1, <5>2 DEF Behind
          <6> QED
            BY <6>1
        <5>4. \A x \in Restoring(App, began.units) :
                Done(x) \/ \E i \in (Behind + 1)..Len(Full) : Full[i] = x
          BY <4>1, <5>1, Zenon DEF BackInv, BackAhead
        <5>5. AllDone(m)
          BY <4>2, <5>3, <5>4 DEF AllDone
        <5>6. outcome'[m] = "success"
          BY <1>0, <4>1, <4>2 DEF CommandTypes
        <5> QED
          BY <3>2, <5>5, <5>6
      <4>3. CASE m # App
        <5>1. outcome'[m] = outcome[m]
          BY <1>0, <4>1, <4>3 DEF CommandTypes
        <5> QED
          BY <2>3, <3>2, <5>1
      <4> QED
        BY <4>2, <4>3
    <3>6. CASE AppReverted
      <4>1. /\ pc = "revert" /\ plan = <<>> /\ pending # <<>>
            /\ outcome' = [a \in Backed |->
                 CASE a = App -> Reverted
                   [] \E i \in 2..Len(pending) : pending[i].app = a -> "not attempted"
                   [] OTHER -> outcome[a]]
        BY <1>0, <3>6 DEF AppReverted, PhaseInv, Running
      <4>2. CASE m = App
        <5>1. outcome'[m] = Reverted
          <6> DEFINE Left(a) == \E i \in 2..Len(pending) : pending[i].app = a
          <6>1. outcome' = [a \in Backed |-> CASE a = App -> Reverted [] Left(a) -> "not attempted"
                                              [] OTHER -> outcome[a]]
            BY <4>1
          <6> HIDE DEF Left
          <6>2. outcome'[m] = CASE m = App -> Reverted [] Left(m) -> "not attempted"
                                [] OTHER -> outcome[m]
            BY <1>0, <6>1
          <6>3. ~Left(m)
            <7>1. ASSUME NEW i \in 2..Len(pending), pending[i].app = m PROVE FALSE
              <8>1. i \in 1..Len(pending) /\ 1 \in 1..Len(pending) /\ i # 1
                <9>1. Len(pending) \in Nat
                  BY <1>0 DEF CommandTypes
                <9> QED
                  BY <7>1, <9>1
              <8>2. pending[1].app = m
                BY <1>0, <4>1, <4>2, TailOf DEF App, CommandTypes
              <8> QED
                BY <7>1, <8>1, <8>2 DEF PendingInv
            <7> QED
              BY <7>1 DEF Left
          <6> QED
            BY <4>2, <6>2, <6>3
        <5>2. outcome[App] # "rollback failed" => AllDone(m)
          <6>1. outcome[App] # "rollback failed" =>
                  \A x \in Restoring(App, began.units) : Done(x) \/ x \in ToSet(plan)
            BY <4>1 DEF BackInv, BackRevert, Back
          <6>2. \A x : x \notin ToSet(plan)
            <7>1. plan \in Seq(Restoring(App, began.units))
              BY <1>0, <4>1 DEF PlanInv, Back
            <7>2. \A i \in 1..Len(plan) : FALSE
              <8>1. Len(plan) = 0
                BY <4>1
              <8> QED
                BY <8>1
            <7> QED
              BY <7>1, <7>2, ElementsTail
          <6> QED
            BY <4>2, <6>1, <6>2 DEF AllDone
        <5>3. outcome[App] = "rollback failed" => Reverted = "rollback failed"
          BY DEF Reverted
        <5>4. Reverted # "not attempted"
          BY DEF Reverted
        <5> QED
          BY <3>2, <5>1, <5>2, <5>3, <5>4
      <4>3. CASE m # App /\ \E i \in 2..Len(pending) : pending[i].app = m
        <5>1. outcome'[m] = "not attempted"
          BY <1>0, <4>1, <4>3
        <5>2. PICK i \in 2..Len(pending) : pending[i].app = m
          BY <4>3
        <5>3. outcome[m] = "none"
          <6>1. i \in 1..Len(pending) /\ i # 1
            BY <5>2
          <6> QED
            BY <5>2, <6>1 DEF PendingInv
        <5>4. Untouched(m)
          BY <4>1, <4>3, <5>3 DEF OthersInv, OthersRest, Running
        <5> QED
          BY <3>2, <5>1, <5>4
      <4>4. CASE m # App /\ ~ \E i \in 2..Len(pending) : pending[i].app = m
        <5>1. outcome'[m] = outcome[m]
          BY <1>0, <4>1, <4>4
        <5> QED
          BY <2>3, <3>2, <5>1
      <4> QED
        BY <4>2, <4>3, <4>4
    <3> QED
      BY <1>2, <2>2, <3>3, <3>4, <3>5, <3>6 DEF Next, Step, Outside, BackupEnds, UnitsFollow,
         RestoreEnds, bvars, Decline, Kill, BackupDone, UnresolvedTarget, NothingMore,
         PrecheckFails, NextApp, RunStep, SameCommand, StepReturns
  <2> QED
    BY <2>4, <2>5
<1> QED
  BY <1>1, <1>2

LEMMA OthersRestStep ==
  ASSUME ProgramInv, OutcomeInv, OthersRest, [Next]_bvars
  PROVE  OthersRest'
<1> SUFFICES ASSUME pc' \in {"next"} \cup Running, NEW m \in MySQLs, ~(pc' \in Running /\ m = App')
             PROVE  outcome'[m] = "success" \/ (outcome'[m] = "none" /\ Untouched(m)')
  BY DEF OthersRest
<1>0. CommandTypes /\ PhaseInv /\ m \in Backed
  BY DEF ProgramInv, TypeInv, Backed
<1>1. \/ PrepareRestore \/ AppRestored \/ NextApp \/ RunStep \/ StepReturns \/ StepFails
      \/ Outside \/ UNCHANGED bvars
  <2>1. ~Command
    BY DEF Command, Validate, Running
  <2>2. ~ResolveBackupTargets /\ ~ListBackups
    BY DEF ResolveBackupTargets, ListBackups, Running
  <2>3. ~ \E a \in Backed : BackupReturns(a)
    BY DEF BackupReturns, Running
  <2>4. ~BackupDone /\ ~UnresolvedTarget /\ ~NothingMore /\ ~PrecheckFails /\ ~AppReverted
        /\ ~Decline /\ ~Kill
    BY DEF BackupDone, UnresolvedTarget, NothingMore, PrecheckFails, AppReverted, Decline, Kill,
       Exit, Running
  <2> QED
    BY <2>1, <2>2, <2>3, <2>4 DEF Next, Step
<1>2. CASE PrepareRestore
  <2>1. outcome'[m] = "none"
    BY <1>0, <1>2 DEF PrepareRestore, OutcomeInv
  <2>2. began'.scale = scale' /\ began'.paused = paused'
    BY <1>2 DEF PrepareRestore, Found, juju
  <2> QED
    BY <2>1, <2>2 DEF Untouched
<1>3. CASE AppRestored \/ NextApp \/ RunStep \/ StepReturns \/ StepFails \/ Outside \/ UNCHANGED bvars
  <2>1. UNCHANGED began
    BY <1>3 DEF AppRestored, NextApp, RunStep, StepReturns, StepFails, Outside, SameCommand,
       BackupEnds, UnitsFollow, RestoreEnds, bvars
  <2>2. pc \in {"next"} \cup Running
    BY <1>3 DEF AppRestored, NextApp, RunStep, StepReturns, StepFails, Outside,
       BackupEnds, UnitsFollow, RestoreEnds, bvars, Running
  <2>3. CASE pc \in Running /\ m = App
    <3>1. AppRestored
      <4>1. CASE NextApp
        BY <2>3, <4>1 DEF NextApp, Running
      <4>2. CASE RunStep \/ StepReturns \/ StepFails
        BY <2>3, <4>2 DEF RunStep, StepReturns, StepFails, SameCommand, Running, App
      <4>3. CASE Outside \/ UNCHANGED bvars
        BY <2>3, <4>3 DEF Outside, BackupEnds, UnitsFollow, RestoreEnds, bvars, App
      <4> QED
        BY <1>3, <4>1, <4>2, <4>3
    <3> QED
      BY <1>0, <2>3, <3>1 DEF AppRestored, CommandTypes
  <2>4. CASE ~(pc \in Running /\ m = App)
    <3>1. outcome[m] = "success" \/ (outcome[m] = "none" /\ Untouched(m))
      BY <2>2, <2>4 DEF OthersRest
    <3>2. UNCHANGED <<scale, units, paused>> \/ Outside \/ (RunStep /\ App # m)
      BY <1>3, <2>4 DEF AppRestored, NextApp, RunStep, StepReturns, StepFails, bvars, juju, Running
    <3>3. Untouched(m) => Untouched(m)'
      BY <2>1, <3>2, Spared
    <3>4. outcome'[m] = outcome[m]
      <4>1. CASE AppRestored \/ StepFails
        BY <1>0, <2>4, <4>1 DEF AppRestored, StepFails, CommandTypes, Running
      <4>2. CASE NextApp \/ RunStep \/ StepReturns \/ Outside \/ UNCHANGED bvars
        BY <4>2 DEF NextApp, RunStep, StepReturns, Outside, SameCommand,
           BackupEnds, UnitsFollow, RestoreEnds, bvars
      <4> QED
        BY <1>3, <4>1, <4>2
    <3> QED
      BY <3>1, <3>3, <3>4
  <2> QED
    BY <2>3, <2>4
<1> QED
  BY <1>1, <1>2, <1>3

LEMMA OutcomeIInit == Init => OutcomeIInv
<1> SUFFICES ASSUME Init PROVE OutcomeIInv
  OBVIOUS
<1>1. ResultIInv
  BY ResultIInit
<1>2. BackInv
  BY DEF Init, BackInv, BackAhead, BackRevert, Ahead, Back
<1>3. OthersInv
  BY DEF Init, OthersInv, ResultsHold, OthersRest, Running
<1> QED
  BY <1>1, <1>2, <1>3 DEF OutcomeIInv

LEMMA OutcomeIStep == OutcomeIInv /\ [Next]_bvars => OutcomeIInv'
BY ResultIStep, BackAheadStep, BackRevertStep, ResultsStep, OthersRestStep
   DEF OutcomeIInv, ResultIInv, QuietIInv, BackInv, OthersInv

\* Restored or reverted, the clients run and every application has the scale found when the
\* plan was built; not attempted, nothing was touched; one application is disturbed
\* at a time (_restore_one, _run_revert_plan, the loop of RestoreStep).
THEOREM OutcomesAreTrue == Spec => []OutcomeTrue
<1>1. OutcomeIInv => OneAtATime
  <2> SUFFICES ASSUME OutcomeIInv, cmd = "restore", pc \notin {"inventory", "confirm"},
                      NEW m \in MySQLs, ~ (paused \cap ApiApps(m) \subseteq began.paused)
               PROVE  pc \in Running /\ m = App
    BY DEF OneAtATime
  <2>1. pc \in {"next"} \cup Running
    BY DEF OutcomeIInv, ResultIInv, QuietIInv, ProgramInv, PhaseInv
  <2>2. ~Untouched(m)
    BY DEF Untouched
  <2>3. outcome[m] # "success"
    <3> SUFFICES ASSUME outcome[m] = "success" PROVE FALSE
      OBVIOUS
    <3>1. AllDone(m)
      BY DEF OutcomeIInv, ResultIInv, QuietIInv, ProgramInv, PhaseInv, OthersInv, ResultsHold
    <3>2. \A a \in ApiApps(m) : Resume(a) \in Restoring(m, began.units)
      BY DEF Restoring
    <3>3. \A a \in ApiApps(m) : a \notin paused
      BY <3>1, <3>2, DoneIs DEF AllDone
    <3> QED
      BY <3>3
  <2> QED
    BY <2>1, <2>2, <2>3 DEF OutcomeIInv, OthersInv, OthersRest
<1>2. ASSUME OutcomeIInv, began.kind = "restore", NEW m \in MySQLs
      PROVE  /\ outcome[m] \in {"success", "reverted"} =>
                  /\ \A a \in Served(m) : scale[a] = began.units[a] /\ units[a] = began.units[a]
                  /\ ApiApps(m) \cap paused = {}
             /\ outcome[m] = "not attempted" =>
                  /\ \A a \in Served(m) : scale[a] = began.scale[a]
                  /\ ApiApps(m) \cap paused = ApiApps(m) \cap began.paused
  <2>1. /\ outcome[m] \in {"success", "reverted"} => AllDone(m)
        /\ outcome[m] = "not attempted" => Untouched(m)
    BY <1>2 DEF OutcomeIInv, OthersInv, ResultsHold
  <2>2. ASSUME AllDone(m)
        PROVE  /\ \A a \in Served(m) : scale[a] = began.units[a] /\ units[a] = began.units[a]
               /\ ApiApps(m) \cap paused = {}
    <3>1. \A a \in ApiApps(m) : Resume(a) \in Restoring(m, began.units)
      BY DEF Restoring
    <3>2. \A a \in Served(m) : Scale(a, began.units[a]) \in Restoring(m, began.units)
      BY DEF Restoring
    <3> QED
      BY <2>2, <3>1, <3>2, DoneIs DEF AllDone
  <2> QED
    BY <2>1, <2>2 DEF Untouched
<1>3. OutcomeIInv => OutcomeTrue
  BY <1>1, <1>2 DEF OutcomeTrue
<1> QED
  BY <1>3, OutcomeIInit, OutcomeIStep, PTL DEF Spec

----------------------------------------------------------------------------
(* The variables of the OpenStack plan                                   *)

IsManifest(m) == m \in {Plain, Other, Newer}
OrderKinds == {"bootstrap", "resize", "refresh", "proxy", "enable", "disable"}
AskSteps == {"manifest", "proxy", "database", "region", "endpoints"}
DeploySteps == {"check", "topology", "model", "services", "sizes", "rabbit", "vars", "apply"}
FeatureSteps == {"validate", "check", "services", "sizes", "featureVars", "apply"}
StepsOf(kind) ==
  CASE kind = "bootstrap" -> AskSteps \cup DeploySteps
    [] kind = "resize" -> {"validate"} \cup DeploySteps
    [] kind = "refresh" -> {"clear", "validate", "manifest", "reapply", "apply"}
    [] kind = "proxy" -> {"proxy", "model", "modelVars", "target"}
    [] OTHER -> FeatureSteps

\* The step of a running command, and what it was given.
OrderInv ==
  /\ at = "idle" <=> order = C!Resting
  /\ at # "idle" =>
       /\ order.kind \in OrderKinds /\ at \in StepsOf(order.kind) /\ IsManifest(order.manifest)
       /\ order.proxy \in BOOLEAN /\ order.endpoints \subseteq C!EndpointKeys
       /\ order.kind # "bootstrap" => C!Exists(plane)

\* The rows of clusterd, and the fields of the answers.
RowFields == {"database", "topology", "region", "endpoints", "proxy", "model", "services", "mysql", "rabbit"}
RowInv ==
  /\ <<nodes, osdNodes>> \in Sites /\ IsManifest(manifest) /\ DOMAIN answered = RowFields
  /\ answered.database \in {"none", "single", "multi"} /\ answered.region \in {"none", "r1", "r2"}
  /\ answered.topology \in C!Topologies \cup {"none"} /\ answered.services \subseteq C!Services
  /\ answered.endpoints \in (SUBSET C!EndpointKeys) \cup {C!Unanswered}
  /\ answered.proxy \in BOOLEAN /\ answered.model \in BOOLEAN
  /\ answered.mysql \in {"none", "20G", "40G"} /\ answered.rabbit \in {"none", "4G", "8G"}
  /\ unchecked \in BOOLEAN /\ halfway \in BOOLEAN
  /\ orderStops \in 0..MaxStops /\ orders \in 0..MaxCommands
\* Variables are stored before they are deployed.
VarInv ==
  /\ planVars \in C!PlanVars \cup {C!NoVars} /\ plane \in C!PlanVars \cup {C!NoVars}
  /\ C!Exists(plane) => C!Exists(planVars)

\* The databases and the region are answered once: stored, deployed and answered alike.
AskedOnce ==
  /\ C!Exists(planVars) => /\ planVars.database = answered.database /\ answered.database # "none"
                           /\ planVars.region = answered.region /\ answered.region # "none"
  /\ C!Exists(plane) => plane.database = planVars.database /\ plane.region = planVars.region
  /\ at \in {"region", "endpoints"} \cup DeploySteps => answered.database # "none"
  /\ at \in {"endpoints"} \cup DeploySteps => answered.region # "none"

\* The steps after check_storage_modifications_in_manifest.
CheckedSteps == {"topology", "model", "services", "sizes", "rabbit", "vars", "featureVars"}
\* A size that is deployed is the one stored and answered, until a command that
\* does not check it wrote another.
SizesKept ==
  /\ C!Exists(planVars) /\ at \in CheckedSteps /\ order.kind # "proxy" =>
       ~C!check_storage_modifications_in_manifest(order.manifest)
  /\ at \in {"rabbit", "vars"} => answered.mysql # "none"
  /\ at = "vars" /\ ~C!Exists(planVars) => answered.rabbit # "none"
  /\ ~unchecked /\ C!Exists(planVars) =>
       /\ planVars.mysql # "none" => answered.mysql = planVars.mysql
       /\ planVars.rabbitComputed => answered.rabbit = planVars.rabbit /\ answered.rabbit # "none"
       /\ C!Exists(plane) =>
            /\ plane.mysql # "none" => planVars.mysql = plane.mysql
            /\ plane.rabbitComputed => planVars.rabbitComputed /\ planVars.rabbit = plane.rabbit

\* A command past its validation asks for the charms that are deployed.
CharmsKept ==
  /\ at \notin {"idle", "validate", "clear"} /\ order.kind \notin {"bootstrap", "proxy"} =>
       order.manifest.infra = plane.infra
  /\ at = "apply" => C!Exists(planVars) /\ planVars.infra = order.manifest.infra

\* The services that use the database: the feature adds one.
Users == IF planVars.feature THEN 2 ELSE 1

\* The feature is stored as deployed but while its own command is about to apply it, and
\* the databases are sized for all their users.
FeatureKept ==
  /\ C!Exists(plane) /\ ~halfway /\ ~(at = "apply" /\ C!OnFeature) => planVars.feature = plane.feature
  /\ C!Exists(planVars) /\ (~halfway \/ (at = "apply" /\ C!OnFeature)) =>
       planVars.connections >= planVars.api * Users
  /\ C!Exists(planVars) /\ planVars.feature
       /\ ((~halfway /\ ~C!OnFeature) \/ (at = "apply" /\ C!OnFeature)) => answered.services = C!Services
  /\ at \in {"sizes", "rabbit", "vars", "featureVars"} => "core" \in answered.services
  /\ at \in {"sizes", "featureVars"} /\ order.kind = "enable" => answered.services = C!Services

\* What is about to be applied has the answers of the command that applies it.
ServesAnswers ==
  /\ order.kind = "bootstrap" /\ at \notin {"manifest", "proxy"} => answered.proxy = order.proxy
  /\ order.kind = "bootstrap" /\ at \in {"services", "sizes", "rabbit", "vars", "apply"} =>
       answered.model = order.proxy
  /\ at = "apply" /\ C!Deploys =>
       /\ planVars.proxy = answered.model
       /\ answered.endpoints = {} => planVars.endpoints = {}
       /\ answered.endpoints # C!Unanswered => answered.endpoints \subseteq planVars.endpoints

\* The inductive invariant.
ControlPlaneInv == OrderInv /\ RowInv /\ VarInv /\ AskedOnce /\ SizesKept /\ CharmsKept /\ FeatureKept /\ ServesAnswers

VarNames == {"database", "region", "mysql", "rabbit", "rabbitComputed", "endpoints", "proxy", "api",
           "ha", "ingress", "connections", "ceph", "infra", "feature"}

LEMMA GivenFields ==
  /\ Plain.database = "single" /\ Plain.region = "r1" /\ Plain.mysql = "none"
  /\ Plain.rabbit = "none" /\ Plain.infra = 1
  /\ Other.database = "multi" /\ Other.region = "r2" /\ Other.mysql = "40G"
  /\ Other.rabbit = "8G" /\ Other.infra = 1
  /\ Newer.database = "single" /\ Newer.region = "r1" /\ Newer.mysql = "none"
  /\ Newer.rabbit = "none" /\ Newer.infra = 2
<1>1. /\ Plain.database = "single" /\ Plain.region = "r1" /\ Plain.mysql = "none"
      /\ Plain.rabbit = "none" /\ Plain.infra = 1
  BY DEF Plain
<1>2. Other.database = "multi" /\ Other.region = "r2" /\ Other.infra = 1
  BY DEF Plain, Other
<1>3. Other.mysql = "40G"
  BY DEF Plain, Other
<1>4. Other.rabbit = "8G"
  BY DEF Plain, Other
<1>5. Newer.database = "single" /\ Newer.region = "r1" /\ Newer.mysql = "none"
  BY DEF Plain, Newer
<1>6. Newer.rabbit = "none" /\ Newer.infra = 2
  BY DEF Plain, Newer
<1> QED
  BY <1>1, <1>2, <1>3, <1>4, <1>5, <1>6

LEMMA ManifestFields ==
  ASSUME NEW m, IsManifest(m)
  PROVE  /\ m.database \in {"single", "multi"} /\ m.region \in {"r1", "r2"}
         /\ m.mysql \in {"none", "40G"} /\ m.rabbit \in {"none", "8G"} /\ m.infra \in {1, 2}
BY GivenFields DEF IsManifest

LEMMA FreshNames == DOMAIN C!FreshVars = VarNames
BY DEF C!FreshVars, VarNames

LEMMA GivenSets ==
  /\ {"none", "20G"} \cup {m.mysql : m \in {Plain, Other, Newer}} = {"none", "20G", "40G"}
  /\ {"none", "4G"} \cup {m.rabbit : m \in {Plain, Other, Newer}} = {"none", "4G", "8G"}
  /\ {m.infra : m \in {Plain, Other, Newer} \cup {Plain}} = {1, 2}
<1>1. {"none", "20G"} \cup {m.mysql : m \in {Plain, Other, Newer}} = {"none", "20G", "40G"}
  BY GivenFields
<1>2. {"none", "4G"} \cup {m.rabbit : m \in {Plain, Other, Newer}} = {"none", "4G", "8G"}
  BY GivenFields
<1>3. {m.infra : m \in {Plain, Other, Newer} \cup {Plain}} = {1, 2}
  BY GivenFields
<1> QED
  BY <1>1, <1>2, <1>3

LEMMA PlanFields ==
  ASSUME NEW v \in C!PlanVars
  PROVE  /\ DOMAIN v = VarNames /\ C!Exists(v)
         /\ v.database \in {"single", "multi"} /\ v.region \in {"none", "r1", "r2"}
         /\ v.mysql \in {"none", "20G", "40G"} /\ v.rabbit \in {"none", "4G", "8G"}
         /\ v.rabbitComputed \in BOOLEAN /\ v.endpoints \subseteq C!EndpointKeys /\ v.proxy \in BOOLEAN
         /\ v.api \in 1..7 /\ v.ha \in {1, 3} /\ v.ingress \in 1..3 /\ v.connections \in Nat
         /\ v.ceph \in BOOLEAN /\ v.infra \in {1, 2} /\ v.feature \in BOOLEAN
<1>1. DOMAIN v = VarNames
  BY DEF C!PlanVars, VarNames
<1>2. v.database \in {"single", "multi"}
  BY DEF C!PlanVars
<1>3. C!Exists(v)
  BY <1>2 DEF C!Exists, C!NoVars, C!None
<1>4. /\ v.region \in {"none", "r1", "r2"} /\ v.rabbitComputed \in BOOLEAN 
  BY DEF C!PlanVars, C!None
<1>5. v.mysql \in {"none", "20G", "40G"}
  <2>1. v.mysql \in {"none", "20G"} \cup {m.mysql : m \in {Plain, Other, Newer}}
    BY DEF C!PlanVars
  <2> QED
    BY <2>1, GivenSets
<1>6. v.rabbit \in {"none", "4G", "8G"}
  <2>1. v.rabbit \in {"none", "4G"} \cup {m.rabbit : m \in {Plain, Other, Newer}}
    BY DEF C!PlanVars
  <2> QED
    BY <2>1, GivenSets
<1>7. v.infra \in {1, 2}
  <2>1. v.infra \in {m.infra : m \in {Plain, Other, Newer} \cup {Plain}}
    BY DEF C!PlanVars
  <2> QED
    BY <2>1, GivenSets
<1>8.  /\ v.endpoints \subseteq C!EndpointKeys /\ v.proxy \in BOOLEAN
         /\ v.api \in 1..7 /\ v.ha \in {1, 3} /\ v.ingress \in 1..3 /\ v.connections \in Nat
         /\ v.ceph \in BOOLEAN /\ v.feature \in BOOLEAN
  BY DEF C!PlanVars
<1> QED
  BY <1>1, <1>2, <1>3, <1>4, <1>5, <1>6, <1>7, <1>8

LEMMA PlanMade ==
  ASSUME NEW v, v = [k \in VarNames |-> v[k]],
         /\ v.database \in {"single", "multi"} /\ v.region \in {"none", "r1", "r2"}
         /\ v.mysql \in {"none", "20G", "40G"} /\ v.rabbit \in {"none", "4G", "8G"}
         /\ v.rabbitComputed \in BOOLEAN /\ v.endpoints \subseteq C!EndpointKeys /\ v.proxy \in BOOLEAN
         /\ v.api \in 1..7 /\ v.ha \in {1, 3} /\ v.ingress \in 1..3 /\ v.connections \in Nat
         /\ v.ceph \in BOOLEAN /\ v.infra \in {1, 2} /\ v.feature \in BOOLEAN
  PROVE  v \in C!PlanVars
<1> QED
  BY GivenSets DEF C!PlanVars, C!None, VarNames

LEMMA VarsLoaded ==
  ASSUME VarInv, NEW m, IsManifest(m), NEW g, g = C!_get_tfvars(m)
  PROVE  /\ g.infra = m.infra
         /\ C!Exists(planVars) =>
                 /\ planVars \in C!PlanVars
                 /\ g.database = planVars.database /\ g.region = planVars.region
                 /\ g.endpoints = planVars.endpoints /\ g.proxy = planVars.proxy
                 /\ g.api = planVars.api /\ g.ha = planVars.ha /\ g.ingress = planVars.ingress
                 /\ g.connections = planVars.connections /\ g.ceph = planVars.ceph
                 /\ g.feature = planVars.feature /\ g.rabbitComputed = planVars.rabbitComputed
                 /\ g.mysql = (IF m.mysql # "none" THEN m.mysql ELSE planVars.mysql)
                 /\ g.rabbit = IF m.rabbit # "none" THEN m.rabbit
                               ELSE IF planVars.rabbitComputed THEN planVars.rabbit ELSE "none"
         /\ ~C!Exists(planVars) =>
                 g.rabbit = m.rabbit /\ g.rabbitComputed = FALSE /\ g.feature = FALSE
<1>1. CASE C!Exists(planVars)
  <2>1. planVars \in C!PlanVars
    BY <1>1 DEF VarInv, C!Exists
  <2>2. DOMAIN planVars = VarNames
    BY <2>1, PlanFields
  <2> DEFINE l == [planVars EXCEPT !.rabbit = IF planVars.rabbitComputed THEN @ ELSE "none"]
  <2>3. C!_load_and_filter_db_tfvars = l
    BY <1>1 DEF C!_load_and_filter_db_tfvars
  <2>4. /\ DOMAIN l = VarNames /\ l.rabbit = IF planVars.rabbitComputed THEN planVars.rabbit ELSE "none"
        /\ \A k \in VarNames \ {"rabbit"} : l[k] = planVars[k]
    BY <2>2 DEF VarNames
  <2>5. g = [l EXCEPT !.infra = m.infra, !.mysql = IF m.mysql # "none" THEN m.mysql ELSE @,
                      !.rabbit = IF m.rabbit # "none" THEN m.rabbit ELSE @]
    BY <2>3 DEF C!_get_tfvars
  <2> HIDE DEF l
  <2>6. g.infra = m.infra
    BY <2>4, <2>5 DEF VarNames
  <2>7. g.mysql = (IF m.mysql # "none" THEN m.mysql ELSE planVars.mysql)
    BY <2>4, <2>5 DEF VarNames
  <2>8. g.rabbit = IF m.rabbit # "none" THEN m.rabbit
                   ELSE IF planVars.rabbitComputed THEN planVars.rabbit ELSE "none"
    BY <2>4, <2>5 DEF VarNames
  <2>9. \A k \in VarNames \ {"infra", "mysql", "rabbit"} : g[k] = planVars[k]
    BY <2>4, <2>5 DEF VarNames
  <2>10. g.rabbitComputed = planVars.rabbitComputed
    BY <2>9 DEF VarNames
  <2>11. /\ g.database = planVars.database /\ g.region = planVars.region
         /\ g.endpoints = planVars.endpoints /\ g.proxy = planVars.proxy
         /\ g.api = planVars.api /\ g.ha = planVars.ha /\ g.ingress = planVars.ingress
         /\ g.connections = planVars.connections /\ g.ceph = planVars.ceph
         /\ g.feature = planVars.feature
    BY <2>9 DEF VarNames
  <2> QED
    BY <1>1, <2>1, <2>6, <2>7, <2>8, <2>10, <2>11
<1>2. CASE ~C!Exists(planVars)
  <2>1. g = [C!FreshVars EXCEPT !.infra = m.infra, !.mysql = IF m.mysql # "none" THEN m.mysql ELSE @,
                                !.rabbit = IF m.rabbit # "none" THEN m.rabbit ELSE @]
    BY <1>2 DEF C!_get_tfvars, C!_load_and_filter_db_tfvars
  <2>2. C!FreshVars.rabbit = "none" /\ C!FreshVars.rabbitComputed = FALSE /\ C!FreshVars.feature = FALSE
    BY DEF C!FreshVars
  <2>3. g.infra = m.infra
    BY <2>1, FreshNames DEF VarNames
  <2>4. g.rabbit = m.rabbit
    BY <2>1, <2>2, FreshNames DEF VarNames
  <2>5. g.rabbitComputed = FALSE /\ g.feature = FALSE
    BY <2>1, <2>2, FreshNames DEF VarNames
  <2> QED
    BY <1>2, <2>3, <2>4, <2>5
<1> QED
  BY <1>1, <1>2

LEMMA VarsUpdated ==
  ASSUME NEW m, NEW override, NEW v, v = C!update_tfvars(m, override)
  PROVE  /\ v = [k \in VarNames |-> v[k]]
         /\ \A k \in VarNames : v[k] = IF k \in DOMAIN override THEN override[k]
                                                 ELSE C!_get_tfvars(m)[k]
BY FreshNames DEF C!update_tfvars

Keeping(v, names) == \A k \in names : v[k] = planVars[k]

LEMMA ReapplyStored ==
  ASSUME RowInv, VarInv, C!Exists(planVars), IsManifest(order.manifest), NEW step, NEW next,
         C!Store(step, [ceph |-> osdNodes > 0], next)
  PROVE  /\ planVars' \in C!PlanVars
         /\ Keeping(planVars', {"database", "region", "endpoints", "proxy", "api", "ha", "ingress",
                               "connections", "feature", "rabbitComputed"})
         /\ planVars'.infra = order.manifest.infra
<1> DEFINE m == order.manifest  g == C!_get_tfvars(m)
<1>1. /\ planVars' = [k \in VarNames |-> planVars'[k]]
      /\ \A k \in VarNames \ {"ceph"} : planVars'[k] = g[k]
      /\ planVars'["ceph"] = (osdNodes > 0)
  <2>1. planVars' = C!update_tfvars(m, [ceph |-> osdNodes > 0])
    BY DEF C!Store
  <2> QED
    BY <2>1, VarsUpdated DEF VarNames
<1>2. /\ planVars \in C!PlanVars
      /\ Keeping(g, {"database", "region", "endpoints", "proxy", "api", "ha", "ingress",
                     "connections", "ceph", "feature", "rabbitComputed"})
      /\ g.infra = m.infra /\ g.mysql \in {m.mysql, planVars.mysql}
      /\ g.rabbit \in {m.rabbit, planVars.rabbit, "none"}
  BY VarsLoaded DEF Keeping
<1> HIDE DEF g
<1>3. (osdNodes > 0) \in BOOLEAN
  OBVIOUS
<1>4. planVars' \in C!PlanVars
  <2>1. /\ planVars'.infra \in {1, 2} /\ planVars'.mysql \in {"none", "20G", "40G"}
        /\ planVars'.rabbit \in {"none", "4G", "8G"} /\ planVars'.ceph \in BOOLEAN
    <3>1. planVars'.infra = g.infra /\ planVars'.mysql = g.mysql /\ planVars'.rabbit = g.rabbit
          /\ planVars'.ceph = (osdNodes > 0)
      BY <1>1 DEF VarNames
    <3>2. planVars'.infra \in {1, 2}
      BY <3>1, <1>2, ManifestFields
    <3>3. planVars'.mysql \in {"none", "20G", "40G"}
      BY <3>1, <1>2, PlanFields, ManifestFields
    <3>4. planVars'.rabbit \in {"none", "4G", "8G"}
      BY <3>1, <1>2, PlanFields, ManifestFields
    <3> QED
      BY <3>1, <3>2, <3>3, <3>4, <1>3
  <2>2. Keeping(planVars', {"database", "region", "endpoints", "proxy", "api", "ha", "ingress",
                     "connections", "feature", "rabbitComputed"})
    BY <1>1, <1>2 DEF Keeping, VarNames
  <2>3. /\ planVars'.database \in {"single", "multi"} /\ planVars'.region \in {"none", "r1", "r2"}
        /\ planVars'.rabbitComputed \in BOOLEAN /\ planVars'.endpoints \subseteq C!EndpointKeys
        /\ planVars'.proxy \in BOOLEAN /\ planVars'.api \in 1..7 /\ planVars'.ha \in {1, 3}
        /\ planVars'.ingress \in 1..3 /\ planVars'.connections \in Nat /\ planVars'.feature \in BOOLEAN
    BY <2>2, <1>2, PlanFields DEF Keeping
  <2> QED
    BY ONLY <1>1, <2>1, <2>3, PlanMade
<1> QED
  BY <1>1, <1>2, <1>4 DEF Keeping, VarNames

BaseNames == {"database", "region", "mysql", "proxy", "api", "ha", "ingress", "connections", "endpoints", "ceph"}

LEMMA SiteTypes ==
  ASSUME RowInv
  PROVE  nodes \in Nat \ {0} /\ osdNodes \in Nat
BY OpenStackAssumption DEF RowInv

LEMMA ScalesBounded ==
  ASSUME RowInv, NEW topology
  PROVE  /\ C!compute_os_api_scale(topology, nodes) \in 1..7
         /\ C!compute_ha_scale(topology, nodes) \in {1, 3}
         /\ C!compute_ingress_scale(topology, nodes) \in 1..3
<1> USE SiteTypes
<1>1. C!compute_os_api_scale(topology, nodes) \in 1..7
  BY DEF C!compute_os_api_scale, C!AtMost
<1>2. C!compute_ha_scale(topology, nodes) \in {1, 3}
  BY DEF C!compute_ha_scale
<1>3. C!compute_ingress_scale(topology, nodes) \in 1..3
  BY DEF C!compute_ingress_scale, C!AtMost
<1> QED
  BY <1>1, <1>2, <1>3

LEMMA ServicesCounted ==
  ASSUME NEW S \in SUBSET C!Services
  PROVE  /\ Cardinality(S) \in 0..2
         /\ "core" \in S => Cardinality(S) >= 1
         /\ S = C!Services => Cardinality(S) = 2
<1>1. S \in {{}, {"core"}, {"feature"}, {"core", "feature"}}
  BY DEF C!Services
<1>2. Cardinality({}) = 0
  BY FS_EmptySet
<1>3. Cardinality({"core"}) = 1 /\ Cardinality({"feature"}) = 1
  BY FS_Singleton
<1>4. Cardinality({"core", "feature"}) = 2
  <2>1. IsFiniteSet({"core"})
    BY FS_Singleton
  <2>2. Cardinality({"core"} \cup {"feature"}) = Cardinality({"core"}) + 1
    BY <2>1, FS_AddElement
  <2>3. {"core"} \cup {"feature"} = {"core", "feature"}
    OBVIOUS
  <2> QED
    BY <2>2, <2>3, <1>3
<1>5. C!Services = {"core", "feature"} /\ "core" # "feature"
  BY DEF C!Services
<1>6. CASE S = {}
  BY <1>2, <1>5, <1>6
<1>7. CASE S = {"core"}
  BY <1>3, <1>5, <1>7
<1>8. CASE S = {"feature"}
  BY <1>3, <1>5, <1>8
<1>9. CASE S = {"core", "feature"}
  BY <1>4, <1>5, <1>9
<1> QED
  BY <1>1, <1>6, <1>7, <1>8, <1>9

LEMMA SameCardinality ==
  ASSUME NEW S
  PROVE  C!Cardinality(S) = Cardinality(S)
BY Zenon DEF C!Cardinality, Cardinality

LEMMA ConnectionsCount ==
  ASSUME RowInv, NEW api \in Nat
  PROVE  /\ C!get_database_resource_tfvars(answered.services, api) \in Nat
         /\ "core" \in answered.services =>
               C!get_database_resource_tfvars(answered.services, api) >= api
         /\ answered.services = C!Services =>
               C!get_database_resource_tfvars(answered.services, api) >= api * 2
<1>1. osdNodes \in Nat
  BY SiteTypes
<1>2. answered.services \in SUBSET C!Services
  BY DEF RowInv
<1> DEFINE n == Cardinality(answered.services)
<1>3. n \in 0..2 /\ ("core" \in answered.services => n >= 1)
      /\ (answered.services = C!Services => n = 2)
  BY <1>2, ServicesCounted
<1>4. C!get_database_resource_tfvars(answered.services, api) = n * api + osdNodes
  BY SameCardinality, Zenon DEF C!get_database_resource_tfvars
<1> HIDE DEF n
<1>5. n \in {0, 1, 2}
  BY <1>3
<1>6. 0 * api = 0 /\ 1 * api = api /\ 2 * api = api + api /\ api * 2 = api + api
  OBVIOUS
<1> QED
  BY <1>1, <1>3, <1>4, <1>5, <1>6

LEMMA DeployFields ==
  ASSUME NEW o, o = C!DeployTfvars, NEW r, r = C!get_rabbitmq_storage(order.manifest),
         NEW api, api = C!compute_os_api_scale(answered.topology, nodes)
  PROVE  /\ DOMAIN o = IF r = "none" THEN BaseNames ELSE BaseNames \cup {"rabbit", "rabbitComputed"}
         /\ o["database"] = answered.database /\ o["region"] = answered.region
         /\ o["mysql"] = answered.mysql /\ o["proxy"] = answered.model /\ o["api"] = api
         /\ o["ha"] = C!compute_ha_scale(answered.topology, nodes)
         /\ o["ingress"] = C!compute_ingress_scale(answered.topology, nodes)
         /\ o["connections"] = C!get_database_resource_tfvars(answered.services, api)
         /\ o["endpoints"] = C!get_endpoints_tfvars(C!_load_and_filter_db_tfvars.endpoints)
         /\ o["ceph"] = (osdNodes > 0)
         /\ r # "none" => o["rabbit"] = r /\ o["rabbitComputed"] = TRUE
<1> DEFINE base ==
       [database |-> answered.database, region |-> answered.region,
                 mysql |-> answered.mysql, proxy |-> answered.model, api |-> api,
                 ha |-> C!compute_ha_scale(answered.topology, nodes),
                 ingress |-> C!compute_ingress_scale(answered.topology, nodes),
                 connections |-> C!get_database_resource_tfvars(answered.services, api),
                 endpoints |-> C!get_endpoints_tfvars(C!_load_and_filter_db_tfvars.endpoints),
                 ceph |-> osdNodes > 0]
<1>1. DOMAIN base = BaseNames
  BY DEF BaseNames
<1>2. /\ base["database"] = answered.database /\ base["region"] = answered.region
      /\ base["mysql"] = answered.mysql /\ base["proxy"] = answered.model /\ base["api"] = api
      /\ base["ha"] = C!compute_ha_scale(answered.topology, nodes)
      /\ base["ingress"] = C!compute_ingress_scale(answered.topology, nodes)
      /\ base["connections"] = C!get_database_resource_tfvars(answered.services, api)
      /\ base["endpoints"] = C!get_endpoints_tfvars(C!_load_and_filter_db_tfvars.endpoints)
      /\ base["ceph"] = (osdNodes > 0)
  OBVIOUS
<1>3. o = IF r = "none" THEN base
          ELSE [k \in DOMAIN base \cup {"rabbit", "rabbitComputed"} |->
                    CASE k = "rabbit" -> r
                      [] k = "rabbitComputed" -> TRUE
                      [] OTHER -> base[k]]
  BY DEF C!DeployTfvars
<1> HIDE DEF base
<1>4. CASE r = "none"
  BY <1>1, <1>2, <1>3, <1>4
<1>5. CASE r # "none"
  <2>1. /\ DOMAIN o = BaseNames \cup {"rabbit", "rabbitComputed"}
        /\ o["rabbit"] = r /\ o["rabbitComputed"] = TRUE
        /\ \A k \in BaseNames : o[k] = base[k]
    BY <1>1, <1>3, <1>5 DEF BaseNames
  <2> QED
    BY <1>2, <1>5, <2>1 DEF BaseNames
<1> QED
  BY <1>4, <1>5

\* What a deployment stores.
LEMMA DeployStored ==
  ASSUME RowInv, VarInv, IsManifest(order.manifest),
         answered.database # "none", answered.region # "none",
         C!Exists(planVars) \/ answered.rabbit # "none",
         C!DeployControlPlaneStep
  PROVE  /\ planVars' \in C!PlanVars
         /\ planVars'.database = answered.database /\ planVars'.region = answered.region
         /\ planVars'.mysql = answered.mysql /\ planVars'.proxy = answered.model
         /\ planVars'.infra = order.manifest.infra
         /\ planVars'.api \in 1..7
         /\ planVars'.connections = C!get_database_resource_tfvars(answered.services, planVars'.api)
         /\ planVars'.feature = (C!Exists(planVars) /\ planVars.feature)
         /\ planVars'.endpoints = C!get_endpoints_tfvars(C!_load_and_filter_db_tfvars.endpoints)
         /\ IF answered.rabbit # "none"
            THEN planVars'.rabbit = answered.rabbit /\ planVars'.rabbitComputed = TRUE
            ELSE /\ planVars'.rabbitComputed = planVars.rabbitComputed
                 /\ planVars'.rabbit = IF order.manifest.rabbit # "none" THEN order.manifest.rabbit
                                       ELSE IF planVars.rabbitComputed THEN planVars.rabbit ELSE "none"
<1> DEFINE m == order.manifest  g == C!_get_tfvars(m)  o == C!DeployTfvars
           r == C!get_rabbitmq_storage(m)  api == C!compute_os_api_scale(answered.topology, nodes)
<1>1. r = answered.rabbit
  BY DEF C!get_rabbitmq_storage
<1>2. planVars' = C!update_tfvars(m, o)
  BY DEF C!DeployControlPlaneStep, C!Store
<1>3. /\ planVars' = [k \in VarNames |-> planVars'[k]]
      /\ \A k \in VarNames : planVars'[k] = IF k \in DOMAIN o THEN o[k] ELSE g[k]
  BY <1>2, VarsUpdated
<1>4. /\ DOMAIN o = IF r = "none" THEN BaseNames ELSE BaseNames \cup {"rabbit", "rabbitComputed"}
      /\ o["database"] = answered.database /\ o["region"] = answered.region
      /\ o["mysql"] = answered.mysql /\ o["proxy"] = answered.model /\ o["api"] = api
      /\ o["ha"] = C!compute_ha_scale(answered.topology, nodes)
      /\ o["ingress"] = C!compute_ingress_scale(answered.topology, nodes)
      /\ o["connections"] = C!get_database_resource_tfvars(answered.services, api)
      /\ o["endpoints"] = C!get_endpoints_tfvars(C!_load_and_filter_db_tfvars.endpoints)
      /\ o["ceph"] = (osdNodes > 0)
      /\ r # "none" => o["rabbit"] = r /\ o["rabbitComputed"] = TRUE
  BY DeployFields
<1>5. /\ g.infra = m.infra
      /\ C!Exists(planVars) =>
            /\ planVars \in C!PlanVars
            /\ g.feature = planVars.feature /\ g.rabbitComputed = planVars.rabbitComputed
            /\ g.rabbit = IF m.rabbit # "none" THEN m.rabbit
                          ELSE IF planVars.rabbitComputed THEN planVars.rabbit ELSE "none"
      /\ ~C!Exists(planVars) =>
            g.rabbit = m.rabbit /\ g.rabbitComputed = FALSE /\ g.feature = FALSE
  <2>1. C!Exists(planVars) => planVars \in C!PlanVars
    BY DEF VarInv, C!Exists
  <2>2. g.infra = m.infra
    BY VarsLoaded
  <2>3. ASSUME C!Exists(planVars)
        PROVE  /\ g.feature = planVars.feature /\ g.rabbitComputed = planVars.rabbitComputed
               /\ g.rabbit = IF m.rabbit # "none" THEN m.rabbit
                             ELSE IF planVars.rabbitComputed THEN planVars.rabbit ELSE "none"
    BY <2>3, VarsLoaded
  <2>4. ASSUME ~C!Exists(planVars)
        PROVE  g.rabbit = m.rabbit /\ g.rabbitComputed = FALSE /\ g.feature = FALSE
    BY <2>4, VarsLoaded
  <2> QED
    BY <2>1, <2>2, <2>3, <2>4
<1>6. C!get_endpoints_tfvars(C!_load_and_filter_db_tfvars.endpoints) \subseteq C!EndpointKeys
  <2>1. C!_load_and_filter_db_tfvars.endpoints \subseteq C!EndpointKeys
    <3>1. CASE C!Exists(planVars)
      <4>1. planVars \in C!PlanVars /\ DOMAIN planVars = VarNames
        BY <1>5, <3>1, PlanFields
      <4>2. C!_load_and_filter_db_tfvars.endpoints = planVars.endpoints
        BY <3>1, <4>1 DEF C!_load_and_filter_db_tfvars, VarNames
      <4> QED
        BY <4>1, <4>2, PlanFields
    <3>2. CASE ~C!Exists(planVars)
      <4>1. C!FreshVars.endpoints = {}
        BY DEF C!FreshVars
      <4> QED
        BY <3>2, <4>1 DEF C!_load_and_filter_db_tfvars
    <3> QED
      BY <3>1, <3>2
  <2>2. answered.endpoints \in (SUBSET C!EndpointKeys) \cup {C!Unanswered}
    BY DEF RowInv
  <2> DEFINE before == C!_load_and_filter_db_tfvars.endpoints
  <2>3. C!get_endpoints_tfvars(before) =
          CASE answered.endpoints = C!Unanswered -> before
            [] answered.endpoints = {} -> {}
            [] OTHER -> before \cup answered.endpoints
    BY DEF C!get_endpoints_tfvars
  <2> HIDE DEF before
  <2>4. C!get_endpoints_tfvars(before) \subseteq C!EndpointKeys
    <3>1. CASE answered.endpoints = C!Unanswered
      <4>1. C!Unanswered # {}
        BY DEF C!Unanswered
      <4> QED
        BY <2>1, <2>3, <3>1, <4>1 DEF before
    <3>2. CASE answered.endpoints = {}
      <4>1. C!Unanswered # {}
        BY DEF C!Unanswered
      <4> QED
        BY <2>3, <3>2, <4>1
    <3>3. CASE answered.endpoints # C!Unanswered /\ answered.endpoints # {}
      BY <2>1, <2>2, <2>3, <3>3 DEF before
    <3> QED
      BY <3>1, <3>2, <3>3
  <2> QED
    BY <2>4 DEF before
<1>7. api \in 1..7 /\ o["ha"] \in {1, 3} /\ o["ingress"] \in 1..3
  BY <1>4, ScalesBounded
<1>8. C!get_database_resource_tfvars(answered.services, api) \in Nat
  BY <1>7, ConnectionsCount
<1>9. answered.database \in {"single", "multi"} /\ answered.region \in {"none", "r1", "r2"}
      /\ answered.mysql \in {"none", "20G", "40G"} /\ answered.rabbit \in {"none", "4G", "8G"}
      /\ answered.model \in BOOLEAN
  BY DEF RowInv
<1> HIDE DEF g, o, r, api
<1>10. /\ planVars'.database = answered.database /\ planVars'.region = answered.region
       /\ planVars'.mysql = answered.mysql /\ planVars'.proxy = answered.model
       /\ planVars'.api = api /\ planVars'.ha = o["ha"] /\ planVars'.ingress = o["ingress"]
       /\ planVars'.connections = C!get_database_resource_tfvars(answered.services, api)
       /\ planVars'.endpoints = C!get_endpoints_tfvars(C!_load_and_filter_db_tfvars.endpoints)
       /\ planVars'.ceph = (osdNodes > 0)
  BY <1>3, <1>4 DEF BaseNames, VarNames
<1>11. planVars'.infra = g.infra /\ planVars'.feature = g.feature
  BY <1>3, <1>4 DEF BaseNames, VarNames
<1>12. /\ r = "none" => planVars'.rabbit = g.rabbit /\ planVars'.rabbitComputed = g.rabbitComputed
       /\ r # "none" => planVars'.rabbit = r /\ planVars'.rabbitComputed = TRUE
  BY <1>3, <1>4 DEF BaseNames, VarNames
<1>13. planVars'.infra = m.infra /\ planVars'.feature = (C!Exists(planVars) /\ planVars.feature)
  BY <1>5, <1>11, PlanFields
<1>14. IF answered.rabbit # "none"
       THEN planVars'.rabbit = answered.rabbit /\ planVars'.rabbitComputed = TRUE
       ELSE /\ planVars'.rabbitComputed = planVars.rabbitComputed
            /\ planVars'.rabbit = IF order.manifest.rabbit # "none" THEN order.manifest.rabbit
                                  ELSE IF planVars.rabbitComputed THEN planVars.rabbit ELSE "none"
  BY <1>1, <1>5, <1>12
<1>15. planVars' \in C!PlanVars
  <2>1. /\ planVars'.database \in {"single", "multi"} /\ planVars'.region \in {"none", "r1", "r2"}
        /\ planVars'.mysql \in {"none", "20G", "40G"} /\ planVars'.proxy \in BOOLEAN
        /\ planVars'.api \in 1..7 /\ planVars'.ha \in {1, 3} /\ planVars'.ingress \in 1..3
    BY <1>7, <1>9, <1>10
  <2>2. planVars'.connections \in Nat /\ planVars'.endpoints \subseteq C!EndpointKeys
        /\ planVars'.ceph \in BOOLEAN
    BY <1>6, <1>8, <1>10
  <2>3. planVars'.infra \in {1, 2}
    BY <1>13, ManifestFields
  <2>4. planVars'.feature \in BOOLEAN
    BY <1>13
  <2>5. planVars'.rabbit \in {"none", "4G", "8G"}
    BY <1>5, <1>9, <1>14, ManifestFields, PlanFields
  <2>6. planVars'.rabbitComputed \in BOOLEAN
    BY <1>5, <1>14, PlanFields
  <2> QED
    BY ONLY <1>3, <2>1, <2>2, <2>3, <2>4, <2>5, <2>6, PlanMade
<1> QED
  BY <1>7, <1>10, <1>13, <1>14, <1>15

\* What a step stores that gives its own variables o and keeps the others.
LEMMA StoredOver ==
  ASSUME RowInv, VarInv, C!Exists(planVars), IsManifest(order.manifest), NEW o,
         DOMAIN o \subseteq {"feature", "mysql", "connections", "proxy"},
         planVars' = C!update_tfvars(order.manifest, o)
  PROVE  /\ planVars' = [k \in VarNames |-> planVars'[k]]
         /\ \A k \in DOMAIN o : planVars'[k] = o[k]
         /\ Keeping(planVars', {"database", "region", "endpoints", "api", "ha", "ingress",
                                "ceph", "rabbitComputed"})
         /\ "proxy" \notin DOMAIN o => planVars'.proxy = planVars.proxy
         /\ "feature" \notin DOMAIN o => planVars'.feature = planVars.feature
         /\ "connections" \notin DOMAIN o => planVars'.connections = planVars.connections
         /\ "mysql" \notin DOMAIN o => planVars'.mysql \in {"none", "20G", "40G"}
         /\ planVars'.infra = order.manifest.infra
         /\ planVars'.rabbit = IF order.manifest.rabbit # "none" THEN order.manifest.rabbit
                               ELSE IF planVars.rabbitComputed THEN planVars.rabbit ELSE "none"
<1> DEFINE m == order.manifest  g == C!_get_tfvars(m)
<1>1. /\ planVars' = [k \in VarNames |-> planVars'[k]]
      /\ \A k \in VarNames : planVars'[k] = IF k \in DOMAIN o THEN o[k] ELSE g[k]
  BY VarsUpdated
<1>2. /\ planVars \in C!PlanVars
      /\ Keeping(g, {"database", "region", "endpoints", "proxy", "api", "ha", "ingress",
                     "connections", "ceph", "feature", "rabbitComputed"})
      /\ g.infra = m.infra /\ g.mysql \in {m.mysql, planVars.mysql}
  BY VarsLoaded DEF Keeping
<1>3. g.rabbit = IF m.rabbit # "none" THEN m.rabbit
                 ELSE IF planVars.rabbitComputed THEN planVars.rabbit ELSE "none"
  BY VarsLoaded
<1> HIDE DEF g
<1>4. \A k \in DOMAIN o : planVars'[k] = o[k]
  BY <1>1 DEF VarNames
<1>5. Keeping(planVars', {"database", "region", "endpoints", "api", "ha", "ingress",
                          "ceph", "rabbitComputed"})
  BY <1>1, <1>2 DEF Keeping, VarNames
<1>6. /\ "proxy" \notin DOMAIN o => planVars'.proxy = planVars.proxy
      /\ "feature" \notin DOMAIN o => planVars'.feature = planVars.feature
      /\ "connections" \notin DOMAIN o => planVars'.connections = planVars.connections
  BY <1>1, <1>2 DEF Keeping, VarNames
<1>7. "mysql" \notin DOMAIN o => planVars'.mysql \in {"none", "20G", "40G"}
  <2>1. g.mysql \in {"none", "20G", "40G"}
    BY <1>2, PlanFields, ManifestFields
  <2> QED
    BY <2>1, <1>1 DEF VarNames
<1>8. planVars'.infra = m.infra /\ planVars'.rabbit = g.rabbit
  BY <1>1, <1>2 DEF VarNames
<1> QED
  BY <1>1, <1>3, <1>4, <1>5, <1>6, <1>7, <1>8

LEMMA StoredTyped ==
  ASSUME RowInv, VarInv, C!Exists(planVars), IsManifest(order.manifest), NEW o,
         DOMAIN o \subseteq {"feature", "mysql", "connections", "proxy"},
         planVars' = C!update_tfvars(order.manifest, o),
         "proxy" \in DOMAIN o => o["proxy"] \in BOOLEAN,
         "feature" \in DOMAIN o => o["feature"] \in BOOLEAN,
         "connections" \in DOMAIN o => o["connections"] \in Nat,
         "mysql" \in DOMAIN o => o["mysql"] \in {"none", "20G", "40G"}
  PROVE  planVars' \in C!PlanVars
<1>1. planVars \in C!PlanVars
  BY DEF VarInv, C!Exists
<1>2. planVars' = [k \in VarNames |-> planVars'[k]]
  BY StoredOver
<1>10. \A k \in DOMAIN o : planVars'[k] = o[k]
  BY StoredOver
<1>3. /\ planVars'.database \in {"single", "multi"} /\ planVars'.region \in {"none", "r1", "r2"}
      /\ planVars'.rabbitComputed \in BOOLEAN /\ planVars'.endpoints \subseteq C!EndpointKeys
      /\ planVars'.api \in 1..7 /\ planVars'.ha \in {1, 3}
      /\ planVars'.ingress \in 1..3 /\ planVars'.ceph \in BOOLEAN
  <2>1. Keeping(planVars', {"database", "region", "endpoints", "api", "ha", "ingress",
                            "ceph", "rabbitComputed"})
    BY StoredOver
  <2> QED
    BY <1>1, <2>1, PlanFields DEF Keeping
<1>4. planVars'.mysql \in {"none", "20G", "40G"}
  BY StoredOver
<1>5. planVars'.proxy \in BOOLEAN
  <2>1. planVars.proxy \in BOOLEAN
    BY <1>1, PlanFields
  <2>2. CASE "proxy" \in DOMAIN o
    <3>1. planVars'["proxy"] = o["proxy"]
      BY <2>2, <1>10
    <3> QED
      BY <2>2, <3>1
  <2>3. CASE "proxy" \notin DOMAIN o
    BY <2>1, <2>3, StoredOver
  <2> QED
    BY <2>2, <2>3
<1>6. planVars'.feature \in BOOLEAN
  <2>1. planVars.feature \in BOOLEAN
    BY <1>1, PlanFields
  <2>2. CASE "feature" \in DOMAIN o
    <3>1. planVars'["feature"] = o["feature"]
      BY <2>2, <1>10
    <3> QED
      BY <2>2, <3>1
  <2>3. CASE "feature" \notin DOMAIN o
    BY <2>1, <2>3, StoredOver
  <2> QED
    BY <2>2, <2>3
<1>7. planVars'.connections \in Nat
  <2>1. planVars.connections \in Nat
    BY <1>1, PlanFields
  <2>2. CASE "connections" \in DOMAIN o
    <3>1. planVars'["connections"] = o["connections"]
      BY <2>2, <1>10
    <3> QED
      BY <2>2, <3>1
  <2>3. CASE "connections" \notin DOMAIN o
    BY <2>1, <2>3, StoredOver
  <2> QED
    BY <2>2, <2>3
<1>8. planVars'.infra \in {1, 2}
  BY StoredOver, ManifestFields
<1>9. planVars'.rabbit \in {"none", "4G", "8G"}
  <2>1. planVars.rabbit \in {"none", "4G", "8G"} /\ order.manifest.rabbit \in {"none", "8G"}
    BY <1>1, PlanFields, ManifestFields
  <2> QED
    BY <2>1, StoredOver
<1> QED
  BY ONLY <1>2, <1>3, <1>4, <1>5, <1>6, <1>7, <1>8, <1>9, PlanMade

\* What the commands of a feature store.
LEMMA FeatureStored ==
  ASSUME RowInv, VarInv, C!Exists(planVars), IsManifest(order.manifest),
         C!OpenStackApplicationStep
  PROVE  /\ planVars' \in C!PlanVars
         /\ Keeping(planVars', {"database", "region", "endpoints", "proxy", "api", "rabbitComputed"})
         /\ planVars'.feature = (order.kind = "enable") /\ planVars'.mysql = answered.mysql
         /\ planVars'.connections = C!get_database_resource_tfvars(answered.services, planVars.api)
         /\ planVars'.infra = order.manifest.infra
         /\ planVars'.rabbit = IF order.manifest.rabbit # "none" THEN order.manifest.rabbit
                               ELSE IF planVars.rabbitComputed THEN planVars.rabbit ELSE "none"
<1> DEFINE o == C!FeatureTfvars
<1>1. planVars' = C!update_tfvars(order.manifest, o)
  BY DEF C!OpenStackApplicationStep, C!Store
<1>2. /\ DOMAIN o = {"feature", "mysql", "connections"}
      /\ o["feature"] = (order.kind = "enable") /\ o["mysql"] = answered.mysql
      /\ o["connections"] = C!get_database_resource_tfvars(answered.services, planVars.api)
  BY DEF C!FeatureTfvars
<1> HIDE DEF o
<1>3. planVars.api \in Nat
  BY PlanFields DEF VarInv, C!Exists
<1>4. C!get_database_resource_tfvars(answered.services, planVars.api) \in Nat
  BY <1>3, ConnectionsCount
<1>5. answered.mysql \in {"none", "20G", "40G"}
  BY DEF RowInv
<1>6. DOMAIN o \subseteq {"feature", "mysql", "connections", "proxy"}
  BY <1>2
<1>7. planVars' \in C!PlanVars
  <2>1. "proxy" \notin DOMAIN o
    BY <1>2
  <2>2. o["feature"] \in BOOLEAN
    BY <1>2
  <2> QED
    BY <1>1, <1>2, <1>4, <1>5, <1>6, <2>1, <2>2, StoredTyped
<1>8. /\ \A k \in DOMAIN o : planVars'[k] = o[k]
      /\ Keeping(planVars', {"database", "region", "endpoints", "api", "ha", "ingress",
                                "ceph", "rabbitComputed"})
      /\ "proxy" \notin DOMAIN o => planVars'.proxy = planVars.proxy
      /\ planVars'.infra = order.manifest.infra
      /\ planVars'.rabbit = IF order.manifest.rabbit # "none" THEN order.manifest.rabbit
                               ELSE IF planVars.rabbitComputed THEN planVars.rabbit ELSE "none"
  BY <1>1, <1>6, StoredOver
<1> QED
  BY <1>2, <1>7, <1>8 DEF Keeping

\* What a change of the proxy stores.
LEMMA ConfigStored ==
  ASSUME RowInv, VarInv, C!Exists(planVars), IsManifest(order.manifest),
         C!UpdateOpenStackModelConfigStep
  PROVE  /\ planVars' \in C!PlanVars
         /\ Keeping(planVars', {"database", "region", "endpoints", "api", "rabbitComputed",
                                "feature", "connections"})
         /\ planVars'.infra = order.manifest.infra
<1> DEFINE o == [proxy |-> answered.model]
<1>1. planVars' = C!update_tfvars(order.manifest, o)
  BY DEF C!UpdateOpenStackModelConfigStep, C!Store
<1>2. DOMAIN o = {"proxy"} /\ o["proxy"] \in BOOLEAN
  BY DEF RowInv
<1> HIDE DEF o
<1>3. DOMAIN o \subseteq {"feature", "mysql", "connections", "proxy"}
  BY <1>2
<1>4. planVars' \in C!PlanVars
  BY <1>1, <1>2, <1>3, StoredTyped
<1>5. /\ Keeping(planVars', {"database", "region", "endpoints", "api", "ha", "ingress",
                                "ceph", "rabbitComputed"})
      /\ "feature" \notin DOMAIN o => planVars'.feature = planVars.feature
      /\ "connections" \notin DOMAIN o => planVars'.connections = planVars.connections
      /\ planVars'.infra = order.manifest.infra
  BY <1>1, <1>3, StoredOver
<1> QED
  BY <1>2, <1>4, <1>5 DEF Keeping

LEMMA CommandGiven ==
  ASSUME ControlPlaneInv, NEW o, NEW step, C!Give(o, step),
         o.kind \in OrderKinds, step \in StepsOf(o.kind), IsManifest(o.manifest), o.proxy \in BOOLEAN,
         o.endpoints \subseteq C!EndpointKeys, o.kind # "bootstrap" => C!Exists(plane),
         CASE o.kind = "bootstrap" -> step = "manifest"
           [] o.kind = "proxy" -> step = "proxy"
           [] OTHER -> step \in {"validate", "clear"}
  PROVE  ControlPlaneInv'
<1>0. OrderInv /\ RowInv /\ VarInv /\ AskedOnce /\ SizesKept /\ CharmsKept /\ FeatureKept /\ ServesAnswers
  BY DEF ControlPlaneInv
<1>1. OrderInv'
  BY <1>0 DEF AskSteps, C!Exists, C!Give, C!Resting, DeploySteps, FeatureSteps, OrderKinds,
     IsManifest, OrderInv, StepsOf
<1>2. RowInv'
  BY <1>0, OpenStackAssumption DEF C!Give, IsManifest, RowFields, RowInv
<1>3. VarInv'
  BY <1>0 DEF C!Exists, C!Give, VarInv
<1>4. AskedOnce'
  BY <1>0 DEF AskSteps, AskedOnce, C!Exists, C!Give, C!Resting, DeploySteps, FeatureSteps,
     OrderKinds, IsManifest, RowFields, RowInv, OrderInv, StepsOf
<1>5. SizesKept'
  BY <1>0 DEF CheckedSteps, AskSteps, C!Differs, C!Exists, C!Give, C!Resting,
     C!check_storage_modifications_in_manifest, DeploySteps, FeatureSteps, OrderKinds, IsManifest,
     RowFields, RowInv, OrderInv, SizesKept, StepsOf
<1>6. CharmsKept'
  BY <1>0 DEF C!Exists, AskSteps, C!Exists, C!Give, C!Resting, CharmsKept, DeploySteps,
     FeatureSteps, OrderKinds, IsManifest, OrderInv, StepsOf
<1>7. FeatureKept'
  BY <1>0 DEF AskSteps, C!Exists, C!Give, C!OnFeature, C!Resting, C!Services, DeploySteps,
     FeatureKept, FeatureSteps, OrderKinds, IsManifest, OrderInv, StepsOf, Users
<1>8. ServesAnswers'
  BY <1>0 DEF AskSteps, C!Deploys, C!Exists, C!Give, C!Resting, C!Unanswered, DeploySteps,
     FeatureSteps, OrderKinds, IsManifest, OrderInv, ServesAnswers, StepsOf
<1> QED
  BY <1>1, <1>2, <1>3, <1>4, <1>5, <1>6, <1>7, <1>8 DEF ControlPlaneInv

LEMMA CommandEnded ==
  ASSUME ControlPlaneInv, C!End, halfway' = (halfway \/ C!OnFeature),
         UNCHANGED <<manifest, answered, planVars, plane, unchecked>>,
         orderStops' \in 0..MaxStops
  PROVE  ControlPlaneInv'
<1>0. OrderInv /\ RowInv /\ VarInv /\ AskedOnce /\ SizesKept /\ CharmsKept /\ FeatureKept /\ ServesAnswers
  BY DEF ControlPlaneInv
<1>1. OrderInv'
  BY <1>0 DEF AskSteps, C!End, C!Exists, C!Resting, DeploySteps, FeatureSteps, OrderKinds,
     IsManifest, OrderInv, StepsOf
<1>2. RowInv'
  BY <1>0 DEF C!End, IsManifest, RowFields, RowInv
<1>3. VarInv'
  BY <1>0 DEF C!End, C!Exists, VarInv
<1>4. AskedOnce'
  BY <1>0 DEF AskSteps, AskedOnce, C!End, C!Exists, C!Resting, DeploySteps, FeatureSteps,
     OrderKinds, IsManifest, RowFields, RowInv, OrderInv, StepsOf
<1>5. SizesKept'
  BY <1>0 DEF CheckedSteps, AskSteps, C!Differs, C!End, C!Exists, C!Resting,
     C!check_storage_modifications_in_manifest, DeploySteps, FeatureSteps, OrderKinds, IsManifest,
     RowFields, RowInv, OrderInv, SizesKept, StepsOf
<1>6. CharmsKept'
  BY <1>0 DEF C!Exists, AskSteps, C!End, C!Exists, C!Resting, CharmsKept, DeploySteps,
     FeatureSteps, OrderKinds, IsManifest, OrderInv, StepsOf
<1>7. FeatureKept'
  BY <1>0 DEF AskSteps, C!End, C!Exists, C!OnFeature, C!Resting, C!Services, DeploySteps,
     FeatureKept, FeatureSteps, OrderKinds, IsManifest, OrderInv, StepsOf, Users
<1>8. ServesAnswers'
  BY <1>0 DEF AskSteps, C!Deploys, C!End, C!Exists, C!Resting, C!Unanswered, DeploySteps,
     FeatureSteps, OrderKinds, IsManifest, OrderInv, ServesAnswers, StepsOf
<1> QED
  BY <1>1, <1>2, <1>3, <1>4, <1>5, <1>6, <1>7, <1>8 DEF ControlPlaneInv

LEMMA HostsJoin ==
  ASSUME ControlPlaneInv, C!Hosts
  PROVE  ControlPlaneInv'
<1>0. OrderInv /\ RowInv /\ VarInv /\ AskedOnce /\ SizesKept /\ CharmsKept /\ FeatureKept /\ ServesAnswers
  BY DEF ControlPlaneInv
<1>1. OrderInv'
  BY <1>0 DEF AskSteps, C!Exists, C!Hosts, C!Resting, DeploySteps, FeatureSteps, OrderKinds,
     IsManifest, OrderInv, StepsOf
<1>2. RowInv'
  <2>1. PICK site \in Sites : nodes' = site[1] /\ osdNodes' = site[2]
    BY DEF C!Hosts
  <2>2. site = <<site[1], site[2]>>
    BY OpenStackAssumption
  <2>3. <<nodes', osdNodes'>> \in Sites
    BY <2>1, <2>2
  <2> QED
    BY <1>0, <2>3 DEF C!Hosts, RowInv, IsManifest
<1>3. VarInv'
  BY <1>0 DEF C!Exists, C!Hosts, VarInv
<1>4. AskedOnce'
  BY <1>0 DEF AskSteps, AskedOnce, C!Exists, C!Hosts, C!Resting, DeploySteps, FeatureSteps,
     OrderKinds, IsManifest, RowFields, RowInv, OrderInv, StepsOf
<1>5. SizesKept'
  BY <1>0 DEF CheckedSteps, AskSteps, C!Differs, C!Exists, C!Hosts, C!Resting,
     C!check_storage_modifications_in_manifest, DeploySteps, FeatureSteps, OrderKinds, IsManifest,
     RowFields, RowInv, OrderInv, SizesKept, StepsOf
<1>6. CharmsKept'
  BY <1>0 DEF C!Exists, AskSteps, C!Exists, C!Hosts, C!Resting, CharmsKept, DeploySteps,
     FeatureSteps, OrderKinds, IsManifest, OrderInv, StepsOf
<1>7. FeatureKept'
  BY <1>0 DEF AskSteps, C!Exists, C!Hosts, C!OnFeature, C!Resting, C!Services, DeploySteps,
     FeatureKept, FeatureSteps, OrderKinds, IsManifest, OrderInv, StepsOf, Users
<1>8. ServesAnswers'
  BY <1>0 DEF AskSteps, C!Deploys, C!Exists, C!Hosts, C!Resting, C!Unanswered, DeploySteps,
     FeatureSteps, OrderKinds, IsManifest, OrderInv, ServesAnswers, StepsOf
<1> QED
  BY <1>1, <1>2, <1>3, <1>4, <1>5, <1>6, <1>7, <1>8 DEF ControlPlaneInv

LEMMA ProxyAnswered ==
  ASSUME ControlPlaneInv, C!PromptForProxyStep
  PROVE  ControlPlaneInv'
<1>0. OrderInv /\ RowInv /\ VarInv /\ AskedOnce /\ SizesKept /\ CharmsKept /\ FeatureKept /\ ServesAnswers
  BY DEF ControlPlaneInv
<1>1. OrderInv'
  BY <1>0 DEF AskSteps, C!Exists, C!GoTo, C!PromptForProxyStep, C!Resting, C!Write, DeploySteps,
     FeatureSteps, OrderKinds, IsManifest, OrderInv, StepsOf
<1>2. RowInv'
  BY <1>0 DEF AskSteps, C!Exists, C!GoTo, C!PromptForProxyStep, C!Resting, C!Write, DeploySteps,
     FeatureSteps, OrderKinds, IsManifest, RowFields, RowInv, OrderInv, StepsOf
<1>3. VarInv'
  BY <1>0 DEF C!Exists, C!GoTo, C!PromptForProxyStep, C!Write, VarInv
<1>4. AskedOnce'
  BY <1>0 DEF AskSteps, AskedOnce, C!Exists, C!GoTo, C!PromptForProxyStep, C!Resting, C!Write,
     DeploySteps, FeatureSteps, OrderKinds, IsManifest, VarInv, RowFields, RowInv, OrderInv, StepsOf
<1>5. SizesKept'
  BY <1>0 DEF CheckedSteps, AskSteps, C!Differs, C!Exists, C!GoTo, C!PromptForProxyStep,
     C!Resting, C!Write, C!check_storage_modifications_in_manifest, DeploySteps, FeatureSteps,
     OrderKinds, IsManifest, RowFields, RowInv, OrderInv, SizesKept, StepsOf
<1>6. CharmsKept'
  BY <1>0 DEF AskSteps, C!Exists, C!GoTo, C!PromptForProxyStep, C!Resting, C!Write, CharmsKept,
     DeploySteps, FeatureSteps, OrderKinds, IsManifest, OrderInv, StepsOf
<1>7. FeatureKept'
  BY <1>0 DEF AskSteps, C!Exists, C!GoTo, C!OnFeature, C!PromptForProxyStep, C!Resting,
     C!Services, C!Write, DeploySteps, FeatureKept, FeatureSteps, OrderKinds, IsManifest,
     RowFields, RowInv, OrderInv, StepsOf, Users
<1>8. ServesAnswers'
  BY <1>0 DEF AskSteps, C!Deploys, C!Exists, C!GoTo, C!PromptForProxyStep, C!Resting,
     C!Unanswered, C!Write, DeploySteps, FeatureSteps, OrderKinds, IsManifest, RowFields, RowInv,
     OrderInv, ServesAnswers, StepsOf
<1> QED
  BY <1>1, <1>2, <1>3, <1>4, <1>5, <1>6, <1>7, <1>8 DEF ControlPlaneInv

LEMMA DatabaseAnswered ==
  ASSUME ControlPlaneInv, C!PromptDatabaseTopologyStep
  PROVE  ControlPlaneInv'
<1>0. OrderInv /\ RowInv /\ VarInv /\ AskedOnce /\ SizesKept /\ CharmsKept /\ FeatureKept /\ ServesAnswers
  BY DEF ControlPlaneInv
<1>1. OrderInv'
  BY <1>0 DEF AskSteps, C!Exists, C!GoTo, C!None, C!PromptDatabaseTopologyStep, C!Resting,
     C!Write, DeploySteps, FeatureSteps, OrderKinds, IsManifest, OrderInv, StepsOf
<1>2. RowInv'
  BY <1>0, ManifestFields DEF AskSteps, C!Exists, C!GoTo, C!None, C!PromptDatabaseTopologyStep,
     C!Resting, C!Write, DeploySteps, FeatureSteps, OrderKinds, IsManifest, RowFields, RowInv,
     OrderInv, StepsOf
<1>3. VarInv'
  BY <1>0 DEF C!Exists, C!GoTo, C!None, C!PromptDatabaseTopologyStep, C!Write, VarInv
<1>4. AskedOnce'
  BY <1>0, ManifestFields DEF AskSteps, AskedOnce, C!Exists, C!GoTo, C!None,
     C!PromptDatabaseTopologyStep, C!Resting, C!Write, DeploySteps, FeatureSteps, OrderKinds,
     IsManifest, VarInv, RowFields, RowInv, OrderInv, StepsOf
<1>5. SizesKept'
  BY <1>0 DEF CheckedSteps, AskSteps, C!Differs, C!Exists, C!GoTo, C!None,
     C!PromptDatabaseTopologyStep, C!Resting, C!Write, C!check_storage_modifications_in_manifest,
     DeploySteps, FeatureSteps, OrderKinds, IsManifest, RowFields, RowInv, OrderInv, SizesKept,
     StepsOf
<1>6. CharmsKept'
  BY <1>0 DEF AskSteps, C!Exists, C!GoTo, C!None, C!PromptDatabaseTopologyStep, C!Resting,
     C!Write, CharmsKept, DeploySteps, FeatureSteps, OrderKinds, IsManifest, OrderInv, StepsOf
<1>7. FeatureKept'
  BY <1>0 DEF AskSteps, C!Exists, C!GoTo, C!None, C!OnFeature, C!PromptDatabaseTopologyStep,
     C!Resting, C!Services, C!Write, DeploySteps, FeatureKept, FeatureSteps, OrderKinds,
     IsManifest, RowFields, RowInv, OrderInv, StepsOf, Users
<1>8. ServesAnswers'
  BY <1>0 DEF AskSteps, C!Deploys, C!Exists, C!GoTo, C!None, C!PromptDatabaseTopologyStep,
     C!Resting, C!Unanswered, C!Write, DeploySteps, FeatureSteps, OrderKinds, IsManifest,
     RowFields, RowInv, OrderInv, ServesAnswers, StepsOf
<1> QED
  BY <1>1, <1>2, <1>3, <1>4, <1>5, <1>6, <1>7, <1>8 DEF ControlPlaneInv

LEMMA RegionAnswered ==
  ASSUME ControlPlaneInv, C!PromptRegionStep
  PROVE  ControlPlaneInv'
<1>0. OrderInv /\ RowInv /\ VarInv /\ AskedOnce /\ SizesKept /\ CharmsKept /\ FeatureKept /\ ServesAnswers
  BY DEF ControlPlaneInv
<1>1. OrderInv'
  BY <1>0 DEF AskSteps, C!Exists, C!GoTo, C!None, C!PromptRegionStep, C!Resting, C!Write,
     DeploySteps, FeatureSteps, OrderKinds, IsManifest, OrderInv, StepsOf
<1>2. RowInv'
  BY <1>0, ManifestFields DEF AskSteps, C!Exists, C!GoTo, C!None, C!PromptRegionStep, C!Resting,
     C!Write, DeploySteps, FeatureSteps, OrderKinds, IsManifest, RowFields, RowInv, OrderInv,
     StepsOf
<1>3. VarInv'
  BY <1>0 DEF C!Exists, C!GoTo, C!None, C!PromptRegionStep, C!Write, VarInv
<1>4. AskedOnce'
  BY <1>0, ManifestFields DEF AskSteps, AskedOnce, C!Exists, C!GoTo, C!None, C!PromptRegionStep,
     C!Resting, C!Write, DeploySteps, FeatureSteps, OrderKinds, IsManifest, VarInv, RowFields,
     RowInv, OrderInv, StepsOf
<1>5. SizesKept'
  BY <1>0 DEF CheckedSteps, AskSteps, C!Differs, C!Exists, C!GoTo, C!None, C!PromptRegionStep,
     C!Resting, C!Write, C!check_storage_modifications_in_manifest, DeploySteps, FeatureSteps,
     OrderKinds, IsManifest, RowFields, RowInv, OrderInv, SizesKept, StepsOf
<1>6. CharmsKept'
  BY <1>0 DEF AskSteps, C!Exists, C!GoTo, C!None, C!PromptRegionStep, C!Resting, C!Write,
     CharmsKept, DeploySteps, FeatureSteps, OrderKinds, IsManifest, OrderInv, StepsOf
<1>7. FeatureKept'
  BY <1>0 DEF AskSteps, C!Exists, C!GoTo, C!None, C!OnFeature, C!PromptRegionStep, C!Resting,
     C!Services, C!Write, DeploySteps, FeatureKept, FeatureSteps, OrderKinds, IsManifest,
     RowFields, RowInv, OrderInv, StepsOf, Users
<1>8. ServesAnswers'
  BY <1>0 DEF AskSteps, C!Deploys, C!Exists, C!GoTo, C!None, C!PromptRegionStep, C!Resting,
     C!Unanswered, C!Write, DeploySteps, FeatureSteps, OrderKinds, IsManifest, RowFields, RowInv,
     OrderInv, ServesAnswers, StepsOf
<1> QED
  BY <1>1, <1>2, <1>3, <1>4, <1>5, <1>6, <1>7, <1>8 DEF ControlPlaneInv

LEMMA EndpointsAnswered ==
  ASSUME ControlPlaneInv, C!EndpointsConfigurationStep
  PROVE  ControlPlaneInv'
<1>0. OrderInv /\ RowInv /\ VarInv /\ AskedOnce /\ SizesKept /\ CharmsKept /\ FeatureKept /\ ServesAnswers
  BY DEF ControlPlaneInv
<1>1. OrderInv'
  BY <1>0 DEF AskSteps, C!EndpointsConfigurationStep, C!Exists, C!GoTo, C!Resting, C!Write,
     DeploySteps, FeatureSteps, OrderKinds, IsManifest, OrderInv, StepsOf
<1>2. RowInv'
  BY <1>0 DEF AskSteps, C!EndpointsConfigurationStep, C!Exists, C!GoTo, C!Resting, C!Write,
     DeploySteps, FeatureSteps, OrderKinds, IsManifest, RowFields, RowInv, OrderInv, StepsOf
<1>3. VarInv'
  BY <1>0 DEF C!EndpointsConfigurationStep, C!Exists, C!GoTo, C!Write, VarInv
<1>4. AskedOnce'
  BY <1>0 DEF AskSteps, AskedOnce, C!EndpointsConfigurationStep, C!Exists, C!GoTo, C!Resting,
     C!Write, DeploySteps, FeatureSteps, OrderKinds, IsManifest, VarInv, RowFields, RowInv,
     OrderInv, StepsOf
<1>5. SizesKept'
  BY <1>0 DEF CheckedSteps, AskSteps, C!Differs, C!EndpointsConfigurationStep, C!Exists, C!GoTo,
     C!Resting, C!Write, C!check_storage_modifications_in_manifest, DeploySteps, FeatureSteps,
     OrderKinds, IsManifest, RowFields, RowInv, OrderInv, SizesKept, StepsOf
<1>6. CharmsKept'
  BY <1>0 DEF AskSteps, C!EndpointsConfigurationStep, C!Exists, C!GoTo, C!Resting, C!Write,
     CharmsKept, DeploySteps, FeatureSteps, OrderKinds, IsManifest, OrderInv, StepsOf
<1>7. FeatureKept'
  BY <1>0 DEF AskSteps, C!EndpointsConfigurationStep, C!Exists, C!GoTo, C!OnFeature, C!Resting,
     C!Services, C!Write, DeploySteps, FeatureKept, FeatureSteps, OrderKinds, IsManifest,
     RowFields, RowInv, OrderInv, StepsOf, Users
<1>8. ServesAnswers'
  BY <1>0 DEF AskSteps, C!Deploys, C!EndpointsConfigurationStep, C!Exists, C!GoTo, C!Resting,
     C!Unanswered, C!Write, DeploySteps, FeatureSteps, OrderKinds, IsManifest, RowFields, RowInv,
     OrderInv, ServesAnswers, StepsOf
<1> QED
  BY <1>1, <1>2, <1>3, <1>4, <1>5, <1>6, <1>7, <1>8 DEF ControlPlaneInv

LEMMA TopologyWritten ==
  ASSUME ControlPlaneInv, C!WriteTopology
  PROVE  ControlPlaneInv'
<1>0. OrderInv /\ RowInv /\ VarInv /\ AskedOnce /\ SizesKept /\ CharmsKept /\ FeatureKept /\ ServesAnswers
  BY DEF ControlPlaneInv
<1>1. OrderInv'
  BY <1>0 DEF AskSteps, C!Exists, C!GoTo, C!None, C!Resting, C!Write, C!WriteTopology,
     DeploySteps, FeatureSteps, OrderKinds, IsManifest, OrderInv, StepsOf
<1>2. RowInv'
  BY <1>0 DEF AskSteps, C!Exists, C!GoTo, C!None, C!Resting, C!Topologies, C!Write,
     C!WriteTopology, C!determine_target_topology, DeploySteps, FeatureSteps, OrderKinds,
     IsManifest, RowFields, RowInv, OrderInv, StepsOf
<1>3. VarInv'
  BY <1>0 DEF C!Exists, C!GoTo, C!None, C!Write, C!WriteTopology, VarInv
<1>4. AskedOnce'
  BY <1>0 DEF AskSteps, AskedOnce, C!Exists, C!GoTo, C!None, C!Resting, C!Write, C!WriteTopology,
     DeploySteps, FeatureSteps, OrderKinds, IsManifest, VarInv, RowFields, RowInv, OrderInv, StepsOf
<1>5. SizesKept'
  BY <1>0 DEF CheckedSteps, AskSteps, C!Differs, C!Exists, C!GoTo, C!None, C!Resting, C!Write,
     C!WriteTopology, C!check_storage_modifications_in_manifest, DeploySteps, FeatureSteps,
     OrderKinds, IsManifest, RowFields, RowInv, OrderInv, SizesKept, StepsOf
<1>6. CharmsKept'
  BY <1>0 DEF AskSteps, C!Exists, C!GoTo, C!None, C!Resting, C!Write, C!WriteTopology, CharmsKept,
     DeploySteps, FeatureSteps, OrderKinds, IsManifest, OrderInv, StepsOf
<1>7. FeatureKept'
  BY <1>0 DEF AskSteps, C!Exists, C!GoTo, C!None, C!OnFeature, C!Resting, C!Services, C!Write,
     C!WriteTopology, DeploySteps, FeatureKept, FeatureSteps, OrderKinds, IsManifest, RowFields,
     RowInv, OrderInv, StepsOf, Users
<1>8. ServesAnswers'
  BY <1>0 DEF AskSteps, C!Deploys, C!Exists, C!GoTo, C!None, C!Resting, C!Unanswered, C!Write,
     C!WriteTopology, DeploySteps, FeatureSteps, OrderKinds, IsManifest, RowFields, RowInv,
     OrderInv, ServesAnswers, StepsOf
<1> QED
  BY <1>1, <1>2, <1>3, <1>4, <1>5, <1>6, <1>7, <1>8 DEF ControlPlaneInv

LEMMA ModelWritten ==
  ASSUME ControlPlaneInv, C!WriteModelConfig
  PROVE  ControlPlaneInv'
<1>0. OrderInv /\ RowInv /\ VarInv /\ AskedOnce /\ SizesKept /\ CharmsKept /\ FeatureKept /\ ServesAnswers
  BY DEF ControlPlaneInv
<1>1. OrderInv'
  BY <1>0 DEF AskSteps, C!Exists, C!GoTo, C!Resting, C!Write, C!WriteModelConfig, DeploySteps,
     FeatureSteps, OrderKinds, IsManifest, OrderInv, StepsOf
<1>2. RowInv'
  BY <1>0 DEF AskSteps, C!Exists, C!GoTo, C!Resting, C!Write, C!WriteModelConfig, DeploySteps,
     FeatureSteps, OrderKinds, IsManifest, RowFields, RowInv, OrderInv, StepsOf
<1>3. VarInv'
  BY <1>0 DEF C!Exists, C!GoTo, C!Write, C!WriteModelConfig, VarInv
<1>4. AskedOnce'
  BY <1>0 DEF AskSteps, AskedOnce, C!Exists, C!GoTo, C!Resting, C!Write, C!WriteModelConfig,
     DeploySteps, FeatureSteps, OrderKinds, IsManifest, VarInv, RowFields, RowInv, OrderInv, StepsOf
<1>5. SizesKept'
  BY <1>0 DEF CheckedSteps, AskSteps, C!Differs, C!Exists, C!GoTo, C!Resting, C!Write,
     C!WriteModelConfig, C!check_storage_modifications_in_manifest, DeploySteps, FeatureSteps,
     OrderKinds, IsManifest, RowFields, RowInv, OrderInv, SizesKept, StepsOf
<1>6. CharmsKept'
  BY <1>0 DEF AskSteps, C!Exists, C!GoTo, C!Resting, C!Write, C!WriteModelConfig, CharmsKept,
     DeploySteps, FeatureSteps, OrderKinds, IsManifest, OrderInv, StepsOf
<1>7. FeatureKept'
  BY <1>0 DEF AskSteps, C!Exists, C!GoTo, C!OnFeature, C!Resting, C!Services, C!Write,
     C!WriteModelConfig, DeploySteps, FeatureKept, FeatureSteps, OrderKinds, IsManifest,
     RowFields, RowInv, OrderInv, StepsOf, Users
<1>8. ServesAnswers'
  BY <1>0 DEF AskSteps, C!Deploys, C!Exists, C!GoTo, C!Resting, C!Unanswered, C!Write,
     C!WriteModelConfig, DeploySteps, FeatureSteps, OrderKinds, IsManifest, RowFields, RowInv,
     OrderInv, ServesAnswers, StepsOf
<1> QED
  BY <1>1, <1>2, <1>3, <1>4, <1>5, <1>6, <1>7, <1>8 DEF ControlPlaneInv

LEMMA ServicesWritten ==
  ASSUME ControlPlaneInv, C!write_database_resource_dict
  PROVE  ControlPlaneInv'
<1>0. OrderInv /\ RowInv /\ VarInv /\ AskedOnce /\ SizesKept /\ CharmsKept /\ FeatureKept /\ ServesAnswers
  BY DEF ControlPlaneInv
<1>1. OrderInv'
  BY <1>0 DEF AskSteps, C!Exists, C!GoTo, C!OnFeature, C!Resting, C!Write,
     C!write_database_resource_dict, DeploySteps, FeatureSteps, OrderKinds, IsManifest, OrderInv,
     StepsOf
<1>2. RowInv'
  BY <1>0 DEF AskSteps, C!Exists, C!GoTo, C!OnFeature, C!Resting, C!Services, C!Write,
     C!write_database_resource_dict, DeploySteps, FeatureSteps, OrderKinds, IsManifest, RowFields,
     RowInv, OrderInv, StepsOf
<1>3. VarInv'
  BY <1>0 DEF C!Exists, C!GoTo, C!OnFeature, C!Write, C!write_database_resource_dict, VarInv
<1>4. AskedOnce'
  BY <1>0 DEF AskSteps, AskedOnce, C!Exists, C!GoTo, C!OnFeature, C!Resting, C!Write,
     C!write_database_resource_dict, DeploySteps, FeatureSteps, OrderKinds, IsManifest, VarInv,
     RowFields, RowInv, OrderInv, StepsOf
<1>5. SizesKept'
  BY <1>0 DEF CheckedSteps, AskSteps, C!Differs, C!Exists, C!GoTo, C!OnFeature, C!Resting,
     C!Write, C!check_storage_modifications_in_manifest, C!write_database_resource_dict,
     DeploySteps, FeatureSteps, OrderKinds, IsManifest, RowFields, RowInv, OrderInv, SizesKept,
     StepsOf
<1>6. CharmsKept'
  BY <1>0 DEF AskSteps, C!Exists, C!GoTo, C!OnFeature, C!Resting, C!Write,
     C!write_database_resource_dict, CharmsKept, DeploySteps, FeatureSteps, OrderKinds,
     IsManifest, OrderInv, StepsOf
<1>7. FeatureKept'
  BY <1>0 DEF AskSteps, C!Exists, C!GoTo, C!OnFeature, C!Resting, C!Services, C!Write,
     C!write_database_resource_dict, DeploySteps, FeatureKept, FeatureSteps, OrderKinds,
     IsManifest, RowFields, RowInv, OrderInv, StepsOf, Users
<1>8. ServesAnswers'
  BY <1>0 DEF AskSteps, C!Deploys, C!Exists, C!GoTo, C!OnFeature, C!Resting, C!Unanswered,
     C!Write, C!write_database_resource_dict, DeploySteps, FeatureSteps, OrderKinds, IsManifest,
     RowFields, RowInv, OrderInv, ServesAnswers, StepsOf
<1> QED
  BY <1>1, <1>2, <1>3, <1>4, <1>5, <1>6, <1>7, <1>8 DEF ControlPlaneInv

LEMMA SizesWritten ==
  ASSUME ControlPlaneInv, C!write_database_storage_dict
  PROVE  ControlPlaneInv'
<1>0. OrderInv /\ RowInv /\ VarInv /\ AskedOnce /\ SizesKept /\ CharmsKept /\ FeatureKept /\ ServesAnswers
  BY DEF ControlPlaneInv
<1>1. OrderInv'
  BY <1>0 DEF AskSteps, C!Exists, C!GoTo, C!OnFeature, C!Resting, C!Write,
     C!write_database_storage_dict, DeploySteps, FeatureSteps, OrderKinds, IsManifest, OrderInv,
     StepsOf
<1>2. RowInv'
  BY <1>0, ManifestFields DEF AskSteps, C!Exists, C!GoTo, C!OnFeature, C!Resting, C!Write,
     C!get_database_storage_dict, C!write_database_storage_dict, DeploySteps, FeatureSteps,
     OrderKinds, IsManifest, RowFields, RowInv, OrderInv, StepsOf
<1>3. VarInv'
  BY <1>0 DEF C!Exists, C!GoTo, C!OnFeature, C!Write, C!write_database_storage_dict, VarInv
<1>4. AskedOnce'
  BY <1>0 DEF AskSteps, AskedOnce, C!Exists, C!GoTo, C!OnFeature, C!Resting, C!Write,
     C!write_database_storage_dict, DeploySteps, FeatureSteps, OrderKinds, IsManifest, VarInv,
     RowFields, RowInv, OrderInv, StepsOf
<1>5. SizesKept'
  BY <1>0, ManifestFields DEF CheckedSteps, AskSteps, C!Differs, C!Exists, C!GoTo, C!OnFeature,
     C!Resting, C!Write, C!check_storage_modifications_in_manifest, C!get_database_storage_dict,
     C!write_database_storage_dict, DeploySteps, FeatureSteps, OrderKinds, IsManifest, RowFields,
     RowInv, OrderInv, SizesKept, StepsOf
<1>6. CharmsKept'
  BY <1>0 DEF AskSteps, C!Exists, C!GoTo, C!OnFeature, C!Resting, C!Write,
     C!write_database_storage_dict, CharmsKept, DeploySteps, FeatureSteps, OrderKinds, IsManifest,
     OrderInv, StepsOf
<1>7. FeatureKept'
  BY <1>0 DEF AskSteps, C!Exists, C!GoTo, C!OnFeature, C!Resting, C!Services, C!Write,
     C!write_database_storage_dict, DeploySteps, FeatureKept, FeatureSteps, OrderKinds,
     IsManifest, RowFields, RowInv, OrderInv, StepsOf, Users
<1>8. ServesAnswers'
  BY <1>0 DEF AskSteps, C!Deploys, C!Exists, C!GoTo, C!OnFeature, C!Resting, C!Unanswered,
     C!Write, C!write_database_storage_dict, DeploySteps, FeatureSteps, OrderKinds, IsManifest,
     RowFields, RowInv, OrderInv, ServesAnswers, StepsOf
<1> QED
  BY <1>1, <1>2, <1>3, <1>4, <1>5, <1>6, <1>7, <1>8 DEF ControlPlaneInv

LEMMA RabbitWritten ==
  ASSUME ControlPlaneInv, C!WriteRabbitmqStorage
  PROVE  ControlPlaneInv'
<1>0. OrderInv /\ RowInv /\ VarInv /\ AskedOnce /\ SizesKept /\ CharmsKept /\ FeatureKept /\ ServesAnswers
  BY DEF ControlPlaneInv
<1>1. OrderInv'
  BY <1>0 DEF AskSteps, C!Exists, C!GoTo, C!Resting, C!Write, C!WriteRabbitmqStorage, DeploySteps,
     FeatureSteps, OrderKinds, IsManifest, OrderInv, StepsOf
<1>2. RowInv'
  BY <1>0, ManifestFields DEF AskSteps, C!Exists, C!GoTo, C!Resting, C!Write,
     C!WriteRabbitmqStorage, C!get_rabbitmq_storage, DeploySteps, FeatureSteps, OrderKinds,
     IsManifest, RowFields, RowInv, OrderInv, StepsOf
<1>3. VarInv'
  BY <1>0 DEF C!Exists, C!GoTo, C!Write, C!WriteRabbitmqStorage, VarInv
<1>4. AskedOnce'
  BY <1>0 DEF AskSteps, AskedOnce, C!Exists, C!GoTo, C!Resting, C!Write, C!WriteRabbitmqStorage,
     DeploySteps, FeatureSteps, OrderKinds, IsManifest, VarInv, RowFields, RowInv, OrderInv, StepsOf
<1>5. SizesKept'
  BY <1>0, ManifestFields DEF CheckedSteps, AskSteps, C!Differs, C!Exists, C!GoTo, C!Resting,
     C!Write, C!WriteRabbitmqStorage, C!check_storage_modifications_in_manifest,
     C!get_rabbitmq_storage, DeploySteps, FeatureSteps, OrderKinds, IsManifest, RowFields, RowInv,
     OrderInv, SizesKept, StepsOf
<1>6. CharmsKept'
  BY <1>0 DEF AskSteps, C!Exists, C!GoTo, C!Resting, C!Write, C!WriteRabbitmqStorage, CharmsKept,
     DeploySteps, FeatureSteps, OrderKinds, IsManifest, OrderInv, StepsOf
<1>7. FeatureKept'
  BY <1>0 DEF AskSteps, C!Exists, C!GoTo, C!OnFeature, C!Resting, C!Services, C!Write,
     C!WriteRabbitmqStorage, DeploySteps, FeatureKept, FeatureSteps, OrderKinds, IsManifest,
     RowFields, RowInv, OrderInv, StepsOf, Users
<1>8. ServesAnswers'
  BY <1>0 DEF AskSteps, C!Deploys, C!Exists, C!GoTo, C!Resting, C!Unanswered, C!Write,
     C!WriteRabbitmqStorage, DeploySteps, FeatureSteps, OrderKinds, IsManifest, RowFields, RowInv,
     OrderInv, ServesAnswers, StepsOf
<1> QED
  BY <1>1, <1>2, <1>3, <1>4, <1>5, <1>6, <1>7, <1>8 DEF ControlPlaneInv

LEMMA ManifestStored ==
  ASSUME ControlPlaneInv, C!AddManifestStep
  PROVE  ControlPlaneInv'
<1>0. OrderInv /\ RowInv /\ VarInv /\ AskedOnce /\ SizesKept /\ CharmsKept /\ FeatureKept /\ ServesAnswers
  BY DEF ControlPlaneInv
<1>1. OrderInv'
  BY <1>0 DEF AskSteps, C!AddManifestStep, C!Exists, C!GoTo, C!Resting, DeploySteps, FeatureSteps,
     OrderKinds, IsManifest, OrderInv, StepsOf
<1>2. RowInv'
  BY <1>0 DEF AskSteps, C!AddManifestStep, C!Exists, C!GoTo, C!Resting, DeploySteps, FeatureSteps,
     OrderKinds, IsManifest, RowFields, RowInv, OrderInv, StepsOf
<1>3. VarInv'
  BY <1>0 DEF C!AddManifestStep, C!Exists, C!GoTo, VarInv
<1>4. AskedOnce'
  BY <1>0 DEF AskSteps, AskedOnce, C!AddManifestStep, C!Exists, C!GoTo, C!Resting, DeploySteps,
     FeatureSteps, OrderKinds, IsManifest, VarInv, RowFields, RowInv, OrderInv, StepsOf
<1>5. SizesKept'
  BY <1>0 DEF CheckedSteps, AskSteps, C!AddManifestStep, C!Differs, C!Exists, C!GoTo, C!Resting,
     C!check_storage_modifications_in_manifest, DeploySteps, FeatureSteps, OrderKinds, IsManifest,
     RowFields, RowInv, OrderInv, SizesKept, StepsOf
<1>6. CharmsKept'
  BY <1>0 DEF AskSteps, C!AddManifestStep, C!Exists, C!GoTo, C!Resting, CharmsKept, DeploySteps,
     FeatureSteps, OrderKinds, IsManifest, OrderInv, StepsOf
<1>7. FeatureKept'
  BY <1>0 DEF AskSteps, C!AddManifestStep, C!Exists, C!GoTo, C!OnFeature, C!Resting, C!Services,
     DeploySteps, FeatureKept, FeatureSteps, OrderKinds, IsManifest, RowFields, RowInv, OrderInv,
     StepsOf, Users
<1>8. ServesAnswers'
  BY <1>0 DEF AskSteps, C!AddManifestStep, C!Deploys, C!Exists, C!GoTo, C!Resting, C!Unanswered,
     DeploySteps, FeatureSteps, OrderKinds, IsManifest, RowFields, RowInv, OrderInv,
     ServesAnswers, StepsOf
<1> QED
  BY <1>1, <1>2, <1>3, <1>4, <1>5, <1>6, <1>7, <1>8 DEF ControlPlaneInv

LEMMA GatePassed ==
  ASSUME ControlPlaneInv, C!ValidateInfraAppsStep, ~C!pending_infra_app_changes(order.manifest)
  PROVE  ControlPlaneInv'
<1>0. OrderInv /\ RowInv /\ VarInv /\ AskedOnce /\ SizesKept /\ CharmsKept /\ FeatureKept /\ ServesAnswers
  BY DEF ControlPlaneInv
<1>1. OrderInv'
  BY <1>0 DEF AskSteps, C!AfterGate, C!Exists, C!GoTo, C!Resting, C!ValidateInfraAppsStep,
     DeploySteps, FeatureSteps, OrderKinds, IsManifest, OrderInv, StepsOf
<1>2. RowInv'
  BY <1>0 DEF AskSteps, C!AfterGate, C!Exists, C!GoTo, C!Resting, C!ValidateInfraAppsStep,
     DeploySteps, FeatureSteps, OrderKinds, IsManifest, RowFields, RowInv, OrderInv, StepsOf
<1>3. VarInv'
  BY <1>0 DEF C!AfterGate, C!Exists, C!GoTo, C!ValidateInfraAppsStep, VarInv
<1>4. AskedOnce'
  BY <1>0 DEF AskSteps, AskedOnce, C!AfterGate, C!Exists, C!GoTo, C!Resting,
     C!ValidateInfraAppsStep, DeploySteps, FeatureSteps, OrderKinds, IsManifest, VarInv,
     RowFields, RowInv, OrderInv, StepsOf
<1>5. SizesKept'
  BY <1>0 DEF CheckedSteps, AskSteps, C!AfterGate, C!Differs, C!Exists, C!GoTo, C!Resting,
     C!ValidateInfraAppsStep, C!check_storage_modifications_in_manifest, DeploySteps,
     FeatureSteps, OrderKinds, IsManifest, RowFields, RowInv, OrderInv, SizesKept, StepsOf
<1>6. CharmsKept'
  BY <1>0 DEF AskSteps, C!AfterGate, C!Exists, C!GoTo, C!Resting, C!ValidateInfraAppsStep,
     C!pending_infra_app_changes, CharmsKept, DeploySteps, FeatureSteps, OrderKinds, IsManifest,
     OrderInv, StepsOf
<1>7. FeatureKept'
  BY <1>0 DEF AskSteps, C!AfterGate, C!Exists, C!GoTo, C!OnFeature, C!Resting, C!Services,
     C!ValidateInfraAppsStep, DeploySteps, FeatureKept, FeatureSteps, OrderKinds, IsManifest,
     RowFields, RowInv, OrderInv, StepsOf, Users
<1>8. ServesAnswers'
  BY <1>0 DEF AskSteps, C!AfterGate, C!Deploys, C!Exists, C!GoTo, C!Resting, C!Unanswered,
     C!ValidateInfraAppsStep, DeploySteps, FeatureSteps, OrderKinds, IsManifest, RowFields,
     RowInv, OrderInv, ServesAnswers, StepsOf
<1> QED
  BY <1>1, <1>2, <1>3, <1>4, <1>5, <1>6, <1>7, <1>8 DEF ControlPlaneInv

LEMMA CheckPassed ==
  ASSUME ControlPlaneInv, C!DeployIsSkip, ~C!check_storage_modifications_in_manifest(order.manifest)
  PROVE  ControlPlaneInv'
<1>0. OrderInv /\ RowInv /\ VarInv /\ AskedOnce /\ SizesKept /\ CharmsKept /\ FeatureKept /\ ServesAnswers
  BY DEF ControlPlaneInv
<1>1. OrderInv'
  BY <1>0 DEF AskSteps, C!DeployIsSkip, C!Exists, C!GoTo, C!OnFeature, C!Resting, DeploySteps,
     FeatureSteps, OrderKinds, IsManifest, OrderInv, StepsOf
<1>2. RowInv'
  BY <1>0 DEF AskSteps, C!DeployIsSkip, C!Exists, C!GoTo, C!OnFeature, C!Resting, DeploySteps,
     FeatureSteps, OrderKinds, IsManifest, RowFields, RowInv, OrderInv, StepsOf
<1>3. VarInv'
  BY <1>0 DEF C!DeployIsSkip, C!Exists, C!GoTo, C!OnFeature, VarInv
<1>4. AskedOnce'
  BY <1>0 DEF AskSteps, AskedOnce, C!DeployIsSkip, C!Exists, C!GoTo, C!OnFeature, C!Resting,
     DeploySteps, FeatureSteps, OrderKinds, IsManifest, VarInv, RowFields, RowInv, OrderInv, StepsOf
<1>5. SizesKept'
  BY <1>0 DEF CheckedSteps, AskSteps, C!DeployIsSkip, C!Differs, C!Exists, C!GoTo, C!OnFeature,
     C!Resting, C!check_storage_modifications_in_manifest, DeploySteps, FeatureSteps, OrderKinds,
     IsManifest, RowFields, RowInv, OrderInv, SizesKept, StepsOf
<1>6. CharmsKept'
  BY <1>0 DEF AskSteps, C!DeployIsSkip, C!Exists, C!GoTo, C!OnFeature, C!Resting, CharmsKept,
     DeploySteps, FeatureSteps, OrderKinds, IsManifest, OrderInv, StepsOf
<1>7. FeatureKept'
  BY <1>0 DEF AskSteps, C!DeployIsSkip, C!Exists, C!GoTo, C!OnFeature, C!Resting, C!Services,
     DeploySteps, FeatureKept, FeatureSteps, OrderKinds, IsManifest, RowFields, RowInv, OrderInv,
     StepsOf, Users
<1>8. ServesAnswers'
  BY <1>0 DEF AskSteps, C!DeployIsSkip, C!Deploys, C!Exists, C!GoTo, C!OnFeature, C!Resting,
     C!Unanswered, DeploySteps, FeatureSteps, OrderKinds, IsManifest, RowFields, RowInv, OrderInv,
     ServesAnswers, StepsOf
<1> QED
  BY <1>1, <1>2, <1>3, <1>4, <1>5, <1>6, <1>7, <1>8 DEF ControlPlaneInv

LEMMA DeploymentStored ==
  ASSUME ControlPlaneInv, C!DeployControlPlaneStep
  PROVE  ControlPlaneInv'
<1>0. OrderInv /\ RowInv /\ VarInv /\ AskedOnce /\ SizesKept /\ CharmsKept /\ FeatureKept /\ ServesAnswers
  BY DEF ControlPlaneInv
<1>18. planVars \in C!PlanVars \/ ~C!Exists(planVars)
  BY <1>0 DEF VarInv, C!Exists
<1>19. /\ IsManifest(order.manifest)
       /\ answered.database # "none" /\ answered.region # "none"
       /\ C!Exists(planVars) \/ answered.rabbit # "none"
  BY <1>0 DEF OrderInv, StepsOf, AskSteps, DeploySteps, FeatureSteps, OrderKinds, VarInv,
     AskedOnce, SizesKept, C!Store, C!DeployControlPlaneStep
<1>23. /\ planVars' \in C!PlanVars
       /\ planVars'.database = answered.database /\ planVars'.region = answered.region
       /\ planVars'.mysql = answered.mysql /\ planVars'.proxy = answered.model
       /\ planVars'.infra = order.manifest.infra
       /\ planVars'.api \in 1..7
       /\ planVars'.connections = C!get_database_resource_tfvars(answered.services, planVars'.api)
       /\ planVars'.feature = (C!Exists(planVars) /\ planVars.feature)
       /\ planVars'.endpoints = C!get_endpoints_tfvars(C!_load_and_filter_db_tfvars.endpoints)
       /\ IF answered.rabbit # "none"
          THEN planVars'.rabbit = answered.rabbit /\ planVars'.rabbitComputed = TRUE
          ELSE /\ planVars'.rabbitComputed = planVars.rabbitComputed
               /\ planVars'.rabbit = IF order.manifest.rabbit # "none" THEN order.manifest.rabbit
                                     ELSE IF planVars.rabbitComputed THEN planVars.rabbit ELSE "none"
  BY <1>0, <1>19, DeployStored
<1>20. /\ planVars' \in C!PlanVars
       /\ planVars'.database = answered.database /\ planVars'.region = answered.region
       /\ planVars'.mysql = answered.mysql /\ planVars'.proxy = answered.model
       /\ planVars'.infra = order.manifest.infra
       /\ planVars'.api \in 1..7
       /\ planVars'.connections = C!get_database_resource_tfvars(answered.services, planVars'.api)
       /\ planVars'.feature = (C!Exists(planVars) /\ planVars.feature)
       /\ planVars'.endpoints = C!get_endpoints_tfvars(C!_load_and_filter_db_tfvars.endpoints)
       /\ IF answered.rabbit # "none"
          THEN planVars'.rabbit = answered.rabbit /\ planVars'.rabbitComputed = TRUE
          ELSE /\ planVars'.rabbitComputed = planVars.rabbitComputed
               /\ planVars'.rabbit = IF order.manifest.rabbit # "none" THEN order.manifest.rabbit
                                     ELSE IF planVars.rabbitComputed THEN planVars.rabbit ELSE "none"
  BY <1>0, <1>18, <1>19, <1>23 DEF Keeping
<1>21. C!Exists(planVars')
  BY <1>20, PlanFields
<1>22. /\ planVars'.api \in Nat
       /\ "core" \in answered.services =>
            C!get_database_resource_tfvars(answered.services, planVars'.api) >= planVars'.api
       /\ answered.services = C!Services =>
            C!get_database_resource_tfvars(answered.services, planVars'.api) >= planVars'.api * 2
  <2>1. planVars'.api \in Nat
    BY <1>18, <1>19, <1>20, PlanFields
  <2> QED
    BY <1>0, <2>1, ConnectionsCount
<1>1. OrderInv'
  BY <1>0 DEF AskSteps, C!DeployControlPlaneStep, C!Exists, C!Resting, C!Store, DeploySteps,
     FeatureSteps, OrderKinds, IsManifest, OrderInv, StepsOf
<1>2. RowInv'
  BY <1>0 DEF AskSteps, C!DeployControlPlaneStep, C!Exists, C!Resting, C!Store, DeploySteps,
     FeatureSteps, OrderKinds, IsManifest, RowFields, RowInv, OrderInv, StepsOf
<1>3. VarInv'
  BY <1>0, <1>20, <1>21 DEF C!DeployControlPlaneStep, C!Exists, C!Store, VarInv
<1>4. AskedOnce'
  BY <1>0, <1>20, <1>21 DEF AskSteps, AskedOnce, C!DeployControlPlaneStep, C!Exists, C!Resting,
     C!Store, DeploySteps, FeatureSteps, OrderKinds, IsManifest, VarInv, RowFields, RowInv,
     OrderInv, StepsOf
<1>5. SizesKept'
  BY <1>0, <1>20, <1>21 DEF CheckedSteps, AskSteps, C!DeployControlPlaneStep, C!Differs, C!Exists,
     C!Resting, C!Store, C!check_storage_modifications_in_manifest, DeploySteps, FeatureSteps,
     OrderKinds, IsManifest, VarInv, RowFields, RowInv, OrderInv, SizesKept, StepsOf
<1>6. CharmsKept'
  BY <1>0, <1>20, <1>21 DEF AskSteps, C!DeployControlPlaneStep, C!Exists, C!Resting, C!Store,
     CharmsKept, DeploySteps, FeatureSteps, OrderKinds, IsManifest, OrderInv, StepsOf
<1>7. FeatureKept'
  <2>1. at' = "apply" /\ UNCHANGED <<plane, answered, order, halfway>>
    BY DEF C!Store, C!DeployControlPlaneStep
  <2>2. planVars'.feature => halfway \/ answered.services = C!Services
    BY <1>0, <1>20, <2>1 DEF AskSteps, C!DeployControlPlaneStep, C!Exists, C!OnFeature, C!Resting,
       C!Services, C!Store, DeploySteps, FeatureKept, FeatureSteps, OrderKinds, IsManifest,
       VarInv, RowFields, RowInv, OrderInv, StepsOf
  <2>3. "core" \in answered.services
    BY <1>0 DEF FeatureKept, C!Store, C!DeployControlPlaneStep
  <2>4. (~halfway \/ C!OnFeature) /\ planVars'.feature => answered.services = C!Services
    BY <1>0, <1>20, <2>1 DEF AskSteps, C!DeployControlPlaneStep, C!Exists, C!OnFeature, C!Resting,
       C!Services, C!Store, DeploySteps, FeatureKept, FeatureSteps, OrderKinds, IsManifest,
       VarInv, RowFields, RowInv, OrderInv, StepsOf
  <2>5. ~halfway \/ C!OnFeature => planVars'.connections >= planVars'.api * Users'
    <3>1. planVars'.api = planVars'.api /\ planVars'.connections = C!get_database_resource_tfvars(answered.services, planVars'.api)
      BY <1>20
    <3>2. CASE planVars'.feature
      <4>1. Users' = 2
        BY <3>2 DEF Users
      <4> QED
        BY <1>22, <2>4, <3>1, <3>2, <4>1
    <3>3. CASE ~planVars'.feature
      <4>1. Users' = 1 /\ planVars'.api * 1 = planVars'.api
        BY <1>22, <3>3 DEF Users
      <4> QED
        BY <1>22, <2>3, <3>1, <4>1
    <3> QED
      BY <3>2, <3>3
  <2>7. C!Exists(planVars) => planVars.feature \in BOOLEAN
    BY <1>18, PlanFields
  <2>6. C!Exists(plane) /\ ~halfway /\ ~C!OnFeature => planVars'.feature = plane.feature
    BY <1>0, <1>20, <2>1, <2>7 DEF AskSteps, C!DeployControlPlaneStep, C!Exists, C!OnFeature,
       C!Resting, C!Services, C!Store, DeploySteps, FeatureKept, FeatureSteps, OrderKinds,
       IsManifest, VarInv, RowFields, RowInv, OrderInv, StepsOf
  <2> QED
    BY <2>1, <2>4, <2>5, <2>6 DEF FeatureKept, C!OnFeature
<1>8. ServesAnswers'
  BY <1>0, <1>20, <1>21 DEF AskSteps, C!DeployControlPlaneStep, C!Deploys, C!Exists, C!Resting,
     C!Store, C!Unanswered, C!get_endpoints_tfvars, DeploySteps, FeatureSteps, OrderKinds,
     IsManifest, RowFields, RowInv, OrderInv, ServesAnswers, StepsOf
<1> QED
  BY <1>1, <1>2, <1>3, <1>4, <1>5, <1>6, <1>7, <1>8 DEF ControlPlaneInv

LEMMA ReapplicationStored ==
  ASSUME ControlPlaneInv, C!ReapplyOpenStackTerraformPlanStep
  PROVE  ControlPlaneInv'
<1>0. OrderInv /\ RowInv /\ VarInv /\ AskedOnce /\ SizesKept /\ CharmsKept /\ FeatureKept /\ ServesAnswers
  BY DEF ControlPlaneInv
<1>18. planVars \in C!PlanVars \/ ~C!Exists(planVars)
  BY <1>0 DEF VarInv, C!Exists
<1>19. /\ IsManifest(order.manifest)
       /\ C!Exists(planVars)
  BY <1>0 DEF OrderInv, StepsOf, AskSteps, DeploySteps, FeatureSteps, OrderKinds, VarInv,
     AskedOnce, SizesKept, C!Store, C!ReapplyOpenStackTerraformPlanStep
<1>23. /\ planVars' \in C!PlanVars
       /\ Keeping(planVars', {"database", "region", "endpoints", "proxy", "api", "ha", "ingress",
                               "connections", "feature", "rabbitComputed"})
       /\ planVars'.infra = order.manifest.infra
  BY <1>0, <1>19, ReapplyStored DEF C!ReapplyOpenStackTerraformPlanStep
<1>20. /\ planVars' \in C!PlanVars /\ planVars \in C!PlanVars
       /\ planVars'.database = planVars.database /\ planVars'.region = planVars.region
       /\ planVars'.api = planVars.api /\ planVars'.rabbitComputed = planVars.rabbitComputed
       /\ planVars'.feature = planVars.feature /\ planVars'.connections = planVars.connections
       /\ planVars'.infra = order.manifest.infra
  BY <1>0, <1>18, <1>19, <1>23 DEF Keeping
<1>21. C!Exists(planVars')
  BY <1>20, PlanFields
<1>1. OrderInv'
  BY <1>0 DEF AskSteps, C!Exists, C!ReapplyOpenStackTerraformPlanStep, C!Resting, C!Store,
     DeploySteps, FeatureSteps, OrderKinds, IsManifest, OrderInv, StepsOf
<1>2. RowInv'
  BY <1>0 DEF AskSteps, C!Exists, C!ReapplyOpenStackTerraformPlanStep, C!Resting, C!Store,
     DeploySteps, FeatureSteps, OrderKinds, IsManifest, RowFields, RowInv, OrderInv, StepsOf
<1>3. VarInv'
  BY <1>0, <1>20, <1>21 DEF C!Exists, C!ReapplyOpenStackTerraformPlanStep, C!Store, VarInv
<1>4. AskedOnce'
  BY <1>0, <1>20, <1>21 DEF AskSteps, AskedOnce, C!Exists, C!ReapplyOpenStackTerraformPlanStep,
     C!Resting, C!Store, DeploySteps, FeatureSteps, OrderKinds, IsManifest, VarInv, RowFields,
     RowInv, OrderInv, StepsOf
<1>5. SizesKept'
  BY <1>0, <1>20, <1>21 DEF CheckedSteps, AskSteps, C!Differs, C!Exists,
     C!ReapplyOpenStackTerraformPlanStep, C!Resting, C!Store,
     C!check_storage_modifications_in_manifest, DeploySteps, FeatureSteps, OrderKinds, IsManifest,
     VarInv, RowFields, RowInv, OrderInv, SizesKept, StepsOf
<1>6. CharmsKept'
  BY <1>0, <1>20, <1>21 DEF AskSteps, C!Exists, C!ReapplyOpenStackTerraformPlanStep, C!Resting,
     C!Store, CharmsKept, DeploySteps, FeatureSteps, OrderKinds, IsManifest, OrderInv, StepsOf
<1>7. FeatureKept'
  BY <1>0, <1>20, <1>21 DEF AskSteps, C!Exists, C!OnFeature, C!ReapplyOpenStackTerraformPlanStep,
     C!Resting, C!Services, C!Store, DeploySteps, FeatureKept, FeatureSteps, OrderKinds,
     IsManifest, VarInv, RowFields, RowInv, OrderInv, StepsOf, Users
<1>8. ServesAnswers'
  BY <1>0, <1>20, <1>21 DEF AskSteps, C!Deploys, C!Exists, C!ReapplyOpenStackTerraformPlanStep,
     C!Resting, C!Store, C!Unanswered, DeploySteps, FeatureSteps, OrderKinds, IsManifest,
     RowFields, RowInv, OrderInv, ServesAnswers, StepsOf
<1> QED
  BY <1>1, <1>2, <1>3, <1>4, <1>5, <1>6, <1>7, <1>8 DEF ControlPlaneInv

LEMMA FeatureChangeStored ==
  ASSUME ControlPlaneInv, C!OpenStackApplicationStep
  PROVE  ControlPlaneInv'
<1>0. OrderInv /\ RowInv /\ VarInv /\ AskedOnce /\ SizesKept /\ CharmsKept /\ FeatureKept /\ ServesAnswers
  BY DEF ControlPlaneInv
<1>18. planVars \in C!PlanVars \/ ~C!Exists(planVars)
  BY <1>0 DEF VarInv, C!Exists
<1>19. /\ IsManifest(order.manifest)
       /\ C!Exists(planVars)
  BY <1>0 DEF OrderInv, StepsOf, AskSteps, DeploySteps, FeatureSteps, OrderKinds, VarInv,
     AskedOnce, SizesKept, C!Store, C!OpenStackApplicationStep
<1>23. /\ planVars' \in C!PlanVars
       /\ Keeping(planVars', {"database", "region", "endpoints", "proxy", "api", "rabbitComputed"})
       /\ planVars'.feature = (order.kind = "enable") /\ planVars'.mysql = answered.mysql
       /\ planVars'.connections = C!get_database_resource_tfvars(answered.services, planVars.api)
       /\ planVars'.infra = order.manifest.infra
       /\ planVars'.rabbit = IF order.manifest.rabbit # "none" THEN order.manifest.rabbit
                             ELSE IF planVars.rabbitComputed THEN planVars.rabbit ELSE "none"
  BY <1>0, <1>19, FeatureStored
<1>20. /\ planVars' \in C!PlanVars /\ planVars \in C!PlanVars
       /\ planVars'.database = planVars.database /\ planVars'.region = planVars.region
       /\ planVars'.api = planVars.api /\ planVars'.rabbitComputed = planVars.rabbitComputed
       /\ planVars'.feature = (order.kind = "enable") /\ planVars'.mysql = answered.mysql
       /\ planVars'.connections = C!get_database_resource_tfvars(answered.services, planVars.api)
       /\ planVars'.infra = order.manifest.infra
       /\ planVars'.rabbit = IF order.manifest.rabbit # "none" THEN order.manifest.rabbit
                             ELSE IF planVars.rabbitComputed THEN planVars.rabbit ELSE "none"
  BY <1>0, <1>18, <1>19, <1>23 DEF Keeping
<1>21. C!Exists(planVars')
  BY <1>20, PlanFields
<1>22. /\ planVars.api \in Nat
       /\ "core" \in answered.services =>
            C!get_database_resource_tfvars(answered.services, planVars.api) >= planVars.api
       /\ answered.services = C!Services =>
            C!get_database_resource_tfvars(answered.services, planVars.api) >= planVars.api * 2
  <2>1. planVars.api \in Nat
    BY <1>18, <1>19, <1>20, PlanFields
  <2> QED
    BY <1>0, <2>1, ConnectionsCount
<1>1. OrderInv'
  BY <1>0 DEF AskSteps, C!Exists, C!OpenStackApplicationStep, C!Resting, C!Store, DeploySteps,
     FeatureSteps, OrderKinds, IsManifest, OrderInv, StepsOf
<1>2. RowInv'
  BY <1>0 DEF AskSteps, C!Exists, C!OpenStackApplicationStep, C!Resting, C!Store, DeploySteps,
     FeatureSteps, OrderKinds, IsManifest, RowFields, RowInv, OrderInv, StepsOf
<1>3. VarInv'
  BY <1>0, <1>20, <1>21 DEF C!Exists, C!OpenStackApplicationStep, C!Store, VarInv
<1>4. AskedOnce'
  BY <1>0, <1>20, <1>21 DEF AskSteps, AskedOnce, C!Exists, C!OpenStackApplicationStep, C!Resting,
     C!Store, DeploySteps, FeatureSteps, OrderKinds, IsManifest, VarInv, RowFields, RowInv,
     OrderInv, StepsOf
<1>5. SizesKept'
  BY <1>0, <1>20, <1>21 DEF CheckedSteps, AskSteps, C!Differs, C!Exists,
     C!OpenStackApplicationStep, C!Resting, C!Store, C!check_storage_modifications_in_manifest,
     DeploySteps, FeatureSteps, OrderKinds, IsManifest, VarInv, RowFields, RowInv, OrderInv,
     SizesKept, StepsOf
<1>6. CharmsKept'
  BY <1>0, <1>20, <1>21 DEF AskSteps, C!Exists, C!OpenStackApplicationStep, C!Resting, C!Store,
     CharmsKept, DeploySteps, FeatureSteps, OrderKinds, IsManifest, OrderInv, StepsOf
<1>7. FeatureKept'
  <2>1. at' = "apply" /\ UNCHANGED <<plane, answered, order, halfway>>
    BY DEF C!Store, C!OpenStackApplicationStep
  <2>2. planVars'.feature => halfway \/ answered.services = C!Services
    BY <1>0, <1>20, <2>1 DEF AskSteps, C!Exists, C!OnFeature, C!OpenStackApplicationStep,
       C!Resting, C!Services, C!Store, DeploySteps, FeatureKept, FeatureSteps, OrderKinds,
       IsManifest, VarInv, RowFields, RowInv, OrderInv, StepsOf
  <2>3. "core" \in answered.services
    BY <1>0 DEF FeatureKept, C!Store, C!OpenStackApplicationStep
  <2>4. (~halfway \/ C!OnFeature) /\ planVars'.feature => answered.services = C!Services
    BY <1>0, <1>20, <2>1 DEF AskSteps, C!Exists, C!OnFeature, C!OpenStackApplicationStep,
       C!Resting, C!Services, C!Store, DeploySteps, FeatureKept, FeatureSteps, OrderKinds,
       IsManifest, VarInv, RowFields, RowInv, OrderInv, StepsOf
  <2>5. ~halfway \/ C!OnFeature => planVars'.connections >= planVars'.api * Users'
    <3>1. planVars'.api = planVars.api /\ planVars'.connections = C!get_database_resource_tfvars(answered.services, planVars.api)
      BY <1>20
    <3>2. CASE planVars'.feature
      <4>1. Users' = 2
        BY <3>2 DEF Users
      <4> QED
        BY <1>22, <2>4, <3>1, <3>2, <4>1
    <3>3. CASE ~planVars'.feature
      <4>1. Users' = 1 /\ planVars.api * 1 = planVars.api
        BY <1>22, <3>3 DEF Users
      <4> QED
        BY <1>22, <2>3, <3>1, <4>1
    <3> QED
      BY <3>2, <3>3
  <2>6. C!Exists(plane) /\ ~halfway /\ ~C!OnFeature => planVars'.feature = plane.feature
    BY <1>0, <1>20, <2>1 DEF AskSteps, C!Exists, C!OnFeature, C!OpenStackApplicationStep,
       C!Resting, C!Services, C!Store, DeploySteps, FeatureKept, FeatureSteps, OrderKinds,
       IsManifest, VarInv, RowFields, RowInv, OrderInv, StepsOf
  <2> QED
    BY <2>1, <2>4, <2>5, <2>6 DEF FeatureKept, C!OnFeature
<1>8. ServesAnswers'
  BY <1>0, <1>20, <1>21 DEF AskSteps, C!Deploys, C!Exists, C!OpenStackApplicationStep, C!Resting,
     C!Store, C!Unanswered, DeploySteps, FeatureSteps, OrderKinds, IsManifest, RowFields, RowInv,
     OrderInv, ServesAnswers, StepsOf
<1> QED
  BY <1>1, <1>2, <1>3, <1>4, <1>5, <1>6, <1>7, <1>8 DEF ControlPlaneInv

LEMMA ProxyChangeStored ==
  ASSUME ControlPlaneInv, C!UpdateOpenStackModelConfigStep
  PROVE  ControlPlaneInv'
<1>0. OrderInv /\ RowInv /\ VarInv /\ AskedOnce /\ SizesKept /\ CharmsKept /\ FeatureKept /\ ServesAnswers
  BY DEF ControlPlaneInv
<1>18. planVars \in C!PlanVars \/ ~C!Exists(planVars)
  BY <1>0 DEF VarInv, C!Exists
<1>19. /\ IsManifest(order.manifest)
       /\ C!Exists(planVars)
  BY <1>0 DEF OrderInv, StepsOf, AskSteps, DeploySteps, FeatureSteps, OrderKinds, VarInv,
     AskedOnce, SizesKept, C!Store, C!UpdateOpenStackModelConfigStep
<1>23. /\ planVars' \in C!PlanVars
       /\ Keeping(planVars', {"database", "region", "endpoints", "api", "rabbitComputed",
                                "feature", "connections"})
       /\ planVars'.infra = order.manifest.infra
  BY <1>0, <1>19, ConfigStored
<1>20. /\ planVars' \in C!PlanVars /\ planVars \in C!PlanVars
       /\ planVars'.database = planVars.database /\ planVars'.region = planVars.region
       /\ planVars'.api = planVars.api /\ planVars'.rabbitComputed = planVars.rabbitComputed
       /\ planVars'.feature = planVars.feature /\ planVars'.connections = planVars.connections
       /\ planVars'.infra = order.manifest.infra
  BY <1>0, <1>18, <1>19, <1>23 DEF Keeping
<1>21. C!Exists(planVars')
  BY <1>20, PlanFields
<1>1. OrderInv'
  BY <1>0 DEF AskSteps, C!Exists, C!Resting, C!Store, C!UpdateOpenStackModelConfigStep,
     DeploySteps, FeatureSteps, OrderKinds, IsManifest, OrderInv, StepsOf
<1>2. RowInv'
  BY <1>0 DEF AskSteps, C!Exists, C!Resting, C!Store, C!UpdateOpenStackModelConfigStep,
     DeploySteps, FeatureSteps, OrderKinds, IsManifest, RowFields, RowInv, OrderInv, StepsOf
<1>3. VarInv'
  BY <1>0, <1>20, <1>21 DEF C!Exists, C!Store, C!UpdateOpenStackModelConfigStep, VarInv
<1>4. AskedOnce'
  BY <1>0, <1>20, <1>21 DEF AskSteps, AskedOnce, C!Exists, C!Resting, C!Store,
     C!UpdateOpenStackModelConfigStep, DeploySteps, FeatureSteps, OrderKinds, IsManifest, VarInv,
     RowFields, RowInv, OrderInv, StepsOf
<1>5. SizesKept'
  BY <1>0, <1>20, <1>21 DEF CheckedSteps, AskSteps, C!Differs, C!Exists, C!Resting, C!Store,
     C!UpdateOpenStackModelConfigStep, C!check_storage_modifications_in_manifest, DeploySteps,
     FeatureSteps, OrderKinds, IsManifest, VarInv, RowFields, RowInv, OrderInv, SizesKept, StepsOf
<1>6. CharmsKept'
  BY <1>0, <1>20, <1>21 DEF AskSteps, C!Exists, C!Resting, C!Store,
     C!UpdateOpenStackModelConfigStep, CharmsKept, DeploySteps, FeatureSteps, OrderKinds,
     IsManifest, OrderInv, StepsOf
<1>7. FeatureKept'
  BY <1>0, <1>20, <1>21 DEF AskSteps, C!Exists, C!OnFeature, C!Resting, C!Services, C!Store,
     C!UpdateOpenStackModelConfigStep, DeploySteps, FeatureKept, FeatureSteps, OrderKinds,
     IsManifest, VarInv, RowFields, RowInv, OrderInv, StepsOf, Users
<1>8. ServesAnswers'
  BY <1>0, <1>20, <1>21 DEF AskSteps, C!Deploys, C!Exists, C!Resting, C!Store, C!Unanswered,
     C!UpdateOpenStackModelConfigStep, DeploySteps, FeatureSteps, OrderKinds, IsManifest,
     RowFields, RowInv, OrderInv, ServesAnswers, StepsOf
<1> QED
  BY <1>1, <1>2, <1>3, <1>4, <1>5, <1>6, <1>7, <1>8 DEF ControlPlaneInv

LEMMA PlanApplied ==
  ASSUME ControlPlaneInv, C!apply
  PROVE  ControlPlaneInv'
<1>0. OrderInv /\ RowInv /\ VarInv /\ AskedOnce /\ SizesKept /\ CharmsKept /\ FeatureKept /\ ServesAnswers
  BY DEF ControlPlaneInv
<1>1. OrderInv'
  BY <1>0 DEF AskSteps, C!End, C!Exists, C!OnFeature, C!Resting, C!apply, DeploySteps,
     FeatureSteps, OrderKinds, IsManifest, OrderInv, StepsOf
<1>2. RowInv'
  BY <1>0 DEF AskSteps, C!End, C!Exists, C!OnFeature, C!Resting, C!apply, DeploySteps,
     FeatureSteps, OrderKinds, IsManifest, RowFields, RowInv, OrderInv, StepsOf
<1>3. VarInv'
  BY <1>0 DEF C!End, C!Exists, C!OnFeature, C!apply, VarInv
<1>4. AskedOnce'
  BY <1>0 DEF AskSteps, AskedOnce, C!End, C!Exists, C!OnFeature, C!Resting, C!apply, DeploySteps,
     FeatureSteps, OrderKinds, IsManifest, VarInv, RowFields, RowInv, OrderInv, StepsOf
<1>5. SizesKept'
  BY <1>0 DEF CheckedSteps, AskSteps, C!Differs, C!End, C!Exists, C!OnFeature, C!Resting, C!apply,
     C!check_storage_modifications_in_manifest, DeploySteps, FeatureSteps, OrderKinds, IsManifest,
     VarInv, RowFields, RowInv, OrderInv, SizesKept, StepsOf
<1>6. CharmsKept'
  BY <1>0 DEF AskSteps, C!End, C!Exists, C!OnFeature, C!Resting, C!apply, CharmsKept, DeploySteps,
     FeatureSteps, OrderKinds, IsManifest, OrderInv, StepsOf
<1>7. FeatureKept'
  BY <1>0 DEF AskSteps, C!End, C!Exists, C!OnFeature, C!Resting, C!Services, C!apply, DeploySteps,
     FeatureKept, FeatureSteps, OrderKinds, IsManifest, VarInv, RowFields, RowInv, OrderInv,
     StepsOf, Users
<1>8. ServesAnswers'
  BY <1>0 DEF AskSteps, C!Deploys, C!End, C!Exists, C!OnFeature, C!Resting, C!Unanswered, C!apply,
     DeploySteps, FeatureSteps, OrderKinds, IsManifest, RowFields, RowInv, OrderInv,
     ServesAnswers, StepsOf
<1> QED
  BY <1>1, <1>2, <1>3, <1>4, <1>5, <1>6, <1>7, <1>8 DEF ControlPlaneInv

LEMMA TargetApplied ==
  ASSUME ControlPlaneInv, C!apply_target
  PROVE  ControlPlaneInv'
<1>0. OrderInv /\ RowInv /\ VarInv /\ AskedOnce /\ SizesKept /\ CharmsKept /\ FeatureKept /\ ServesAnswers
  BY DEF ControlPlaneInv
<1>1. OrderInv'
  BY <1>0 DEF AskSteps, C!End, C!Exists, C!Resting, C!apply_target, DeploySteps, FeatureSteps,
     OrderKinds, IsManifest, OrderInv, StepsOf
<1>2. RowInv'
  BY <1>0 DEF AskSteps, C!End, C!Exists, C!Resting, C!apply_target, DeploySteps, FeatureSteps,
     OrderKinds, IsManifest, RowFields, RowInv, OrderInv, StepsOf
<1>3. VarInv'
  <2>1. C!Exists(plane)
    BY <1>0 DEF OrderInv, StepsOf, AskSteps, DeploySteps, FeatureSteps, OrderKinds, C!apply_target
  <2>2. {plane, planVars} \subseteq C!PlanVars
    BY <1>0, <2>1 DEF VarInv, C!Exists
  <2>3. plane' = [plane EXCEPT !.proxy = planVars.proxy] /\ planVars' = planVars
    BY DEF C!apply_target
  <2>4. /\ plane'.proxy = planVars.proxy
        /\ \A k \in VarNames \ {"proxy"} : plane'[k] = plane[k]
        /\ plane' = [k \in VarNames |-> plane'[k]]
    BY <2>2, <2>3, PlanFields DEF VarNames
  <2>5. plane' \in C!PlanVars
    <3>1. planVars.proxy \in BOOLEAN
      BY <2>2, PlanFields
    <3>2. /\ plane'.database = plane.database /\ plane'.region = plane.region
          /\ plane'.mysql = plane.mysql /\ plane'.rabbit = plane.rabbit
          /\ plane'.rabbitComputed = plane.rabbitComputed /\ plane'.endpoints = plane.endpoints
          /\ plane'.api = plane.api /\ plane'.ha = plane.ha /\ plane'.ingress = plane.ingress
          /\ plane'.connections = plane.connections /\ plane'.ceph = plane.ceph
          /\ plane'.infra = plane.infra /\ plane'.feature = plane.feature
      BY <2>4 DEF VarNames
    <3>3. /\ plane'.database \in {"single", "multi"} /\ plane'.region \in {"none", "r1", "r2"}
          /\ plane'.mysql \in {"none", "20G", "40G"} /\ plane'.rabbit \in {"none", "4G", "8G"}
          /\ plane'.rabbitComputed \in BOOLEAN /\ plane'.endpoints \subseteq C!EndpointKeys
          /\ plane'.api \in 1..7 /\ plane'.ha \in {1, 3} /\ plane'.ingress \in 1..3 /\ plane'.connections \in Nat
          /\ plane'.ceph \in BOOLEAN /\ plane'.infra \in {1, 2} /\ plane'.feature \in BOOLEAN
      BY <2>2, <3>2, PlanFields
    <3> QED
      BY ONLY <2>4, <3>1, <3>3, PlanMade
  <2>6. C!Exists(plane') /\ C!Exists(planVars)
    BY <1>0, <2>1, <2>5, PlanFields DEF VarInv
  <2> QED
    BY <2>2, <2>3, <2>5, <2>6 DEF VarInv, C!Exists
<1>4. AskedOnce'
  BY <1>0 DEF AskSteps, AskedOnce, C!End, C!Exists, C!Resting, C!apply_target, DeploySteps,
     FeatureSteps, OrderKinds, IsManifest, VarInv, RowFields, RowInv, OrderInv, StepsOf
<1>5. SizesKept'
  BY <1>0 DEF CheckedSteps, AskSteps, C!Differs, C!End, C!Exists, C!Resting, C!apply_target,
     C!check_storage_modifications_in_manifest, DeploySteps, FeatureSteps, OrderKinds, IsManifest,
     VarInv, RowFields, RowInv, OrderInv, SizesKept, StepsOf
<1>6. CharmsKept'
  BY <1>0 DEF AskSteps, C!End, C!Exists, C!Resting, C!apply_target, CharmsKept, DeploySteps,
     FeatureSteps, OrderKinds, IsManifest, OrderInv, StepsOf
<1>7. FeatureKept'
  BY <1>0 DEF AskSteps, C!End, C!Exists, C!OnFeature, C!Resting, C!Services, C!apply_target,
     DeploySteps, FeatureKept, FeatureSteps, OrderKinds, IsManifest, VarInv, RowFields, RowInv,
     OrderInv, StepsOf, Users
<1>8. ServesAnswers'
  BY <1>0 DEF AskSteps, C!Deploys, C!End, C!Exists, C!Resting, C!Unanswered, C!apply_target,
     DeploySteps, FeatureSteps, OrderKinds, IsManifest, RowFields, RowInv, OrderInv,
     ServesAnswers, StepsOf
<1> QED
  BY <1>1, <1>2, <1>3, <1>4, <1>5, <1>6, <1>7, <1>8 DEF ControlPlaneInv

LEMMA FreshTyped == C!EarlierVars \in C!PlanVars
<1> DEFINE v == C!EarlierVars
<1>1. DOMAIN v = VarNames /\ v = [k \in VarNames |-> v[k]]
  BY FreshNames DEF C!EarlierVars
<1>2. /\ v.region = "r1" /\ v.connections = 1
      /\ \A k \in VarNames \ {"region", "connections"} : v[k] = C!FreshVars[k]
  BY FreshNames DEF C!EarlierVars, VarNames
<1>3. /\ C!FreshVars["database"] = "single" /\ C!FreshVars["mysql"] = "none"
      /\ C!FreshVars["rabbit"] = "none" /\ C!FreshVars["rabbitComputed"] = FALSE
      /\ C!FreshVars["endpoints"] = {} /\ C!FreshVars["proxy"] = FALSE
      /\ C!FreshVars["api"] = 1 /\ C!FreshVars["ha"] = 1 /\ C!FreshVars["ingress"] = 1
      /\ C!FreshVars["ceph"] = FALSE
      /\ C!FreshVars["feature"] = FALSE
  BY DEF C!FreshVars
<1>4. C!FreshVars["infra"] = 1
  BY GivenFields DEF C!FreshVars
<1> HIDE DEF v
<1>5. /\ v.database = "single" /\ v.mysql = "none" /\ v.rabbit = "none" /\ v.rabbitComputed = FALSE
      /\ v.endpoints = {} /\ v.proxy = FALSE /\ v.api = 1 /\ v.ha = 1 /\ v.ingress = 1
      /\ v.ceph = FALSE /\ v.infra = 1 /\ v.feature = FALSE
  BY <1>2, <1>3, <1>4 DEF VarNames
<1> QED
  <2>1. /\ v.database \in {"single", "multi"} /\ v.region \in {"none", "r1", "r2"}
        /\ v.mysql \in {"none", "20G", "40G"} /\ v.rabbit \in {"none", "4G", "8G"}
        /\ v.rabbitComputed \in BOOLEAN /\ v.endpoints \subseteq C!EndpointKeys /\ v.proxy \in BOOLEAN
        /\ v.api \in 1..7 /\ v.ha \in {1, 3} /\ v.ingress \in 1..3 /\ v.connections \in Nat
        /\ v.ceph \in BOOLEAN /\ v.infra \in {1, 2} /\ v.feature \in BOOLEAN
    <3>1. /\ v.database \in {"single", "multi"} /\ v.region \in {"none", "r1", "r2"}
          /\ v.mysql \in {"none", "20G", "40G"} /\ v.rabbit \in {"none", "4G", "8G"}
      BY <1>2, <1>5
    <3>2. v.rabbitComputed \in BOOLEAN /\ v.proxy \in BOOLEAN /\ v.ceph \in BOOLEAN
          /\ v.feature \in BOOLEAN
      BY <1>5
    <3>3. v.api \in 1..7 /\ v.ha \in {1, 3} /\ v.ingress \in 1..3 /\ v.connections \in Nat
          /\ v.infra \in {1, 2}
      BY <1>2, <1>5
    <3>4. v.endpoints \subseteq C!EndpointKeys
      BY <1>5
    <3> QED
      BY <3>1, <3>2, <3>3, <3>4
  <2>2. v \in C!PlanVars
    BY ONLY <1>1, <2>1, PlanMade
  <2> QED
    BY <2>2 DEF v

LEMMA EarlierFields ==
  /\ C!EarlierVars.database = "single" /\ C!EarlierVars.region = "r1"
  /\ C!EarlierVars.mysql = "none" /\ C!EarlierVars.rabbitComputed = FALSE
  /\ C!EarlierVars.api = 1 /\ C!EarlierVars.connections = 1 /\ C!EarlierVars.feature = FALSE
BY DEF C!EarlierVars, C!FreshVars

LEMMA RowsAtFirst ==
  /\ DOMAIN C!NoRows = RowFields /\ DOMAIN C!EarlierRows = RowFields
  /\ C!NoRows.database = "none" /\ C!NoRows.topology = "none" /\ C!NoRows.region = "none"
  /\ C!NoRows.endpoints = C!Unanswered /\ C!NoRows.proxy = FALSE /\ C!NoRows.model = FALSE
  /\ C!NoRows.services = {} /\ C!NoRows.mysql = "none" /\ C!NoRows.rabbit = "none"
  /\ C!EarlierRows.database = "single" /\ C!EarlierRows.topology = "multi"
  /\ C!EarlierRows.region = "r1"
  /\ C!EarlierRows.endpoints = C!Unanswered /\ C!EarlierRows.proxy = FALSE
  /\ C!EarlierRows.model = FALSE
  /\ C!EarlierRows.services = {"core"} /\ C!EarlierRows.mysql = "none" /\ C!EarlierRows.rabbit = "none"
BY DEF C!NoRows, C!EarlierRows, RowFields, C!None

LEMMA PlaneAtFirst == C!Init => ControlPlaneInv
<1> SUFFICES ASSUME C!Init PROVE ControlPlaneInv
  OBVIOUS
<1>1. /\ at = "idle" /\ order = C!Resting /\ unchecked = FALSE /\ halfway = FALSE
      /\ orderStops = 0 /\ orders = 0 /\ manifest = Plain /\ plane = planVars
      /\ \/ answered = C!NoRows /\ planVars = C!NoVars
         \/ answered = C!EarlierRows /\ planVars = C!EarlierVars
  BY DEF C!Init
<1>2. <<nodes, osdNodes>> \in Sites
  <2>1. PICK site \in Sites : nodes = site[1] /\ osdNodes = site[2]
    BY DEF C!Init
  <2>2. site = <<site[1], site[2]>>
    BY OpenStackAssumption
  <2> QED
    BY <2>1, <2>2
<1>3. C!Exists(C!EarlierVars) /\ ~C!Exists(C!NoVars)
  BY FreshTyped, PlanFields DEF C!Exists
<1>4. OrderInv
  BY <1>1 DEF OrderInv
<1>5. RowInv
  <2>1. DOMAIN answered = RowFields
    BY <1>1, RowsAtFirst
  <2>2. /\ answered.database \in {"none", "single", "multi"} /\ answered.region \in {"none", "r1", "r2"}
        /\ answered.topology \in {"none", "multi"} /\ answered.services \subseteq {"core"}
        /\ answered.mysql = "none" /\ answered.rabbit = "none"
    BY <1>1, RowsAtFirst
  <2>3. answered.endpoints = C!Unanswered /\ answered.proxy = FALSE /\ answered.model = FALSE
    BY <1>1, RowsAtFirst
  <2>4. answered.topology \in C!Topologies \cup {"none"} /\ answered.services \subseteq C!Services
    BY <2>2 DEF C!Topologies, C!Services
  <2>5. orderStops \in 0..MaxStops /\ orders \in 0..MaxCommands
    BY <1>1, OpenStackAssumption
  <2> QED
    BY <1>1, <1>2, <2>1, <2>2, <2>3, <2>4, <2>5 DEF RowInv, IsManifest
<1>6. VarInv
  BY <1>1, FreshTyped DEF VarInv
<1>7. AskedOnce
  BY <1>1, <1>3, RowsAtFirst, EarlierFields DEF AskedOnce, DeploySteps
<1>8. SizesKept
  BY <1>1, <1>3, RowsAtFirst, EarlierFields DEF SizesKept, CheckedSteps
<1>9. CharmsKept
  BY <1>1 DEF CharmsKept
<1>10. FeatureKept
  <2>1. C!EarlierVars.connections >= C!EarlierVars.api * 1
    BY EarlierFields
  <2>2. C!Exists(planVars) => Users = 1 /\ planVars = C!EarlierVars
    BY <1>1, <1>3, EarlierFields DEF Users
  <2> QED
    BY <1>1, <1>3, <2>1, <2>2, EarlierFields DEF FeatureKept
<1>11. ServesAnswers
  BY <1>1 DEF ServesAnswers, C!Deploys, C!Resting
<1> QED
  BY <1>4, <1>5, <1>6, <1>7, <1>8, <1>9, <1>10, <1>11 DEF ControlPlaneInv

LEMMA PlaneStep ==
  ASSUME ControlPlaneInv, [C!Next]_(C!vars)
  PROVE  ControlPlaneInv'
<1>1. CASE UNCHANGED C!vars
  BY <1>1 DEF ControlPlaneInv, C!vars, OrderInv, RowInv, VarInv, AskedOnce, SizesKept, CharmsKept,
     FeatureKept,
              ServesAnswers, Users, IsManifest, C!OnFeature, C!Deploys, C!Resting, C!Exists,
              C!check_storage_modifications_in_manifest, C!Differs
<1>2. C!Resting.manifest = Plain /\ C!Resting.endpoints = {} /\ C!Resting.proxy = FALSE
  BY DEF C!Resting
<1>3. IsManifest(manifest)
  BY DEF ControlPlaneInv, RowInv
<1>4. CASE C!bootstrap
  <2>1. PICK a \in {Answer(Plain, {}, FALSE), Answer(Other, {"ip"}, TRUE), Answer(Newer, {"hostname"}, FALSE)} :
           C!Give([kind |-> "bootstrap", manifest |-> a.manifest, endpoints |-> a.endpoints,
                   proxy |-> a.proxy], "manifest")
    BY <1>4 DEF C!bootstrap
  <2>2. IsManifest(a.manifest) /\ a.proxy \in BOOLEAN /\ a.endpoints \subseteq C!EndpointKeys
    <3>2. CASE a = Answer(Plain, {}, FALSE)
      <4>1. a.manifest = Plain /\ a.endpoints = {} /\ a.proxy = FALSE
        BY <3>2, SMT DEF Answer
      <4> QED
        BY <4>1 DEF IsManifest
    <3>3. CASE a = Answer(Other, {"ip"}, TRUE)
      <4>1. a.manifest = Other /\ a.endpoints = {"ip"} /\ a.proxy = TRUE
        BY <3>3, SMT DEF Answer
      <4> QED
        BY <4>1 DEF IsManifest, C!EndpointKeys
    <3>4. CASE a = Answer(Newer, {"hostname"}, FALSE)
      <4>1. a.manifest = Newer /\ a.endpoints = {"hostname"} /\ a.proxy = FALSE
        BY <3>4, SMT DEF Answer
      <4> QED
        BY <4>1 DEF IsManifest, C!EndpointKeys
    <3> QED
      BY <3>2, <3>3, <3>4
  <2> DEFINE o == [kind |-> "bootstrap", manifest |-> a.manifest, endpoints |-> a.endpoints,
                   proxy |-> a.proxy]
  <2>3. o.kind = "bootstrap" /\ o.manifest = a.manifest /\ o.proxy = a.proxy /\ o.endpoints = a.endpoints
    OBVIOUS
  <2> HIDE DEF o
  <2>4. C!Give(o, "manifest")
    BY <2>1 DEF o
  <2> QED
    BY <2>2, <2>3, <2>4, CommandGiven DEF OrderKinds, StepsOf, AskSteps
<1>5. ASSUME NEW kind \in {"resize", "refresh", "proxy", "enable", "disable"}, NEW m, IsManifest(m),
             NEW p \in BOOLEAN, NEW step \in {"validate", "clear", "proxy"},
             kind = "proxy" <=> step = "proxy", step = "clear" => kind = "refresh",
             C!Exists(plane), NEW o, o.kind = kind, o.manifest = m, o.endpoints = {}, o.proxy = p,
             C!Give(o, step)
      PROVE  ControlPlaneInv'
  BY <1>5, CommandGiven DEF OrderKinds, StepsOf, AskSteps, DeploySteps, FeatureSteps
<1>6. CASE C!resize
  <2> DEFINE o == [C!Resting EXCEPT !.kind = "resize", !.manifest = manifest]
  <2>1. o.kind = "resize" /\ o.manifest = manifest /\ o.endpoints = {} /\ o.proxy = FALSE
    BY DEF C!Resting
  <2>2. C!Exists(plane) /\ C!Give(o, "validate")
    BY <1>6 DEF C!resize
  <2> HIDE DEF o
  <2> QED
    BY <1>3, <1>5, <2>1, <2>2
<1>7. CASE C!refresh
  <2>1. ASSUME NEW m, IsManifest(m), NEW step \in {"validate", "clear"}, NEW o,
               o.kind = "refresh", o.manifest = m, o.endpoints = {}, o.proxy = FALSE, C!Give(o, step)
        PROVE  ControlPlaneInv'
    BY <1>5, <1>7, <2>1 DEF C!refresh
  <2>2. CASE \E m \in {Plain, Other, Newer} \cup {manifest} :
                C!Give([C!Resting EXCEPT !.kind = "refresh", !.manifest = m], "validate")
    <3>1. PICK m \in {Plain, Other, Newer} \cup {manifest} :
                C!Give([C!Resting EXCEPT !.kind = "refresh", !.manifest = m], "validate")
      BY <2>2
    <3> DEFINE o == [C!Resting EXCEPT !.kind = "refresh", !.manifest = m]
    <3>2. o.kind = "refresh" /\ o.manifest = m /\ o.endpoints = {} /\ o.proxy = FALSE
      BY DEF C!Resting
    <3>3. IsManifest(m)
      BY <1>3 DEF IsManifest
    <3>4. C!Give(o, "validate")
      BY <3>1
    <3> HIDE DEF o
    <3> QED
      BY <2>1, <3>2, <3>3, <3>4
  <2>3. CASE C!Give([C!Resting EXCEPT !.kind = "refresh"], "clear")
    <3> DEFINE o == [C!Resting EXCEPT !.kind = "refresh"]
    <3>2. o.kind = "refresh" /\ o.manifest = Plain /\ o.endpoints = {} /\ o.proxy = FALSE
      BY DEF C!Resting
    <3>3. IsManifest(Plain)
      BY DEF IsManifest
    <3>4. C!Give(o, "clear")
      BY <2>3
    <3> HIDE DEF o
    <3> QED
      BY <2>1, <3>2, <3>3, <3>4
  <2> QED
    BY <1>7, <2>2, <2>3 DEF C!refresh
<1>8. CASE C!_update_proxy
  <2>1. PICK p \in BOOLEAN :
           C!Give([C!Resting EXCEPT !.kind = "proxy", !.manifest = manifest, !.proxy = p], "proxy")
    BY <1>8 DEF C!_update_proxy
  <2> DEFINE o == [C!Resting EXCEPT !.kind = "proxy", !.manifest = manifest, !.proxy = p]
  <2>2. o.kind = "proxy" /\ o.manifest = manifest /\ o.endpoints = {} /\ o.proxy = p
    BY DEF C!Resting
  <2>3. C!Exists(plane) /\ C!Give(o, "proxy")
    BY <1>8, <2>1 DEF C!_update_proxy
  <2> HIDE DEF o
  <2> QED
    BY <1>3, <1>5, <2>2, <2>3
<1>9. CASE C!feature
  <2>1. PICK kind \in {"enable", "disable"} :
           C!Give([C!Resting EXCEPT !.kind = kind, !.manifest = manifest], "validate")
    BY <1>9 DEF C!feature
  <2> DEFINE o == [C!Resting EXCEPT !.kind = kind, !.manifest = manifest]
  <2>2. o.kind = kind /\ o.manifest = manifest /\ o.endpoints = {} /\ o.proxy = FALSE
    BY DEF C!Resting
  <2>3. C!Exists(plane) /\ C!Give(o, "validate")
    BY <1>9, <2>1 DEF C!feature
  <2> HIDE DEF o
  <2> QED
    BY <1>3, <1>5, <2>2, <2>3
<1>10. CASE C!Hosts
  BY <1>10, HostsJoin
<1>11. ASSUME C!Fail PROVE ControlPlaneInv'
  <2>1. orderStops' \in 0..MaxStops
    BY <1>11 DEF C!Fail, ControlPlaneInv, RowInv
  <2> QED
    BY <1>11, <2>1, CommandEnded DEF C!Fail
<1>12. CASE C!Stop
  <2>1. orderStops' \in 0..MaxStops
    BY <1>12, OpenStackAssumption DEF C!Stop, ControlPlaneInv, RowInv
  <2> QED
    BY <1>12, <2>1, CommandEnded DEF C!Stop
<1>13. CASE C!ValidateInfraAppsStep
  <2>1. CASE C!pending_infra_app_changes(order.manifest)
    BY <1>11, <1>13, <2>1 DEF C!ValidateInfraAppsStep
  <2>2. CASE ~C!pending_infra_app_changes(order.manifest)
    BY <1>13, <2>2, GatePassed
  <2> QED
    BY <2>1, <2>2
<1>14. CASE C!DeployIsSkip
  <2>1. CASE C!check_storage_modifications_in_manifest(order.manifest)
    BY <1>11, <1>14, <2>1 DEF C!DeployIsSkip
  <2>2. CASE ~C!check_storage_modifications_in_manifest(order.manifest)
    BY <1>14, <2>2, CheckPassed
  <2> QED
    BY <2>1, <2>2
<1>15. CASE \/ C!AddManifestStep \/ C!PromptForProxyStep \/ C!PromptDatabaseTopologyStep
            \/ C!PromptRegionStep \/ C!EndpointsConfigurationStep \/ C!WriteTopology
            \/ C!WriteModelConfig \/ C!write_database_resource_dict
            \/ C!write_database_storage_dict \/ C!WriteRabbitmqStorage
  BY <1>15, ManifestStored, ProxyAnswered, DatabaseAnswered, RegionAnswered, EndpointsAnswered,
     TopologyWritten, ModelWritten, ServicesWritten, SizesWritten, RabbitWritten
<1>16. CASE \/ C!DeployControlPlaneStep \/ C!ReapplyOpenStackTerraformPlanStep
            \/ C!OpenStackApplicationStep \/ C!UpdateOpenStackModelConfigStep
            \/ C!apply \/ C!apply_target
  BY <1>16, DeploymentStored, ReapplicationStored, FeatureChangeStored, ProxyChangeStored,
     PlanApplied, TargetApplied
<1> QED
  BY <1>1, <1>4, <1>6, <1>7, <1>8, <1>9, <1>10, <1>12, <1>13, <1>14, <1>15, <1>16 DEF C!Next, C!Step

LEMMA PlaneTyped == ControlPlaneInv => C!TypeOK
BY DEF ControlPlaneInv, OrderInv, RowInv, VarInv, IsManifest, C!TypeOK, C!None

LEMMA PlaneQuiet ==
  ASSUME plane' = plane, at # "apply" \/ at' # "idle" \/ orderStops' # orderStops
  PROVE  C!Keeps
BY DEF C!Keeps

LEMMA ApplyKeeps ==
  ASSUME ControlPlaneInv, C!apply
  PROVE  C!Keeps
<1>0. OrderInv /\ RowInv /\ VarInv /\ AskedOnce /\ SizesKept /\ CharmsKept /\ FeatureKept /\ ServesAnswers
  BY DEF ControlPlaneInv
<1>1. /\ at = "apply" /\ at' = "idle" /\ orderStops' = orderStops /\ plane' = planVars
      /\ answered' = answered /\ halfway' = (halfway /\ ~C!OnFeature)
  BY DEF C!apply, C!End
<1>2. order.kind \in {"bootstrap", "resize", "refresh", "enable", "disable"}
  BY <1>0, <1>1 DEF OrderInv, OrderKinds, StepsOf
<1>3. C!Exists(planVars)
  BY <1>0, <1>1 DEF CharmsKept
<1>4. C!Exists(plane) =>
        /\ plane'.database = plane.database /\ plane'.region = plane.region
        /\ ~unchecked => /\ plane.mysql # "none" => plane'.mysql = plane.mysql
                         /\ plane.rabbitComputed => plane'.rabbit = plane.rabbit
        /\ plane'.infra # plane.infra => order.kind = "bootstrap"
        /\ plane'.feature # plane.feature => C!OnFeature \/ halfway
  BY <1>0, <1>1, <1>2 DEF VarInv, AskedOnce, SizesKept, CharmsKept, FeatureKept
<1>5. ~halfway' => plane'.connections >= plane'.api * (IF plane'.feature THEN 2 ELSE 1)
  BY <1>0, <1>1, <1>3 DEF FeatureKept, Users
<1>6. C!Deploys => C!Served'
  BY <1>0, <1>1, <1>3 DEF C!Served, AskedOnce, ServesAnswers
<1>7. order.kind = "bootstrap" => plane'.proxy = answered.proxy
  BY <1>0, <1>1 DEF ServesAnswers, C!Deploys
<1> QED
  BY <1>1, <1>4, <1>5, <1>6, <1>7 DEF C!Keeps

LEMMA PlaneKeeps ==
  ASSUME ControlPlaneInv, [C!Next]_(C!vars)
  PROVE  [C!Keeps]_(C!vars)
<1> SUFFICES ASSUME C!Next PROVE C!Keeps
  OBVIOUS
<1>1. CASE C!apply
  BY <1>1, ApplyKeeps
<1>2. CASE C!apply_target
  <2>1. plane \in C!PlanVars
    BY <1>2 DEF ControlPlaneInv, OrderInv, StepsOf, AskSteps, DeploySteps, FeatureSteps,
       OrderKinds, VarInv, C!apply_target, C!Exists
  <2>2. /\ plane'.database = plane.database /\ plane'.region = plane.region
        /\ plane'.mysql = plane.mysql /\ plane'.rabbit = plane.rabbit
        /\ plane'.infra = plane.infra /\ plane'.feature = plane.feature
    BY <1>2, <2>1, PlanFields DEF C!apply_target, VarNames
  <2>3. at = "target"
    BY <1>2 DEF C!apply_target
  <2> QED
    BY <2>2, <2>3 DEF C!Keeps
<1>3. CASE \/ C!bootstrap \/ C!resize \/ C!refresh \/ C!_update_proxy \/ C!feature
  BY <1>3, PlaneQuiet DEF C!bootstrap, C!resize, C!refresh, C!_update_proxy, C!feature, C!Give
<1>4. CASE C!Hosts
  BY <1>4, PlaneQuiet DEF C!Hosts
<1>5. CASE C!Stop
  BY <1>5, PlaneQuiet DEF C!Stop, ControlPlaneInv, RowInv
<1>6. CASE C!ValidateInfraAppsStep
  BY <1>6, PlaneQuiet DEF C!ValidateInfraAppsStep, C!Fail
<1>7. CASE C!DeployIsSkip
  BY <1>7, PlaneQuiet DEF C!DeployIsSkip, C!Fail
<1>8. CASE C!AddManifestStep
  BY <1>8, PlaneQuiet DEF C!AddManifestStep
<1>9. CASE \/ C!PromptForProxyStep \/ C!PromptDatabaseTopologyStep
           \/ C!PromptRegionStep \/ C!EndpointsConfigurationStep \/ C!WriteTopology
           \/ C!WriteModelConfig \/ C!write_database_resource_dict
           \/ C!write_database_storage_dict \/ C!WriteRabbitmqStorage
  BY <1>9, PlaneQuiet DEF C!PromptForProxyStep, C!PromptDatabaseTopologyStep, C!PromptRegionStep,
     C!EndpointsConfigurationStep, C!WriteTopology, C!WriteModelConfig, C!write_database_resource_dict,
     C!write_database_storage_dict, C!WriteRabbitmqStorage, C!Write
<1>10. CASE \/ C!DeployControlPlaneStep \/ C!ReapplyOpenStackTerraformPlanStep
            \/ C!OpenStackApplicationStep \/ C!UpdateOpenStackModelConfigStep
  BY <1>10, PlaneQuiet DEF C!DeployControlPlaneStep, C!ReapplyOpenStackTerraformPlanStep,
     C!OpenStackApplicationStep, C!UpdateOpenStackModelConfigStep, C!Store
<1> QED
  BY <1>1, <1>2, <1>3, <1>4, <1>5, <1>6, <1>7, <1>8, <1>9, <1>10 DEF C!Next, C!Step

----------------------------------------------------------------------------
(* The two parts together                                                  *)

\* No application has more backups than the bound, so that the one that stands
\* for a point in time is none of them.
BoundInv ==
  /\ \A a \in Backed : Len(repo[a]) <= MaxBackups /\ doing[a] \in 0..PointInTime
  /\ pc = "resolve" => \A a \in Backed : Len(repo[a]) < MaxBackups

LEMMA BoundInit == Init => BoundInv
BY ModelAssumption, BoundsAssumption DEF Init, BoundInv, None, PointInTime

LEMMA BoundStep ==
  ASSUME ProgramInv, BoundInv, [Next]_bvars
  PROVE  BoundInv'
<1>0. /\ \A a \in Backed : repo[a] \in Seq(Statuses) /\ Len(repo[a]) \in Nat
      /\ repo \in [Backed -> Seq(Statuses)] /\ doing \in [Backed -> Nat]
  BY DEF ProgramInv, TypeInv, JujuTypes
<1>t. TypeInv /\ JujuTypes /\ CommandTypes /\ PhaseInv
  BY DEF ProgramInv, TypeInv
<1>1. ASSUME NEW a \in Backed PROVE Len(repo'[a]) <= MaxBackups
  <2>1. CASE ResolveBackupTargets
    <3>1. Len(repo[a]) < MaxBackups
      BY <2>1 DEF ResolveBackupTargets, BoundInv
    <3>2. repo'[a] = repo[a] \/ repo'[a] = Append(repo[a], "running")
      BY <2>1 DEF ResolveBackupTargets
    <3>3. CASE repo'[a] = repo[a]
      BY <3>3 DEF BoundInv
    <3>4. CASE repo'[a] = Append(repo[a], "running")
      <4>1. Len(repo'[a]) = Len(repo[a]) + 1
        BY <1>0, <3>4 DEF Statuses
      <4> QED
        BY <1>0, <3>1, <4>1, BoundsAssumption
    <3> QED
      BY <3>2, <3>3, <3>4
  <2>2. CASE ~ResolveBackupTargets
    <3>1. Len(repo'[a]) = Len(repo[a])
      BY <2>2, <1>t, RepoGrows
    <3> QED
      BY <3>1 DEF BoundInv
  <2> QED
    BY <2>1, <2>2
<1>2. ASSUME NEW a \in Backed PROVE doing'[a] \in 0..PointInTime
  <2>1. RestoreParams(a) \in 0..PointInTime
    <3>1. LatestBackup(a) \in Nat /\ (LatestBackup(a) # 0 => LatestBackup(a) \in DOMAIN repo[a])
      BY <1>0, LatestIsNewest
    <3>2. DOMAIN repo[a] = 1..Len(repo[a]) /\ Len(repo[a]) <= MaxBackups
      BY <1>0 DEF BoundInv
    <3>3. LatestBackup(a) <= MaxBackups
      BY <1>0, <3>1, <3>2, BoundsAssumption
    <3> QED
      BY <3>1, <3>3, BoundsAssumption DEF RestoreParams, PointInTime
  <2>2. 0 \in 0..PointInTime
    BY BoundsAssumption DEF PointInTime
  <2>3. doing'[a] \in {doing[a], 0, RestoreParams(a)}
    <3>1. CASE Command \/ Decline \/ Kill \/ UNCHANGED bvars
      BY <3>1 DEF Command, Validate, Decline, Kill, juju, bvars
    <3>2. CASE RunStep
      <4>1. doing' = doing \/ doing' = [doing EXCEPT ![Now.app] = RestoreParams(Now.app)]
            \/ Now.op \notin {"pause", "resume", "scale", "restore"}
        BY <3>2 DEF RunStep, StepEffect
      <4>2. plan # <<>> /\ pc \in {"run", "revert"}
        BY <3>2 DEF RunStep
      <4> QED
        <5>1. /\ App \in Backed
              /\ Now \in Quieting(App) \cup {Restore(App)} \cup Restoring(App, began.units)
          BY <1>t, <4>2, NowIs DEF Running
        <5>2. began.units \in [DOMAIN Scale0 -> Nat]
          BY <1>t DEF CommandTypes
        <5>3. Now.op \in {"pause", "resume", "scale", "restore"}
          BY <5>1, <5>2, StepKinds
        <5> QED
          BY <1>0, <4>1, <5>3
    <3>3. CASE Step /\ ~RunStep
      BY <3>3 DEF Step, ResolveBackupTargets, BackupReturns, BackupDone,
         ListBackups, UnresolvedTarget, NothingMore, PrepareRestore, PrecheckFails, NextApp,
         AppRestored, AppReverted, StepReturns, StepFails, juju
    <3>4. CASE Outside
      BY <1>0, <3>4 DEF Outside, BackupEnds, UnitsFollow, RestoreEnds, None
    <3> QED
      BY <3>1, <3>2, <3>3, <3>4 DEF Next
  <2> QED
    BY <2>1, <2>2, <2>3 DEF BoundInv
<1>3. pc' = "resolve" => \A a \in Backed : Len(repo'[a]) < MaxBackups
  <2> SUFFICES ASSUME pc' = "resolve", NEW a \in Backed PROVE Len(repo'[a]) < MaxBackups
    OBVIOUS
  <2>1. CASE pc = "resolve"
    <3>1. ~ResolveBackupTargets
      BY DEF ResolveBackupTargets
    <3>2. Len(repo'[a]) = Len(repo[a])
      BY <3>1, <1>t, RepoGrows
    <3> QED
      BY <2>1, <3>2 DEF BoundInv
  <2>2. CASE pc # "resolve"
    <3>1. Command
      BY <2>2 DEF Next, Step, Outside, Decline, Kill, Exit, bvars, ResolveBackupTargets, BackupReturns, BackupDone,
         ListBackups, UnresolvedTarget, NothingMore, PrepareRestore, PrecheckFails, NextApp, RunStep,
         AppRestored, AppReverted, StepReturns, StepFails, BackupEnds, UnitsFollow, RestoreEnds
    <3>2. /\ \A b \in Backed : Len(repo[b]) < MaxBackups
          /\ repo' = repo
      BY <3>1 DEF Command, Validate, juju
    <3> QED
      BY <3>2
  <2> QED
    BY <2>1, <2>2
<1> QED
  BY <1>1, <1>2, <1>3 DEF BoundInv

\* The state of each part has its types: no application has more backups than the
\* id that stands for a point in time, stored variables are complete, and
\* what is deployed was stored before (_BackupAppStep, update_tfvars_and_apply_tf).
THEOREM PartsHaveTheirTypes == PartSpec => []PartTypeOK
<1> DEFINE Both == QuietIInv /\ BoundInv /\ ControlPlaneInv
<1>1. PartInit => Both
  BY QuietIInit, BoundInit, PlaneAtFirst DEF PartInit
<1>2. Both /\ [PartNext]_<<part, bvars, cvars>> => Both'
  <2> SUFFICES ASSUME Both, [PartNext]_<<part, bvars, cvars>> PROVE Both'
    OBVIOUS
  <2>1. [Next]_bvars
    BY DEF PartNext
  <2>2. [C!Next]_(C!vars)
    BY DEF PartNext, cvars, C!vars
  <2>3. ProgramInv
    BY DEF QuietIInv
  <2> QED
    BY <2>1, <2>2, <2>3, QuietIStep, BoundStep, PlaneStep
<1>3. Both => PartTypeOK
  <2> SUFFICES ASSUME Both PROVE TypeOK
    BY PlaneTyped DEF PartTypeOK
  <2>1. JujuTypes /\ CommandTypes /\ PhaseInv
    BY DEF QuietIInv, ProgramInv, TypeInv
  <2>2. \A a \in Backed : Len(repo[a]) < PointInTime /\ doing[a] \in 0..PointInTime
    <3> SUFFICES ASSUME NEW a \in Backed PROVE Len(repo[a]) < PointInTime /\ doing[a] \in 0..PointInTime
      OBVIOUS
    <3>1. Len(repo[a]) \in Nat
      BY <2>1 DEF JujuTypes
    <3> QED
      BY <3>1, BoundsAssumption DEF BoundInv, PointInTime
  <2> QED
    BY <2>1, <2>2 DEF JujuTypes, CommandTypes, PhaseInv, Running, TypeOK
<1> HIDE DEF Both
<1> QED
  BY <1>1, <1>2, <1>3, PTL DEF PartSpec

\* What the commands keep of a cluster that is deployed: the databases and the region,
\* the sizes, the charms, the feature; and what a deployment serves
\* (DeployControlPlaneStep, ValidateInfraAppsStep, check_storage_modifications_in_manifest).
THEOREM ControlPlaneIsKept == PartSpec => ControlPlaneKept
<1>1. PartInit => ControlPlaneInv
  BY PlaneAtFirst DEF PartInit
<1>2. [PartNext]_<<part, bvars, cvars>> => [C!Next]_(C!vars)
  BY DEF PartNext, cvars, C!vars
<1>3. ControlPlaneInv /\ [PartNext]_<<part, bvars, cvars>> => ControlPlaneInv'
  BY <1>2, PlaneStep
<1>4. ControlPlaneInv /\ [PartNext]_<<part, bvars, cvars>> => [C!Keeps]_(C!vars)
  BY <1>2, PlaneKeeps
<1> QED
  BY <1>1, <1>3, <1>4, PTL DEF PartSpec, ControlPlaneKept, C!ControlPlaneKept

=============================================================================
