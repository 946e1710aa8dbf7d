--------------------------- MODULE MaasSiteProofs ---------------------------
(***************************************************************************)
(* For any machines, disks and tags and any number of changes of the site: *)
(* what passes validation is deployed, but for the divergences that        *)
(* MaasSite names, and the disks of a completed deploy are the tagged ones. *)
(* For any hosts and systems and any number of machines, kills, removals   *)
(* and replacements: what deploy decides about the machines is right.      *)
(***************************************************************************)
EXTENDS MCMaas, FiniteSetTheorems, FunctionTheorems, WellFoundedInduction, TLAPS

----------------------------------------------------------------------------
(* The inductive invariant                                                 *)

\* Steps of a deploy in which clusterd has the rows this deploy wrote, and in
\* which the disks to add were chosen
Written == {"counts", "k8s", "choose", "add", "end"}
Chosen == {"add", "end"}

SiteTypes ==
  /\ site \in [roles : [Machines -> SUBSET Roles], has : [Machines -> SUBSET Attributes],
               disks : [Machines -> SUBSET Disks], mapped : BOOLEAN, ranges : SUBSET Labels]
  /\ gate \in BOOLEAN

DeploymentTypes ==
  /\ rows \in [Machines -> SUBSET Roles]
  /\ osds \in [Machines -> SUBSET (Disks \ Partitioned)]
  /\ adding \in [Machines -> SUBSET (Disks \ Partitioned)]
  /\ pc \in {"none", "rows"} \cup Written
  /\ report \in {"none", "passed", "failed"} /\ fresh \in BOOLEAN
  /\ pc # "none" => last = "none"
  /\ pc # "add" => adding = None

TypeInv == SiteTypes /\ DeploymentTypes

\* What passed validation passes it still, and since before the running deploy.
PassedInv ==
  report = "passed" =>
    /\ DeploymentMachinesCheck /\ DeploymentTopologyCheck /\ IpRangesCheck
    /\ pc # "none" => fresh

\* On a site that did not change, clusterd has the tags of its machines, and every
\* tagged disk is an OSD or about to be one.
Done == last = "deployed"
RowsInv ==
  fresh /\ (pc \in Written \/ Done) => \A m \in Rowed : rows[m] = site.roles[m]
OsdsInv ==
  fresh /\ (pc \in Chosen \/ Done) =>
    \A m \in RowsOf("storage") : osds[m] \cup adding[m] = site.disks[m]

IInv == TypeInv /\ PassedInv /\ RowsInv /\ OsdsInv

----------------------------------------------------------------------------
(* Types                                                                   *)

LEMMA TypeInit == Init => TypeInv
<1> SUFFICES ASSUME Init PROVE TypeInv
  OBVIOUS
<1>1. PICK roles \in Sites :
        site = [roles |-> roles, has |-> [m \in Machines |-> Attributes],
                disks |-> [m \in Machines |-> Disks \ Partitioned], mapped |-> TRUE, ranges |-> Labels]
  BY DEF Init
<1>2. roles \in [Machines -> SUBSET Roles]
  BY SiteAssumption
<1>3. SiteTypes
  BY <1>1, <1>2 DEF Init, SiteTypes
<1>4. DeploymentTypes
  BY DEF Init, DeploymentTypes, None
<1> QED
  BY <1>3, <1>4 DEF TypeInv

\* The operator changes the site and nothing else.
LEMMA OperatorStep ==
  ASSUME SiteTypes, Operator
  PROVE  /\ SiteTypes' /\ report' = "none" /\ fresh' = FALSE
         /\ UNCHANGED <<gate, up, rows, osds, adding, pc, last>>
<1>1. CASE map_spaces \/ unmap_spaces
  BY <1>1 DEF map_spaces, unmap_spaces, Changed, Rest, SiteTypes
<1>2. CASE SetRange
  <2>1. PICK l \in Labels : site' = [site EXCEPT !.ranges = Flip(@, l)]
    BY <1>2 DEF SetRange
  <2>2. Flip(site.ranges, l) \subseteq Labels
    BY DEF Flip, SiteTypes
  <2> QED
    BY <1>2, <2>1, <2>2 DEF SetRange, Changed, Rest, SiteTypes
<1>3. ASSUME NEW m \in Machines, Retag(m)
      PROVE  SiteTypes' /\ report' = "none" /\ fresh' = FALSE
             /\ UNCHANGED <<gate, up, rows, osds, adding, pc, last>>
  <2>1. PICK roles \in RoleSets : site' = [site EXCEPT !.roles[m] = roles]
    BY <1>3 DEF Retag
  <2>2. roles \in SUBSET Roles
    BY SiteAssumption
  <2> QED
    BY <1>3, <2>1, <2>2 DEF Retag, Changed, Rest, SiteTypes
<1>4. ASSUME NEW m \in Machines, Rewire(m)
      PROVE  SiteTypes' /\ report' = "none" /\ fresh' = FALSE
             /\ UNCHANGED <<gate, up, rows, osds, adding, pc, last>>
  <2>1. PICK a \in Attributes : site' = [site EXCEPT !.has[m] = Flip(@, a)]
    BY <1>4 DEF Rewire
  <2>2. Flip(site.has[m], a) \in SUBSET Attributes
    BY DEF Flip, SiteTypes
  <2> QED
    BY <1>4, <2>1, <2>2 DEF Rewire, Changed, Rest, SiteTypes
<1>5. ASSUME NEW m \in Machines, RetagDisk(m)
      PROVE  SiteTypes' /\ report' = "none" /\ fresh' = FALSE
             /\ UNCHANGED <<gate, up, rows, osds, adding, pc, last>>
  <2>1. PICK d \in Disks : site' = [site EXCEPT !.disks[m] = Flip(@, d)]
    BY <1>5 DEF RetagDisk
  <2>2. Flip(site.disks[m], d) \in SUBSET Disks
    BY DEF Flip, SiteTypes
  <2> QED
    BY <1>5, <2>1, <2>2 DEF RetagDisk, Changed, Rest, SiteTypes
<1> QED
  BY <1>1, <1>2, <1>3, <1>4, <1>5 DEF Operator

LEMMA AddMachinesTypes ==
  ASSUME TypeInv
  PROVE  AddMachines \in [Machines -> SUBSET Roles]
BY DEF AddMachines, Rowed, Listed, TypeInv, SiteTypes, DeploymentTypes

LEMMA TypeStep ==
  ASSUME TypeInv, [Next]_vars
  PROVE  TypeInv'
<1>0. SiteTypes /\ DeploymentTypes
  BY DEF TypeInv
<1>a. None \in [Machines -> SUBSET (Disks \ Partitioned)]
  BY DEF None
<1>1. CASE Operator
  <2>1. SiteTypes' /\ report' = "none" /\ fresh' = FALSE
        /\ UNCHANGED <<up, rows, osds, adding, pc, last>>
    BY <1>0, <1>1, OperatorStep
  <2> QED
    BY <1>0, <1>a, <2>1 DEF TypeInv, DeploymentTypes
<1>2. CASE ~Operator
  <2>1. UNCHANGED <<site, gate>>
    BY <1>2 DEF Next, validate_deployment_cmd, Bootstrap, Deploy, DeploySteps, DeployStops, Configure,
       RemoveNode, AddMachinesToClusterd, CountRoles, DeployK8S, ConfigureOSDIsSkip, AddOsds,
       DeployEnds, Refuse, EndedWith, world, vars
  <2>2. SiteTypes'
    BY <1>0, <1>a, <2>1 DEF SiteTypes
  <2> SUFFICES DeploymentTypes'
    BY <2>2 DEF TypeInv
  <2>3. AddMachines \in [Machines -> SUBSET Roles]
    BY AddMachinesTypes
  <2>4. CASE validate_deployment_cmd \/ UNCHANGED vars
    BY <1>0, <1>a, <2>4 DEF validate_deployment_cmd, DeploymentTypes, vars
  <2>5. CASE Bootstrap \/ Deploy \/ Configure
    BY <1>0, <1>a, <2>3, <2>5 DEF Bootstrap, Deploy, Configure, Refuse, EndedWith, DeploymentTypes
  <2>6. CASE AddMachinesToClusterd \/ CountRoles \/ DeployK8S \/ DeployEnds \/ DeployStops
    BY <1>0, <1>a, <2>3, <2>6 DEF AddMachinesToClusterd, CountRoles, DeployK8S, DeployEnds, DeployStops,
       Refuse, EndedWith, DeploymentTypes, Written
  <2>7. CASE ConfigureOSDIsSkip
    <3>1. CASE \A m \in RowsOf("storage") : _compute_disks_to_configure(m)
      <4>1. adding' = [m \in Machines |->
                         IF m \in RowsOf("storage") THEN MaasDisks(m) \cap Unpartitioned(m) ELSE {}]
        BY <2>7, <3>1 DEF ConfigureOSDIsSkip
      <4>2. adding' \in [Machines -> SUBSET (Disks \ Partitioned)]
        BY <4>1 DEF Unpartitioned
      <4> QED
        BY <1>0, <1>a, <2>7, <3>1, <4>2 DEF ConfigureOSDIsSkip, DeploymentTypes, Written
    <3>2. CASE ~ \A m \in RowsOf("storage") : _compute_disks_to_configure(m)
      BY <1>0, <1>a, <2>7, <3>2 DEF ConfigureOSDIsSkip, Refuse, EndedWith, DeploymentTypes, Written
    <3> QED
      BY <3>1, <3>2
  <2>8. CASE AddOsds
    <3>1. PICK m \in Machines : /\ osds' = [osds EXCEPT ![m] = @ \cup adding[m]]
                                /\ adding' = [adding EXCEPT ![m] = {}]
      BY <2>8 DEF AddOsds
    <3>2. osds[m] \cup adding[m] \in SUBSET (Disks \ Partitioned)
      BY <1>0 DEF DeploymentTypes
    <3> QED
      BY <1>0, <1>a, <2>8, <3>1, <3>2 DEF AddOsds, DeploymentTypes, Written
  <2>9. CASE \E m \in Machines : RemoveNode(m)
    BY <1>0, <1>a, <2>9 DEF RemoveNode, DeploymentTypes
  <2> QED
    BY <1>2, <2>4, <2>5, <2>6, <2>7, <2>8, <2>9 DEF Next, DeploySteps
<1> QED
  BY <1>1, <1>2

LEMMA TypesHold == TypeInv => TypeOK
<1> SUFFICES ASSUME TypeInv PROVE TypeOK
  OBVIOUS
<1>1. \A m \in Machines : adding[m] # {} => pc = "add"
  BY DEF TypeInv, DeploymentTypes, None
<1> QED
  BY <1>1 DEF TypeInv, SiteTypes, DeploymentTypes, TypeOK

\* The site, the rows and what is deployed always have their types: disks with
\* partitions become no OSDs, and OSDs are added by a running deploy only.
THEOREM TypeCorrect == Spec => []TypeOK
BY TypesHold, TypeInit, TypeStep, PTL DEF Spec

----------------------------------------------------------------------------
(* What holds of a site and of its deployment                              *)

\* The checks read the site only.
LEMMA SameSite ==
  ASSUME UNCHANGED <<site, gate>>
  PROVE  /\ DeploymentMachinesCheck' <=> DeploymentMachinesCheck
         /\ DeploymentTopologyCheck' <=> DeploymentTopologyCheck
         /\ IpRangesCheck' <=> IpRangesCheck
         /\ Rowed' = Rowed
<1>1. Listed' = Listed
  BY DEF Listed
<1>2. \A role : Tagged(role)' = Tagged(role)
  BY <1>1 DEF Tagged
<1>3. DeploymentMachinesCheck' <=> DeploymentMachinesCheck
  BY <1>1 DEF DeploymentMachinesCheck, MachineRolesCheck, MachineNetworkCheck, MachineStorageCheck,
     MachineComputeNicCheck, MachineRootDiskCheck, Has
<1>4. DeploymentTopologyCheck' <=> DeploymentTopologyCheck
  <2>1. _has_region_controllers' <=> _has_region_controllers
    BY <1>2 DEF _has_region_controllers
  <2>2. \A role, min, max : DeploymentRolesCheck(role, min, max)' <=> DeploymentRolesCheck(role, min, max)
    BY <1>2 DEF DeploymentRolesCheck
  <2> QED
    BY <1>1, <2>1, <2>2 DEF DeploymentTopologyCheck
<1>5. IpRangesCheck' <=> IpRangesCheck
  BY DEF IpRangesCheck
<1>6. Rowed' = Rowed
  BY <1>1 DEF Rowed, EnabledRoles
<1> QED
  BY <1>3, <1>4, <1>5, <1>6

\* Only the operator changes the site.
LEMMA SiteRests ==
  ASSUME [Next]_vars, ~Operator
  PROVE  UNCHANGED <<site, gate>>
BY DEF Next, validate_deployment_cmd, Bootstrap, Deploy, DeploySteps, DeployStops, Configure,
   RemoveNode, AddMachinesToClusterd, CountRoles, DeployK8S, ConfigureOSDIsSkip, AddOsds,
   DeployEnds, Refuse, EndedWith, world, vars

LEMMA PassedStep ==
  ASSUME TypeInv, PassedInv, [Next]_vars
  PROVE  PassedInv'
<1>0. SiteTypes /\ DeploymentTypes
  BY DEF TypeInv
<1>1. CASE Operator
  <2>1. report' = "none"
    BY <1>0, <1>1, OperatorStep
  <2> QED
    BY <2>1 DEF PassedInv
<1>2. CASE ~Operator
  <2> SUFFICES ASSUME report' = "passed"
               PROVE  /\ DeploymentMachinesCheck' /\ DeploymentTopologyCheck' /\ IpRangesCheck'
                      /\ pc' # "none" => fresh'
    BY DEF PassedInv
  <2>1. UNCHANGED <<site, gate>>
    BY <1>2, SiteRests
  <2>2. CASE validate_deployment_cmd
    <3>1. DeploymentMachinesCheck /\ DeploymentTopologyCheck /\ IpRangesCheck /\ pc' = "none"
      BY <2>2 DEF validate_deployment_cmd
    <3> QED
      BY <2>1, <3>1, SameSite
  <2>3. CASE ~validate_deployment_cmd
    <3>1. report' = report
      BY <1>2, <2>3 DEF Next, Bootstrap, Deploy, DeploySteps, DeployStops, Configure,
         RemoveNode, AddMachinesToClusterd, CountRoles, DeployK8S, ConfigureOSDIsSkip, AddOsds,
         DeployEnds, Refuse, EndedWith, vars
    <3>2. pc' # "none" /\ (pc # "none" => fresh) => fresh'
      <4>1. CASE Deploy
        BY <4>1 DEF Deploy, Refuse, EndedWith
      <4>2. CASE \E m \in Machines : RemoveNode(m)
        BY <4>2 DEF RemoveNode
      <4>3. CASE Bootstrap \/ Configure
        BY <4>3 DEF Bootstrap, Configure, Refuse, EndedWith
      <4>4. CASE DeploySteps \/ DeployStops \/ UNCHANGED vars
        BY <4>4 DEF DeploySteps, DeployStops, AddMachinesToClusterd, CountRoles, DeployK8S,
           ConfigureOSDIsSkip, AddOsds, DeployEnds, Refuse, EndedWith, vars
      <4> QED
        BY <1>2, <2>3, <4>1, <4>2, <4>3, <4>4 DEF Next
    <3>3. DeploymentMachinesCheck /\ DeploymentTopologyCheck /\ IpRangesCheck /\ (pc # "none" => fresh)
      BY <3>1 DEF PassedInv
    <3> QED
      BY <2>1, <3>2, <3>3, SameSite
  <2> QED
    BY <2>2, <2>3
<1> QED
  BY <1>1, <1>2

\* How a deploy comes to have written the rows
LEMMA HowWritten ==
  ASSUME TypeInv, [Next]_vars, fresh', pc' \in Written \/ Done'
  PROVE  /\ UNCHANGED <<site, gate>>
         /\ \/ AddMachinesToClusterd /\ rows' = AddMachines /\ pc' = "counts"
            \/ fresh /\ (pc \in Written \/ Done) /\ rows' = rows
<1>0. SiteTypes /\ DeploymentTypes
  BY DEF TypeInv
<1>1. ~Operator /\ ~ \E m \in Machines : RemoveNode(m)
  <2>1. ~Operator
    BY <1>0, OperatorStep
  <2> QED
    BY <2>1 DEF RemoveNode
<1>2. UNCHANGED <<site, gate>>
  BY <1>1, SiteRests
<1>3. ~Deploy /\ ~Bootstrap /\ ~Configure /\ ~DeployStops
  <2>1. ~Deploy
    BY DEF Deploy, Refuse, EndedWith, Written, Done
  <2>2. ~Bootstrap
    BY DEF Bootstrap, Refuse, EndedWith, Written, Done
  <2>3. ~Configure
    BY DEF Configure, EndedWith, Written, Done
  <2>4. ~DeployStops
    BY DEF DeployStops, Written, Done
  <2> QED
    BY <2>1, <2>2, <2>3, <2>4
<1>4. CASE AddMachinesToClusterd
  <2>1. rows' = AddMachines /\ pc' = "counts"
    BY <1>4 DEF AddMachinesToClusterd, Refuse, EndedWith, Written, Done
  <2> QED
    BY <1>2, <1>4, <2>1
<1>5. CASE CountRoles \/ DeployK8S \/ ConfigureOSDIsSkip \/ AddOsds \/ DeployEnds
  <2>1. fresh /\ pc \in Written /\ rows' = rows
    BY <1>5 DEF CountRoles, DeployK8S, ConfigureOSDIsSkip, AddOsds, DeployEnds, Refuse, EndedWith,
       Written, Done
  <2> QED
    BY <1>2, <2>1
<1>6. CASE validate_deployment_cmd \/ UNCHANGED vars
  <2>1. UNCHANGED <<fresh, pc, last, rows>>
    BY <1>6 DEF validate_deployment_cmd, vars
  <2> QED
    BY <1>2, <2>1 DEF Done
<1> QED
  BY <1>1, <1>3, <1>4, <1>5, <1>6 DEF Next, DeploySteps

LEMMA RowsStep ==
  ASSUME TypeInv, RowsInv, [Next]_vars
  PROVE  RowsInv'
<1> SUFFICES ASSUME fresh', pc' \in Written \/ Done' PROVE \A m \in Rowed' : rows'[m] = site'.roles[m]
  BY DEF RowsInv
<1>1. UNCHANGED <<site, gate>> /\ Rowed' = Rowed
  BY HowWritten, SameSite
<1>2. CASE rows' = AddMachines
  BY <1>1, <1>2 DEF AddMachines, Rowed, Listed
<1>3. CASE fresh /\ (pc \in Written \/ Done) /\ rows' = rows
  BY <1>1, <1>3 DEF RowsInv
<1> QED
  BY <1>2, <1>3, HowWritten

LEMMA OsdsStep ==
  ASSUME TypeInv, OsdsInv, [Next]_vars
  PROVE  OsdsInv'
<1> SUFFICES ASSUME fresh', pc' \in Chosen \/ Done', NEW m \in Machines, "storage" \in rows'[m]
             PROVE  osds'[m] \cup adding'[m] = site'.disks[m]
  BY DEF OsdsInv, RowsOf
<1>0. SiteTypes /\ DeploymentTypes
  BY DEF TypeInv
<1>1. pc' \in Written \/ Done'
  BY DEF Chosen, Written
<1>2. UNCHANGED <<site, gate>> /\ fresh /\ (pc \in Written \/ Done) /\ rows' = rows
  <2>1. pc' # "counts"
    BY TypeStep DEF TypeInv, DeploymentTypes, Chosen, Done
  <2> QED
    BY <1>1, <2>1, HowWritten
<1>3. m \in RowsOf("storage")
  BY <1>2 DEF RowsOf
<1>4. CASE pc \in Chosen \/ Done
  <2>1. osds[m] \cup adding[m] = site.disks[m]
    BY <1>2, <1>3, <1>4 DEF OsdsInv
  <2>2. CASE AddOsds
    <3>1. PICK n \in Machines : /\ osds' = [osds EXCEPT ![n] = @ \cup adding[n]]
                                /\ adding' = [adding EXCEPT ![n] = {}]
      BY <2>2 DEF AddOsds
    <3>2. osds'[m] \cup adding'[m] = osds[m] \cup adding[m]
      BY <1>0, <3>1 DEF DeploymentTypes
    <3> QED
      BY <1>2, <2>1, <3>2
  <2>3. CASE UNCHANGED <<osds, adding>>
    BY <1>2, <2>1, <2>3
  <2> QED
    <3>1. AddOsds \/ UNCHANGED <<osds, adding>>
      <4>1. ~Operator \/ UNCHANGED <<osds, adding>>
        BY <1>0, OperatorStep
      <4>2. ~Configure /\ ~DeployStops /\ ~ConfigureOSDIsSkip /\ ~ \E n \in Machines : RemoveNode(n)
        BY <1>0, <1>1, <1>4 DEF Configure, DeployStops, ConfigureOSDIsSkip, RemoveNode, EndedWith,
           Written, Done, DeploymentTypes, Chosen
      <4>3. CASE Bootstrap \/ Deploy
        BY <1>1, <4>3 DEF Bootstrap, Deploy, Refuse, EndedWith, Written, Done
      <4>4. CASE AddMachinesToClusterd \/ CountRoles \/ DeployK8S \/ DeployEnds
        BY <1>1, <4>4 DEF AddMachinesToClusterd, CountRoles, DeployK8S, DeployEnds, Refuse,
           EndedWith, Written, Done
      <4>5. CASE validate_deployment_cmd \/ UNCHANGED vars
        BY <4>5 DEF validate_deployment_cmd, vars
      <4> QED
        BY <4>1, <4>2, <4>3, <4>4, <4>5 DEF Next, DeploySteps
    <3> QED
      BY <2>2, <2>3, <3>1
<1>5. CASE ~(pc \in Chosen \/ Done)
  <2>1. ConfigureOSDIsSkip
    <3>1. ~Operator /\ ~ \E n \in Machines : RemoveNode(n)
      <4>1. ~Operator
        BY <1>0, OperatorStep
      <4> QED
        BY <4>1 DEF RemoveNode
    <3>2. ~Bootstrap /\ ~Deploy /\ ~Configure /\ ~DeployStops
      BY DEF Bootstrap, Deploy, Configure, DeployStops, Refuse, EndedWith, Chosen, Done
    <3>3. ~AddMachinesToClusterd /\ ~CountRoles /\ ~DeployK8S
      <4>1. last = "none" \/ pc = "none"
        BY <1>0 DEF DeploymentTypes
      <4> QED
        BY <4>1 DEF AddMachinesToClusterd, CountRoles, DeployK8S, Refuse, EndedWith, Chosen, Done
    <3>4. ~AddOsds /\ ~DeployEnds
      BY <1>5 DEF AddOsds, DeployEnds, Chosen
    <3>5. ~validate_deployment_cmd /\ ~UNCHANGED vars
      BY <1>5 DEF validate_deployment_cmd, vars, Done
    <3> QED
      BY <3>1, <3>2, <3>3, <3>4, <3>5 DEF Next, DeploySteps
  <2>2. /\ \A n \in RowsOf("storage") : _compute_disks_to_configure(n)
        /\ adding' = [n \in Machines |->
                        IF n \in RowsOf("storage") THEN MaasDisks(n) \cap Unpartitioned(n) ELSE {}]
        /\ osds' = osds
    BY <2>1 DEF ConfigureOSDIsSkip, Refuse, EndedWith, Chosen, Done
  <2>3. /\ MaasDisks(m) # {} /\ osds[m] \subseteq MaasDisks(m)
        /\ MaasDisks(m) \subseteq osds[m] \cup Unpartitioned(m)
    BY <1>3, <2>2 DEF _compute_disks_to_configure
  <2>4. MaasDisks(m) = site.disks[m]
    BY <2>3 DEF MaasDisks
  <2>5. adding'[m] = MaasDisks(m) \cap Unpartitioned(m)
    BY <1>3, <2>2
  <2>6. osds[m] \cup (MaasDisks(m) \cap Unpartitioned(m)) = MaasDisks(m)
    BY <2>3
  <2> QED
    BY <1>2, <2>2, <2>4, <2>5, <2>6
<1> QED
  BY <1>4, <1>5

LEMMA IInit == Init => IInv
<1> SUFFICES ASSUME Init PROVE IInv
  OBVIOUS
<1>1. TypeInv
  BY TypeInit
<1>2. PassedInv /\ RowsInv /\ OsdsInv
  BY DEF Init, PassedInv, RowsInv, OsdsInv
<1> QED
  BY <1>1, <1>2 DEF IInv

LEMMA IStep == IInv /\ [Next]_vars => IInv'
BY TypeStep, PassedStep, RowsStep, OsdsStep DEF IInv

\* A deploy that completed on a site that did not change since it began has made an OSD of
\* every tagged disk and of no other, and clusterd has the tags of every machine,
\* whatever earlier deploys left behind (MaasConfigureMicrocephOSDStep,
\* MaasAddMachinesToClusterdStep).
THEOREM DisksAsTagged == Spec => []DeployedAsTagged
<1>1. IInv => DeployedAsTagged
  <2> SUFFICES ASSUME IInv, last = "deployed", fresh
               PROVE  /\ \A m \in Rowed : rows[m] = site.roles[m]
                      /\ \A m \in RowsOf("storage") : osds[m] = site.disks[m]
    BY DEF DeployedAsTagged
  <2>1. adding = None /\ osds \in [Machines -> SUBSET (Disks \ Partitioned)]
    BY DEF IInv, TypeInv, DeploymentTypes
  <2>2. \A m \in RowsOf("storage") : adding[m] = {}
    BY <2>1 DEF None, RowsOf
  <2>3. \A m \in RowsOf("storage") : osds[m] \cup adding[m] = site.disks[m]
    BY DEF IInv, OsdsInv, Done
  <2>4. \A m \in Rowed : rows[m] = site.roles[m]
    BY DEF IInv, RowsInv, Done
  <2> QED
    BY <2>2, <2>3, <2>4
<1> QED
  BY <1>1, IInit, IStep, PTL DEF Spec

----------------------------------------------------------------------------
(* What validation promises                                                *)

LEMMA NobodyTagged ==
  \A role : Cardinality(Tagged(role)) \in Nat /\ (Cardinality(Tagged(role)) = 0 <=> Tagged(role) = {})
<1> SUFFICES ASSUME NEW role
             PROVE  Cardinality(Tagged(role)) \in Nat /\ (Cardinality(Tagged(role)) = 0 <=> Tagged(role) = {})
  OBVIOUS
<1>1. IsFiniteSet(Tagged(role))
  <2>1. Tagged(role) \subseteq Machines
    BY DEF Tagged, Listed
  <2> QED
    BY <2>1, SiteAssumption, FS_Subset
<1> QED
  BY <1>1, FS_EmptySet, FS_CardinalityType

LEMMA WhatPasses ==
  ASSUME PassedInv, report = "passed"
  PROVE  /\ site.mapped /\ site.ranges = Labels
         /\ \A m \in Listed : /\ site.roles[m] # {}
                              /\ "storage" \in site.roles[m] => site.disks[m] # {}
                              /\ "network" \in site.roles[m] => Has(m, "nic")
         /\ Tagged("juju-controller") # {} /\ Tagged("sunbeam") # {}
         /\ \A role \in {"control", "compute", "storage"} :
              IF _has_region_controllers THEN Tagged(role) = {} ELSE Tagged(role) # {}
<1>1. DeploymentMachinesCheck /\ DeploymentTopologyCheck /\ IpRangesCheck
  BY DEF PassedInv
<1>2. site.mapped /\ site.ranges = Labels
  BY <1>1 DEF IpRangesCheck
<1>3. \A m \in Listed : /\ site.roles[m] # {}
                        /\ "storage" \in site.roles[m] => site.disks[m] # {}
                        /\ "network" \in site.roles[m] => Has(m, "nic")
  BY <1>1 DEF DeploymentMachinesCheck, MachineRolesCheck, MachineStorageCheck, MachineComputeNicCheck
<1>4. \A role : DeploymentRolesCheck(role, 3, -1) => Tagged(role) # {}
  BY NobodyTagged DEF DeploymentRolesCheck
<1>5. \A role : DeploymentRolesCheck(role, 0, 0) => Tagged(role) = {}
  BY NobodyTagged DEF DeploymentRolesCheck
<1>6. Tagged("juju-controller") # {} /\ Tagged("sunbeam") # {}
  BY <1>1, <1>4 DEF DeploymentTopologyCheck
<1>7. \A role \in {"control", "compute", "storage"} :
        IF _has_region_controllers THEN Tagged(role) = {} ELSE Tagged(role) # {}
  BY <1>1, <1>4, <1>5 DEF DeploymentTopologyCheck
<1> QED
  BY <1>2, <1>3, <1>6, <1>7

\* Every machine of a site that passed has a role that is enabled.
LEMMA AllRowed ==
  ASSUME SiteTypes, PassedInv, report = "passed", ~Ungated
  PROVE  Rowed = Listed
<1>1. ASSUME NEW m \in Listed PROVE m \in Rowed
  <2>1. m \in Machines /\ site.roles[m] # {} /\ site.roles[m] \subseteq Roles
    BY WhatPasses DEF Listed, SiteTypes
  <2>2. CASE gate
    BY <2>1, <2>2 DEF Rowed, EnabledRoles
  <2>3. CASE ~gate
    <3>1. "region_controller" \notin site.roles[m]
      BY <2>3 DEF Ungated, _has_region_controllers, Tagged
    <3> QED
      BY <2>1, <2>3, <3>1 DEF Rowed, EnabledRoles
  <2> QED
    BY <2>2, <2>3
<1> QED
  BY <1>1 DEF Rowed

\* The rows of a deploy of such a site are its tags.
LEMMA RowsAreTags ==
  ASSUME IInv, report = "passed", ~Divergence, pc \in Written
  PROVE  \A role : RowsOf(role) = Tagged(role)
<1>1. fresh
  BY DEF IInv, PassedInv, TypeInv, DeploymentTypes, Written
<1>2. \A m \in Listed : rows[m] = site.roles[m]
  BY <1>1, AllRowed DEF IInv, RowsInv, TypeInv, Divergence
<1>3. \A m \in Machines \ Listed : rows[m] = {}
  BY DEF Divergence
<1> QED
  BY <1>2, <1>3 DEF RowsOf, Tagged, Listed

LEMMA NothingRefused ==
  ASSUME IInv, report = "passed", ~Divergence, [Next]_vars, last' = "refused"
  PROVE  UNCHANGED <<last, pc>>
<1>0. SiteTypes /\ DeploymentTypes /\ PassedInv
  BY DEF IInv, TypeInv
<1>1. Rowed # {} /\ InfraMachines /\ JujuControllerCheck /\ site.mapped /\ site.ranges = Labels
  <2>1. Rowed = Listed
    BY <1>0, AllRowed DEF Divergence
  <2>2. Tagged("sunbeam") \subseteq Listed
    BY DEF Tagged
  <2> QED
    BY <1>0, <2>1, <2>2, WhatPasses DEF InfraMachines, JujuControllerCheck
<1>2. ~Bootstrap /\ ~Deploy
  BY <1>1 DEF Bootstrap, Deploy, NetworkMappingCompleteCheck
<1>3. ~AddMachinesToClusterd /\ ~DeployK8S
  BY <1>0, <1>1 DEF AddMachinesToClusterd, DeployK8S, DeploymentTypes
<1>4. ~CountRoles
  <2> SUFFICES ASSUME CountRoles PROVE FALSE
    OBVIOUS
  <2>1. pc = "counts" /\ ~RolesCounted
    BY <1>0 DEF CountRoles, DeploymentTypes
  <2>2. \A role : RowsOf(role) = Tagged(role)
    BY <2>1, RowsAreTags DEF Written
  <2>3. _has_region_controllers => Tagged("network") = {}
    BY DEF Divergence
  <2>4. \A role \in {"control", "compute", "storage"} :
          IF _has_region_controllers THEN Tagged(role) = {} ELSE Tagged(role) # {}
    BY <1>0, WhatPasses
  <2>5. RolesCounted
    BY <2>2, <2>3, <2>4 DEF RolesCounted, _has_region_controllers
  <2> QED
    BY <2>1, <2>5
<1>5. ~ConfigureOSDIsSkip
  <2> SUFFICES ASSUME ConfigureOSDIsSkip PROVE FALSE
    OBVIOUS
  <2>1. pc = "choose" /\ ~ \A m \in RowsOf("storage") : _compute_disks_to_configure(m)
    BY <1>0 DEF ConfigureOSDIsSkip, DeploymentTypes
  <2>2. PICK m \in RowsOf("storage") : ~_compute_disks_to_configure(m)
    BY <2>1
  <2>3. m \in Tagged("storage")
    BY <2>1, <2>2, RowsAreTags DEF Written
  <2>4. m \in Listed /\ m \in Machines /\ "storage" \in site.roles[m]
    BY <2>3 DEF Tagged, Listed
  <2>5. MaasDisks(m) = site.disks[m] /\ site.disks[m] # {} /\ site.disks[m] \subseteq Disks
    BY <1>0, <2>4, WhatPasses DEF MaasDisks, SiteTypes
  <2>6. site.disks[m] \cap Partitioned = {} /\ osds[m] \subseteq site.disks[m]
    BY <2>3 DEF Divergence
  <2>7. site.disks[m] \subseteq osds[m] \cup Unpartitioned(m)
    BY <2>5, <2>6 DEF Unpartitioned
  <2> QED
    BY <2>2, <2>5, <2>6, <2>7 DEF _compute_disks_to_configure
<1>6. CASE Operator
  BY <1>0, <1>6, OperatorStep
<1>7. CASE validate_deployment_cmd \/ UNCHANGED vars
  BY <1>7 DEF validate_deployment_cmd, vars
<1>8. ~AddOsds /\ ~DeployEnds /\ ~DeployStops /\ ~Configure /\ ~ \E m \in Machines : RemoveNode(m)
  <2>1. ~AddOsds
    BY <1>0 DEF AddOsds, DeploymentTypes
  <2>2. ~Configure
    BY DEF Configure, EndedWith
  <2> QED
    BY <2>1, <2>2 DEF DeployEnds, DeployStops, RemoveNode
<1> QED
  BY <1>2, <1>3, <1>4, <1>5, <1>6, <1>7, <1>8 DEF Next, DeploySteps

LEMMA NicsAreFound ==
  ASSUME IInv, report = "passed", fresh, ~Ungated, [Next]_vars, last' = "not configured"
  PROVE  UNCHANGED <<last, pc>>
<1>0. SiteTypes /\ DeploymentTypes /\ PassedInv
  BY DEF IInv, TypeInv
<1>1. ~Configure
  <2> SUFFICES ASSUME Configure PROVE FALSE
    OBVIOUS
  <2>1. last = "deployed" /\ ~NicsFound
    BY DEF Configure, EndedWith
  <2>2. PICK m \in RowsOf("network") \cap Listed : ~Has(m, "nic")
    BY <2>1 DEF NicsFound
  <2>3. rows[m] = site.roles[m]
    BY <1>0, <2>1, <2>2, AllRowed DEF IInv, RowsInv, Done
  <2>4. "network" \in site.roles[m]
    BY <2>2, <2>3 DEF RowsOf
  <2> QED
    BY <1>0, <2>2, <2>4, WhatPasses
<1>2. CASE Operator
  BY <1>0, <1>2, OperatorStep
<1>3. CASE validate_deployment_cmd \/ UNCHANGED vars
  BY <1>3 DEF validate_deployment_cmd, vars
<1>4. ~Bootstrap /\ ~Deploy /\ ~DeploySteps /\ ~DeployStops /\ ~ \E m \in Machines : RemoveNode(m)
  <2>1. ~Bootstrap /\ ~Deploy
    BY DEF Bootstrap, Deploy, Refuse, EndedWith
  <2>2. ~DeploySteps
    BY <1>0 DEF DeploySteps, AddMachinesToClusterd, CountRoles, DeployK8S, ConfigureOSDIsSkip, AddOsds,
       DeployEnds, Refuse, EndedWith, DeploymentTypes
  <2> QED
    BY <2>1, <2>2 DEF DeployStops, RemoveNode
<1> QED
  BY <1>1, <1>2, <1>3, <1>4 DEF Next

\* bootstrap and deploy refuse no site that validation passed as it stands, whatever was
\* deployed, removed or changed before, but for the divergences; and configure finds the
\* network interfaces it needs (DeploymentMachinesCheck and what the commands check).
THEOREM WhatPassesIsDeployed == Spec => ValidatedDeploys
<1>1. IInv /\ [Next]_vars =>
        [/\ last' = "refused" => report # "passed" \/ Divergence
         /\ last' = "not configured" => report # "passed" \/ ~ fresh \/ Ungated]_<<last, pc>>
  BY NothingRefused, NicsAreFound
<1> QED
  BY <1>1, IInit, IStep, PTL DEF Spec, ValidatedDeploys

----------------------------------------------------------------------------
(* The machines: the inductive invariant                                   *)

MachineStates == M!Known \cup {"pending", "error", "gone"}
MachineSet == [host : M!Hosts, sys : Systems, st : MachineStates]

\* The steps of MaasDeployMachinesStep after it chose its hosts, and what follows
Deploying == {"place", "store", "sync", "wait", "rest"}
MachinePcs == {"none", "infra", "place_infra", "infra_wait", "infra_up", "rows", "write_rows",
               "infra_ids", "select", "remove_machine", "remove_row"} \cup Deploying
HostsOf(m) == IF m = "infra" THEN Infra ELSE Workers

MachineTypes ==
  /\ maas \in [M!Hosts -> Systems] /\ machineRows \in [M!Hosts -> M!Row]
  /\ juju \in [M!Models -> Seq(MachineSet)] /\ machineFaults \in Nat
  /\ todo \subseteq M!Hosts /\ sync \subseteq Workers
  /\ cmd \in [kind : {"none", "bootstrap", "deploy", "remove"}, host : M!Hosts \cup {"none"}]

CommandInv ==
  /\ machinePc \in MachinePcs
  /\ machinePc = "none" => cmd = M!NoCmd /\ todo = {} /\ sync = {}
  /\ machinePc # "none" => cmd.kind # "none"
  /\ machinePc \in Deploying => todo \subseteq Workers
  /\ machinePc = "place_infra" => todo \subseteq Infra
  /\ machinePc \in {"remove_machine", "remove_row"} => cmd.host \in M!Hosts
  /\ machinePc = "store" => cmd.host \in todo

\* The id in a row is that of a machine of its model, and for a worker of its own host:
\* rows are written for the machine that was just added, or by what matched.
IdsInv ==
  /\ \A m \in M!Models : \A id \in M!Ids(m) : M!Machine(m, id).host \in HostsOf(m)
  /\ \A h \in Infra : machineRows[h].mid \in {-1} \cup M!Ids("infra")
  /\ \A h \in Workers : machineRows[h].mid # -1 =>
       machineRows[h].mid \in M!Ids("machines") /\ M!Machine("machines", machineRows[h].mid).host = h

\* A system is one host's forever, and none is later than the one that carries the name;
\* machines of one host were added for systems in the order in which it had them.
Uses(sys, h) ==
  \/ maas[h] = sys \/ machineRows[h].sys = sys
  \/ \E m \in M!Models : \E id \in M!Ids(m) : M!Machine(m, id).sys = sys /\ M!Machine(m, id).host = h
OwnInv ==
  \A sys \in Systems, h \in M!Hosts : Uses(sys, h) =>
     sys <= maas[h] /\ \A g \in M!Hosts : Uses(sys, g) => g = h
LaterInv ==
  \A a, b \in M!Ids("machines") :
     a <= b /\ M!Machine("machines", a).host = M!Machine("machines", b).host =>
        M!Machine("machines", a).sys <= M!Machine("machines", b).sys

\* No system is replaced while a command runs: rows are current once they were written.
CurrentInv ==
  /\ machinePc = "write_rows" => \A h \in M!Hosts \ todo : machineRows[h].sys = maas[h]
  /\ machinePc \in {"select"} \cup Deploying => \A h \in M!Hosts : machineRows[h].sys = maas[h]

\* The row has the id of a machine of the host's system. A host in sync waits for its id:
\* the machine that matched may go meanwhile, and none of another system comes up.
HasMachine(h) ==
  machineRows[h].mid # -1 /\ M!Machine("machines", machineRows[h].mid).sys = machineRows[h].sys
Found(h, states) ==
  \E id \in M!Ids("machines") : M!Machine("machines", id).host = h /\ M!Machine("machines", id).st \in states

Awaited(h) == Found(h, {"gone"}) \/ (machinePc \notin {"wait", "rest"} /\ Found(h, M!Known))
OfItsSystem(h) ==
  \A id \in M!Ids("machines") :
     M!Machine("machines", id).host = h /\ M!Machine("machines", id).st \in M!Known
       => M!Machine("machines", id).sys = machineRows[h].sys

PlacedAt(h) ==
  /\ h \notin todo \cup sync => HasMachine(h)
  /\ h \in sync => OfItsSystem(h) /\ IF machineRows[h].mid = -1 THEN Awaited(h) ELSE HasMachine(h)
PlacedInv == machinePc \in Deploying => \A h \in Workers : PlacedAt(h)

\* Between add_machine and the write of its id, the machine is the last of the model.
StoreInv ==
  machinePc = "store" =>
    LET id == Len(juju["machines"]) - 1
    IN  id \in M!Ids("machines") /\ M!Machine("machines", id).host = cmd.host
        /\ M!Machine("machines", id).sys = machineRows[cmd.host].sys

\* What wait_all_machines_deployed leaves
RestInv ==
  machinePc = "rest" =>
    /\ todo = {}
    /\ \A h \in Workers : machineRows[h].mid # -1 =>
         M!Machine("machines", machineRows[h].mid).st \in M!Known \cup {"gone"}

MachinesInv == MachineTypes /\ CommandInv /\ IdsInv /\ OwnInv /\ LaterInv /\ CurrentInv
               /\ PlacedInv /\ StoreInv /\ RestInv

----------------------------------------------------------------------------
(* Machines                                                                *)

LEMMA MachinesCardinality == ASSUME NEW S PROVE M!Cardinality(S) = Cardinality(S)
BY Zenon DEF M!Cardinality, Cardinality

\* The least id of a set of ids.
LEMMA LeastId ==
  ASSUME NEW S \in SUBSET Nat, S # {}
  PROVE  M!Min(S) \in S /\ \A y \in S : M!Min(S) <= y
<1> DEFINE R == OpToRel(<, Nat)
<1> HIDE DEF R
<1>1. IsWellFoundedOn(R, Nat)
  BY NatLessThanWellFounded DEF R
<1>2. PICK k \in S : \A j \in S : ~ (<<j, k>> \in R)
  BY <1>1, WFMin
<1>3. \A j, i \in Nat : j < i => <<j, i>> \in R
  BY DEF R, OpToRel
<1>4. ASSUME NEW j \in S PROVE k <= j
  <2>1. j \in Nat /\ k \in Nat
    BY <1>2
  <2>2. ~ (j < k)
    BY <1>2, <1>3, <2>1, Zenon
  <2> QED
    BY <2>1, <2>2
<1> QED
  BY <1>2, <1>4 DEF M!Min

LEMMA JujuType ==
  ASSUME MachineTypes, NEW m \in M!Models
  PROVE  juju[m] \in Seq(MachineSet) /\ Len(juju[m]) \in Nat
<1>1. juju \in [M!Models -> Seq(MachineSet)]
  BY DEF MachineTypes
<1>2. juju[m] \in Seq(MachineSet)
  BY <1>1
<1> QED
  BY <1>2

\* A machine of a model has a host, a system and a state.
LEMMA MachineOf ==
  ASSUME MachineTypes, NEW m \in M!Models, NEW id \in M!Ids(m)
  PROVE  /\ id \in Nat /\ id + 1 \in 1..Len(juju[m]) /\ juju[m] \in Seq(MachineSet)
         /\ M!Machine(m, id) = juju[m][id + 1] /\ M!Machine(m, id) \in MachineSet
         /\ M!Machine(m, id).host \in M!Hosts /\ M!Machine(m, id).sys \in Systems
         /\ M!Machine(m, id).st \in MachineStates
<1>1. juju[m] \in Seq(MachineSet) /\ Len(juju[m]) \in Nat
  BY JujuType
<1>2. id \in Nat /\ id + 1 \in 1..Len(juju[m])
  BY <1>1 DEF M!Ids
<1>3. M!Machine(m, id) = juju[m][id + 1] /\ M!Machine(m, id) \in MachineSet
  BY <1>1, <1>2 DEF M!Machine
<1> QED
  BY <1>1, <1>2, <1>3 DEF MachineSet

\* The machines that were there keep their host and system.
Kept(m) ==
  \A id \in M!Ids(m) :
     /\ id \in M!Ids(m)' /\ M!Machine(m, id).host' = M!Machine(m, id).host
     /\ M!Machine(m, id).sys' = M!Machine(m, id).sys

\* A machine is added at the end of its model.
LEMMA PlacedEffect ==
  ASSUME MachineTypes, NEW m \in M!Models, NEW h \in M!Hosts, NEW sys \in Systems,
         M!Placed(m, h, sys)
  PROVE  /\ juju' \in [M!Models -> Seq(MachineSet)]
         /\ \A n \in M!Models : Kept(n) /\ (n # m => juju'[n] = juju[n])
         /\ \A id \in M!Ids(m) : juju'[m][id + 1] = juju[m][id + 1]
         /\ Len(juju'[m]) = Len(juju[m]) + 1 /\ M!Ids(m)' = M!Ids(m) \cup {Len(juju[m])}
         /\ juju'[m][Len(juju[m]) + 1] = [host |-> h, sys |-> sys, st |-> "pending"]
<1> DEFINE x == [host |-> h, sys |-> sys, st |-> "pending"]
<1>0. x \in MachineSet /\ juju[m] \in Seq(MachineSet) /\ Len(juju[m]) \in Nat
  BY JujuType DEF MachineSet, MachineStates
<1>a. juju \in [M!Models -> Seq(MachineSet)]
  BY DEF MachineTypes
<1> HIDE DEF x
<1>1. juju' = [juju EXCEPT ![m] = Append(@, x)]
  BY DEF M!Placed, x
<1>2. juju'[m] = Append(juju[m], x) /\ \A n \in M!Models : n # m => juju'[n] = juju[n]
  BY <1>a, <1>1
<1>3. juju' \in [M!Models -> Seq(MachineSet)]
  <2>1. Append(juju[m], x) \in Seq(MachineSet)
    BY <1>0
  <2> QED
    BY <1>a, <1>1, <2>1
<1>4. /\ Len(juju'[m]) = Len(juju[m]) + 1 /\ juju'[m][Len(juju[m]) + 1] = x
      /\ \A k \in 1..Len(juju[m]) : juju'[m][k] = juju[m][k]
  BY <1>0, <1>2
<1>5. \A id \in M!Ids(m) : id + 1 \in 1..Len(juju[m])
  BY <1>0 DEF M!Ids
<1>6. M!Ids(m)' = M!Ids(m) \cup {Len(juju[m])}
  BY <1>0, <1>4 DEF M!Ids
<1>7. Kept(m)
  BY <1>4, <1>5, <1>6 DEF Kept, M!Machine
<1>8. \A n \in M!Models : n # m => Kept(n)
  BY <1>2 DEF Kept, M!Machine, M!Ids
<1> QED
  BY <1>2, <1>3, <1>4, <1>5, <1>6, <1>7, <1>8 DEF x

\* Only the state of one machine changes.
LEMMA StateEffect ==
  ASSUME MachineTypes, NEW m \in M!Models, NEW k \in M!Ids(m), NEW v \in MachineStates,
         juju' = [juju EXCEPT ![m][k + 1].st = v]
  PROVE  /\ juju' \in [M!Models -> Seq(MachineSet)]
         /\ \A n \in M!Models : Kept(n) /\ Len(juju'[n]) = Len(juju[n]) /\ M!Ids(n)' = M!Ids(n)
         /\ M!Machine(m, k).st' = v
         /\ \A n \in M!Models : \A id \in M!Ids(n) :
              ~(n = m /\ id = k) => M!Machine(n, id)' = M!Machine(n, id)
<1>0. /\ juju[m] \in Seq(MachineSet) /\ Len(juju[m]) \in Nat /\ k \in Nat
      /\ k + 1 \in 1..Len(juju[m]) /\ juju[m][k + 1] \in MachineSet
  BY MachineOf, JujuType
<1> DEFINE x == [juju[m][k + 1] EXCEPT !.st = v]
<1>1. x \in MachineSet /\ x.host = juju[m][k + 1].host /\ x.sys = juju[m][k + 1].sys /\ x.st = v
  BY <1>0 DEF MachineSet
<1> DEFINE q == [juju[m] EXCEPT ![k + 1] = x]
<1>2. juju' = [juju EXCEPT ![m] = q]
  OBVIOUS
<1> HIDE DEF x
<1>3. q \in Seq(MachineSet) /\ Len(q) = Len(juju[m]) /\ q[k + 1] = x
      /\ \A j \in 1..Len(juju[m]) : j # k + 1 => q[j] = juju[m][j]
  BY <1>0, <1>1
<1> HIDE DEF q
<1>4. juju'[m] = q /\ \A n \in M!Models : n # m => juju'[n] = juju[n]
  BY <1>2 DEF MachineTypes
<1>5. juju' \in [M!Models -> Seq(MachineSet)]
  BY <1>2, <1>3 DEF MachineTypes
<1>6. \A n \in M!Models : Len(juju'[n]) = Len(juju[n]) /\ M!Ids(n)' = M!Ids(n)
  BY <1>3, <1>4 DEF M!Ids
<1>7. \A id \in M!Ids(m) : id \in Nat /\ id + 1 \in 1..Len(juju[m])
  BY MachineOf
<1>8. \A n \in M!Models : \A id \in M!Ids(n) :
        ~(n = m /\ id = k) => M!Machine(n, id)' = M!Machine(n, id)
  <2> SUFFICES ASSUME NEW n \in M!Models, NEW id \in M!Ids(n), ~(n = m /\ id = k)
               PROVE  juju'[n][id + 1] = juju[n][id + 1]
    BY DEF M!Machine
  <2>1. CASE n # m
    BY <1>4, <2>1
  <2>2. CASE n = m
    <3>1. id + 1 # k + 1 /\ id + 1 \in 1..Len(juju[m])
      BY <1>0, <1>7, <2>2
    <3> QED
      BY <1>3, <1>4, <2>2, <3>1
  <2> QED
    BY <2>1, <2>2
<1>9. M!Machine(m, k)' = x
  BY <1>3, <1>4 DEF M!Machine
<1>10. ASSUME NEW n \in M!Models PROVE Kept(n)
  <2> SUFFICES ASSUME NEW id \in M!Ids(n)
               PROVE  /\ M!Machine(n, id).host' = M!Machine(n, id).host
                      /\ M!Machine(n, id).sys' = M!Machine(n, id).sys
    BY <1>6 DEF Kept
  <2>1. CASE n = m /\ id = k
    BY <1>1, <1>9, <2>1 DEF M!Machine
  <2>2. CASE ~(n = m /\ id = k)
    BY <1>8, <2>2
  <2> QED
    BY <2>1, <2>2
<1> QED
  BY <1>1, <1>5, <1>6, <1>8, <1>9, <1>10

\* A machine's instance and agent come up, or go: only started where MAAS has the
\* system that was asked for, and never back.
LEMMA WorldEffect ==
  ASSUME MachineTypes, M!World
  PROVE  /\ juju' \in [M!Models -> Seq(MachineSet)] /\ machineFaults' \in Nat
         /\ UNCHANGED <<maas, machineRows, cmd, machinePc, todo, sync>>
         /\ \A n \in M!Models : Kept(n) /\ Len(juju'[n]) = Len(juju[n]) /\ M!Ids(n)' = M!Ids(n)
         /\ \A n \in M!Models : \A id \in M!Ids(n) :
              /\ M!Machine(n, id).st \in M!Known \cup {"gone"}
                   => M!Machine(n, id).st' \in M!Known \cup {"gone"}
              /\ M!Machine(n, id).st = "gone" => M!Machine(n, id).st' = "gone"
              /\ M!Machine(n, id).st \notin M!Known /\ M!Machine(n, id).st' \in M!Known
                   => maas[M!Machine(n, id).host] = M!Machine(n, id).sys
<1>0. PICK m \in M!Models : \E id \in M!Ids(m) :
        M!Provision(m, id) \/ M!ProvisionFails(m, id) \/ M!AgentUp(m, id) \/ M!MachineGone(m, id)
  BY DEF M!World
<1>1. PICK k \in M!Ids(m) :
        M!Provision(m, k) \/ M!ProvisionFails(m, k) \/ M!AgentUp(m, k) \/ M!MachineGone(m, k)
  BY <1>0
<1>2. UNCHANGED <<maas, machineRows, cmd, machinePc, todo, sync>> /\ machineFaults' \in Nat
  <2>1. machineFaults \in Nat
    BY DEF MachineTypes
  <2> QED
    BY <1>1, <2>1 DEF M!Provision, M!ProvisionFails, M!AgentUp, M!MachineGone, M!Fault
<1>3. PICK v \in {"error", "started", "deployed", "gone"} :
        /\ juju' = [juju EXCEPT ![m][k + 1].st = v]
        /\ M!Machine(m, k).st \in M!Known => v \in M!Known \cup {"gone"}
        /\ M!Machine(m, k).st # "gone"
        /\ M!Machine(m, k).st \notin M!Known /\ v \in M!Known
             => maas[M!Machine(m, k).host] = M!Machine(m, k).sys
  <2>1. CASE M!Provision(m, k) /\ (M!Taken(M!Machine(m, k).sys)
                                  \/ maas[M!Machine(m, k).host] # M!Machine(m, k).sys)
    <3>1. juju' = [juju EXCEPT ![m][k + 1].st = "error"] /\ M!Machine(m, k).st = "pending"
      BY <2>1 DEF M!Provision
    <3> QED
      BY <3>1 DEF M!Known
  <2>2. CASE M!Provision(m, k) /\ ~(M!Taken(M!Machine(m, k).sys)
                                   \/ maas[M!Machine(m, k).host] # M!Machine(m, k).sys)
    <3>1. juju' = [juju EXCEPT ![m][k + 1].st = "started"] /\ M!Machine(m, k).st = "pending"
      BY <2>2 DEF M!Provision
    <3> QED
      BY <2>2, <3>1 DEF M!Known
  <2>3. CASE M!ProvisionFails(m, k)
    BY <2>3 DEF M!ProvisionFails, M!Known
  <2>4. CASE M!AgentUp(m, k)
    BY <2>4 DEF M!AgentUp, M!Known
  <2>5. CASE M!MachineGone(m, k)
    BY <2>5 DEF M!MachineGone, M!Known
  <2> QED
    BY <1>1, <2>1, <2>2, <2>3, <2>4, <2>5
<1>4. v \in MachineStates
  BY DEF MachineStates, M!Known
<1>5. /\ juju' \in [M!Models -> Seq(MachineSet)]
      /\ \A n \in M!Models : Kept(n) /\ Len(juju'[n]) = Len(juju[n]) /\ M!Ids(n)' = M!Ids(n)
      /\ M!Machine(m, k).st' = v
      /\ \A n \in M!Models : \A id \in M!Ids(n) :
           ~(n = m /\ id = k) => M!Machine(n, id)' = M!Machine(n, id)
  BY <1>3, <1>4, StateEffect
<1>6. ASSUME NEW n \in M!Models, NEW id \in M!Ids(n)
      PROVE  /\ M!Machine(n, id).st \in M!Known \cup {"gone"}
                  => M!Machine(n, id).st' \in M!Known \cup {"gone"}
             /\ M!Machine(n, id).st = "gone" => M!Machine(n, id).st' = "gone"
             /\ M!Machine(n, id).st \notin M!Known /\ M!Machine(n, id).st' \in M!Known
                  => maas[M!Machine(n, id).host] = M!Machine(n, id).sys
  <2>1. CASE n = m /\ id = k
    BY <1>3, <1>5, <2>1
  <2>2. CASE ~(n = m /\ id = k)
    <3>1. M!Machine(n, id)' = M!Machine(n, id)
      BY <1>5, <2>2
    <3> QED
      BY <3>1
  <2> QED
    BY <2>1, <2>2
<1> QED
  BY <1>2, <1>5, <1>6

LEMMA RemovalEffect ==
  ASSUME MachineTypes, M!RemoveJujuMachine
  PROVE  /\ juju' \in [M!Models -> Seq(MachineSet)]
         /\ \A n \in M!Models : Kept(n) /\ Len(juju'[n]) = Len(juju[n]) /\ M!Ids(n)' = M!Ids(n)
         /\ UNCHANGED <<maas, machineRows, cmd, todo, sync, machineFaults>>
         /\ machinePc = "remove_machine" /\ machinePc' = "remove_row"
<1>0. "machines" \in M!Models /\ juju \in [M!Models -> Seq(MachineSet)]
  BY DEF M!Models, MachineTypes
<1>1. /\ UNCHANGED <<maas, machineRows, cmd, todo, sync, machineFaults>>
      /\ machinePc = "remove_machine" /\ machinePc' = "remove_row"
  BY DEF M!RemoveJujuMachine, M!Went
<1> DEFINE k == machineRows[cmd.host].mid
<1>2. CASE k \in M!Present("machines")
  <2>1. k \in M!Ids("machines")
    BY <1>2 DEF M!Present
  <2>2. PICK v \in {"gone", "dying"} : juju' = [juju EXCEPT !["machines"][k + 1].st = v]
    BY <1>2 DEF M!RemoveJujuMachine
  <2>3. v \in MachineStates
    BY DEF MachineStates, M!Known
  <2> HIDE DEF k
  <2> QED
    BY <1>0, <1>1, <2>1, <2>2, <2>3, StateEffect
<1>3. CASE k \notin M!Present("machines")
  <2>1. juju' = juju
    BY <1>3 DEF M!RemoveJujuMachine
  <2>2. \A n \in M!Models : Kept(n) /\ Len(juju'[n]) = Len(juju[n]) /\ M!Ids(n)' = M!Ids(n)
    BY <2>1 DEF Kept, M!Ids, M!Machine
  <2> QED
    BY <1>0, <1>1, <2>1, <2>2
<1> QED
  BY <1>2, <1>3

LEMMA MachinesInit == M!Init => MachinesInv
<1> SUFFICES ASSUME M!Init PROVE MachinesInv
  OBVIOUS
<1> DEFINE f0(f) == f \in [M!Hosts -> Systems] /\ M!IsInjective(f)
                    /\ \A h \in M!Hosts : f[h] <= M!Cardinality(M!Hosts)
<1>1. \E f : f0(f)
  <2> DEFINE n == Cardinality(M!Hosts)
  <2>1. n \in Nat /\ ExistsBijection(1..n, M!Hosts)
    BY FS_CardinalityType, MachinesAssumption DEF M!Hosts
  <2>2. PICK f : f \in Bijection(M!Hosts, 1..n)
    BY <2>1, Fun_ExistsBijSymmetric DEF ExistsBijection
  <2>3. f \in [M!Hosts -> 1..n] /\ \A a, b \in M!Hosts : f[a] = f[b] => a = b
    BY <2>2, Fun_BijectionProperties
  <2>4. 1..n \subseteq Systems
    BY MachinesAssumption DEF M!Hosts
  <2>5. f \in [M!Hosts -> Systems] /\ DOMAIN f = M!Hosts /\ \A h \in M!Hosts : f[h] \in 1..n
    BY <2>3, <2>4
  <2> HIDE DEF n
  <2>6. \A h \in M!Hosts : f[h] <= n
    BY <2>1, <2>5
  <2>7. M!IsInjective(f)
    BY <2>3, <2>5 DEF M!IsInjective
  <2> QED
    BY <2>5, <2>6, <2>7, MachinesCardinality DEF n
<1>2. maas \in [M!Hosts -> Systems] /\ M!IsInjective(maas)
  BY <1>1 DEF M!Init
<1>3. /\ machineRows = [h \in M!Hosts |-> M!Nothing] /\ juju = [m \in M!Models |-> <<>>]
      /\ cmd = M!NoCmd /\ machinePc = "none" /\ todo = {} /\ sync = {} /\ machineFaults = 0
  BY DEF M!Init
<1>4. \A h \in M!Hosts : machineRows[h].sys = 0 /\ machineRows[h].mid = -1
  BY <1>3 DEF M!Nothing
<1>5. \A m \in M!Models : Len(juju[m]) = 0 /\ M!Ids(m) = {} /\ juju[m] = <<>>
  BY <1>3 DEF M!Ids
<1>6. MachineTypes
  <2>1. M!Nothing \in M!Row
    BY DEF M!Nothing, M!Row
  <2>2. machineRows \in [M!Hosts -> M!Row]
    BY <1>3, <2>1
  <2>3. juju \in [M!Models -> Seq(MachineSet)]
    BY <1>3
  <2>4. cmd \in [kind : {"none", "bootstrap", "deploy", "remove"}, host : M!Hosts \cup {"none"}]
    BY <1>3 DEF M!NoCmd
  <2> QED
    BY <1>2, <1>3, <2>2, <2>3, <2>4 DEF MachineTypes
<1>7. CommandInv
  BY <1>3 DEF CommandInv, MachinePcs, Deploying
<1>8. IdsInv
  BY <1>4, <1>5 DEF IdsInv, M!Hosts
<1>9. OwnInv
  <2> SUFFICES ASSUME NEW sys \in Systems, NEW h \in M!Hosts, Uses(sys, h)
               PROVE  sys <= maas[h] /\ \A g \in M!Hosts : Uses(sys, g) => g = h
    BY DEF OwnInv
  <2>1. \A g \in M!Hosts : Uses(sys, g) => maas[g] = sys
    BY <1>4, <1>5, MachinesAssumption DEF Uses
  <2> QED
    BY <1>2, <2>1, MachinesAssumption DEF M!IsInjective
<1>10. LaterInv
  BY <1>5 DEF LaterInv, M!Models
<1>11. CurrentInv /\ PlacedInv /\ StoreInv /\ RestInv
  BY <1>3 DEF CurrentInv, PlacedInv, StoreInv, RestInv, Deploying
<1> QED
  BY <1>6, <1>7, <1>8, <1>9, <1>10, <1>11 DEF MachinesInv

\* The actions that write no book.
Plans ==
  \/ M!Bootstrap \/ M!Deploy \/ M!SelectInfra \/ M!InfraReady \/ M!InfraUp \/ M!SelectRows
  \/ M!Select \/ M!NothingToPlace \/ M!WaitDone \/ M!Rest \/ M!Timeout \/ M!Killed
  \/ \E h \in M!Hosts : M!RemoveNode(h)

LEMMA PlansKeepBooks ==
  ASSUME Plans
  PROVE  UNCHANGED <<maas, machineRows, juju>>
BY DEF Plans, M!Bootstrap, M!Deploy, M!SelectInfra, M!InfraReady, M!InfraUp, M!SelectRows, M!Select,
   M!NothingToPlace, M!WaitDone, M!Rest, M!Timeout, M!Killed, M!RemoveNode

LEMMA MachineSteps ==
  ASSUME [M!Next]_(M!vars)
  PROVE  \/ Plans \/ M!PlaceInfra \/ M!WriteRow \/ M!UpdateInfraIds \/ M!AddMachine \/ M!StoreId
         \/ M!_sync_updated_node_machine_ids \/ M!RemoveJujuMachine \/ M!RemoveMachineFromClusterd
         \/ M!World \/ (\E h \in Workers : M!Replace(h)) \/ UNCHANGED M!vars
BY DEF M!Next, M!Steps, Plans

\* The ids of the machines of a model that match.
LEMMA MatchIds ==
  ASSUME MachineTypes, NEW h, NEW m \in M!Models
  PROVE  M!MatchOf(h, m) \subseteq M!Ids(m) /\ M!MatchOf(h, m) \subseteq Nat
BY MachineOf DEF M!MatchOf, M!Present

LEMMA RowsTyped ==
  ASSUME MachineTypes, NEW h \in M!Hosts
  PROVE  /\ machineRows[h] \in M!Row /\ machineRows[h].sys \in Systems \cup {0}
         /\ machineRows[h].mid \in Int /\ maas[h] \in Systems
BY DEF MachineTypes, M!Row

LEMMA MachineTypesStep ==
  ASSUME MachineTypes, CommandInv, CurrentInv, [M!Next]_(M!vars)
  PROVE  MachineTypes'
<1>0. /\ maas \in [M!Hosts -> Systems] /\ machineRows \in [M!Hosts -> M!Row]
      /\ juju \in [M!Models -> Seq(MachineSet)] /\ machineFaults \in Nat
      /\ todo \subseteq M!Hosts /\ sync \subseteq Workers
      /\ cmd \in [kind : {"none", "bootstrap", "deploy", "remove"}, host : M!Hosts \cup {"none"}]
  BY DEF MachineTypes
<1>n. /\ M!NoCmd \in [kind : {"none", "bootstrap", "deploy", "remove"}, host : M!Hosts \cup {"none"}]
      /\ Workers \subseteq M!Hosts /\ Infra \subseteq M!Hosts
      /\ {"infra", "machines"} = M!Models
  BY DEF M!NoCmd, M!Hosts, M!Models
<1>1. CASE Plans
  <2>1. UNCHANGED <<maas, machineRows, juju>>
    BY <1>1, PlansKeepBooks
  <2>2. /\ machineFaults' \in Nat /\ todo' \subseteq M!Hosts /\ sync' \subseteq Workers
        /\ cmd' \in [kind : {"none", "bootstrap", "deploy", "remove"}, host : M!Hosts \cup {"none"}]
    <3>1. CASE M!Bootstrap \/ M!Deploy
      BY <1>0, <1>n, <3>1 DEF M!Bootstrap, M!Deploy, M!NoCmd
    <3>2. CASE M!SelectInfra \/ M!InfraReady \/ M!InfraUp \/ M!SelectRows \/ M!NothingToPlace \/ M!WaitDone
      BY <1>0, <1>n, <3>2 DEF M!SelectInfra, M!InfraReady, M!InfraUp, M!SelectRows, M!NothingToPlace,
         M!WaitDone, M!Went
    <3>3. CASE M!Select
      <4>1. M!ToDeploy \subseteq Workers /\ M!ToUpdate \subseteq Workers
        BY DEF M!ToDeploy, M!ToUpdate
      <4> QED
        BY <1>0, <1>n, <3>3, <4>1 DEF M!Select, M!Went, M!End
    <3>4. CASE M!Rest \/ M!Timeout \/ M!Killed
      <4>1. cmd' = M!NoCmd /\ todo' = {} /\ sync' = {}
        BY <3>4 DEF M!Rest, M!Timeout, M!Killed, M!End
      <4>2. machineFaults' = machineFaults \/ machineFaults' = machineFaults + 1
        BY <3>4 DEF M!Rest, M!Timeout, M!Killed, M!Fault
      <4>3. machineFaults \in Nat /\ machineFaults' \in Nat
        BY <4>2 DEF MachineTypes
      <4>4. {} \subseteq M!Hosts /\ {} \subseteq Workers
        OBVIOUS
      <4> QED
        BY <1>n, <4>1, <4>3, <4>4
    <3>5. CASE \E h \in M!Hosts : M!RemoveNode(h)
      <4>1. PICK h \in M!Hosts : cmd' = [kind |-> "remove", host |-> h]
        BY <3>5 DEF M!RemoveNode
      <4>2. UNCHANGED <<todo, sync, machineFaults>>
        BY <3>5 DEF M!RemoveNode
      <4> QED
        BY <1>0, <4>1, <4>2
    <3> QED
      BY <1>1, <3>1, <3>2, <3>3, <3>4, <3>5 DEF Plans
  <2> QED
    BY <1>0, <2>1, <2>2 DEF MachineTypes
<1>2. CASE M!PlaceInfra
  <2>1. UNCHANGED <<maas, machineRows, sync, machineFaults, cmd>> /\ todo' \subseteq todo
    BY <1>2 DEF M!PlaceInfra, M!Went
  <2>2. juju' \in [M!Models -> Seq(MachineSet)]
    <3>1. CASE todo = {}
      BY <1>0, <1>2, <3>1 DEF M!PlaceInfra
    <3>2. CASE todo # {}
      <4>1. PICK h \in todo : M!Placed("infra", h, maas[h])
        BY <1>2, <3>2 DEF M!PlaceInfra
      <4> QED
        BY <1>0, <1>n, <4>1, PlacedEffect
    <3> QED
      BY <3>1, <3>2
  <2> QED
    BY <1>0, <2>1, <2>2 DEF MachineTypes
<1>3. CASE M!WriteRow
  <2>1. UNCHANGED <<maas, juju, sync, machineFaults, cmd>> /\ todo' \subseteq todo
    BY <1>3 DEF M!WriteRow, M!Went
  <2>2. machineRows' \in [M!Hosts -> M!Row]
    <3>1. CASE todo = {}
      BY <1>0, <1>3, <3>1 DEF M!WriteRow
    <3>2. CASE todo # {}
      <4>1. PICK h \in todo : machineRows' = [machineRows EXCEPT ![h].sys = maas[h]]
        BY <1>3, <3>2 DEF M!WriteRow
      <4>2. [machineRows[h] EXCEPT !.sys = maas[h]] \in M!Row
        BY <1>0, RowsTyped DEF M!Row
      <4> QED
        BY <1>0, <4>1, <4>2
    <3> QED
      BY <3>1, <3>2
  <2> QED
    BY <1>0, <2>1, <2>2 DEF MachineTypes
<1>4. CASE M!UpdateInfraIds
  <2> DEFINE Of(h) == {id \in M!Present("infra") : M!MatchesHostname(h, M!Machine("infra", id))}
  <2>1. UNCHANGED <<maas, juju, machineFaults>> /\ todo' = {} /\ sync' = {} /\ cmd' = M!NoCmd
    BY <1>4 DEF M!UpdateInfraIds, M!End
  <2>2. ASSUME NEW h, Of(h) # {} PROVE M!Min(Of(h)) \in Int
    <3>1. Of(h) \subseteq Nat
      BY <1>n, MachineOf DEF M!Present
    <3> HIDE DEF Of
    <3> QED
      BY <2>2, <3>1, LeastId
  <2>3. machineRows' = machineRows
        \/ machineRows' = [h \in M!Hosts |->
             IF h \in M!Rows /\ machineRows[h].mid = -1 /\ Of(h) # {}
             THEN [machineRows[h] EXCEPT !.mid = M!Min(Of(h))] ELSE machineRows[h]]
    BY <1>4 DEF M!UpdateInfraIds
  <2>4. \A h \in M!Hosts : Of(h) # {} => [machineRows[h] EXCEPT !.mid = M!Min(Of(h))] \in M!Row
    <3> HIDE DEF Of
    <3> QED
      BY <1>0, <2>2, RowsTyped DEF M!Row
  <2>5. machineRows' \in [M!Hosts -> M!Row]
    <3> HIDE DEF Of
    <3> DEFINE u(h) == IF h \in M!Rows /\ machineRows[h].mid = -1 /\ Of(h) # {}
             THEN [machineRows[h] EXCEPT !.mid = M!Min(Of(h))] ELSE machineRows[h]
    <3>1. \A h \in M!Hosts : u(h) \in M!Row
      BY <1>0, <2>4
    <3> HIDE DEF u
    <3>2. machineRows' = machineRows \/ machineRows' = [h \in M!Hosts |-> u(h)]
      BY <2>3 DEF u
    <3> QED
      BY <1>0, <3>1, <3>2
  <2> QED
    BY <1>0, <1>n, <2>1, <2>5 DEF MachineTypes
<1>5. CASE M!AddMachine
  <2>1. PICK h \in M!Batch : M!Placed("machines", h, machineRows[h].sys) /\ cmd' = [cmd EXCEPT !.host = h]
    BY <1>5 DEF M!AddMachine
  <2>2. h \in M!Hosts /\ machineRows[h].sys \in Systems
    <3>1. h \in M!Hosts /\ machinePc = "place"
      BY <1>0, <1>5 DEF M!Batch, M!AddMachine
    <3> QED
      BY <1>0, <3>1 DEF CurrentInv, Deploying
  <2>3. UNCHANGED <<maas, machineRows, todo, sync, machineFaults>>
    BY <1>5 DEF M!AddMachine
  <2>4. cmd' \in [kind : {"none", "bootstrap", "deploy", "remove"}, host : M!Hosts \cup {"none"}]
    BY <1>0, <2>1, <2>2
  <2>5. juju' \in [M!Models -> Seq(MachineSet)]
    BY <1>n, <2>1, <2>2, PlacedEffect
  <2> QED
    BY <1>0, <2>3, <2>4, <2>5 DEF MachineTypes
<1>6. CASE M!StoreId
  <2>1. /\ machineRows' = [machineRows EXCEPT ![cmd.host].mid = Len(juju["machines"]) - 1]
        /\ todo' \subseteq todo /\ cmd' = [cmd EXCEPT !.host = "none"]
        /\ UNCHANGED <<maas, juju, sync, machineFaults>> /\ machinePc = "store"
    BY <1>6 DEF M!StoreId
  <2>2. cmd.host \in M!Hosts /\ Len(juju["machines"]) \in Nat
    BY <1>0, <1>n, <2>1, JujuType DEF CommandInv
  <2>3. [machineRows[cmd.host] EXCEPT !.mid = Len(juju["machines"]) - 1] \in M!Row
    BY <2>2, RowsTyped DEF M!Row
  <2>4. machineRows' \in [M!Hosts -> M!Row]
    BY <1>0, <2>1, <2>2, <2>3
  <2>5. cmd' \in [kind : {"none", "bootstrap", "deploy", "remove"}, host : M!Hosts \cup {"none"}]
    BY <1>0, <2>1
  <2> QED
    BY <1>0, <2>1, <2>4, <2>5 DEF MachineTypes
<1>7. CASE M!_sync_updated_node_machine_ids
  <2>1. UNCHANGED <<maas, juju, todo, sync, machineFaults, cmd>>
    BY <1>7 DEF M!_sync_updated_node_machine_ids, M!Went
  <2>2. \A h \in M!Hosts : M!MatchOf(h, "machines") # {}
          => [machineRows[h] EXCEPT !.mid = M!Min(M!MatchOf(h, "machines"))] \in M!Row
    <3> SUFFICES ASSUME NEW h \in M!Hosts, M!MatchOf(h, "machines") # {}
                 PROVE  [machineRows[h] EXCEPT !.mid = M!Min(M!MatchOf(h, "machines"))] \in M!Row
      OBVIOUS
    <3> DEFINE S == M!MatchOf(h, "machines")
    <3>2. S \subseteq Nat /\ S # {}
      BY <1>n, MatchIds
    <3> HIDE DEF S
    <3>3. M!Min(S) \in S
      BY <3>2, LeastId, Zenon
    <3>1. M!Min(S) \in Int
      <4>1. M!Min(S) \in Nat
        BY <3>2, <3>3, Zenon
      <4> QED
        BY <4>1
    <3> USE DEF S
    <3> QED
      BY <3>1, RowsTyped DEF M!Row
  <2>3. machineRows' \in [M!Hosts -> M!Row]
    BY <1>0, <1>7, <2>2 DEF M!_sync_updated_node_machine_ids
  <2> QED
    BY <1>0, <2>1, <2>3 DEF MachineTypes
<1>8. CASE M!RemoveJujuMachine
  BY <1>0, <1>8, RemovalEffect DEF MachineTypes
<1>9. CASE M!RemoveMachineFromClusterd
  <2>1. /\ machineRows' = [machineRows EXCEPT ![cmd.host] = M!Nothing]
        /\ UNCHANGED <<maas, juju, machineFaults>> /\ todo' = {} /\ sync' = {} /\ cmd' = M!NoCmd
    BY <1>9 DEF M!RemoveMachineFromClusterd, M!End
  <2>2. M!Nothing \in M!Row
    BY DEF M!Nothing, M!Row
  <2> QED
    BY <1>0, <1>n, <2>1, <2>2 DEF MachineTypes
<1>10. CASE M!World
  BY <1>0, <1>10, WorldEffect DEF MachineTypes
<1>11. CASE \E h \in Workers : M!Replace(h)
  BY <1>0, <1>11 DEF M!Replace, MachineTypes
<1>12. CASE UNCHANGED M!vars
  BY <1>0, <1>12 DEF M!vars, MachineTypes
<1> QED
  BY <1>1, <1>2, <1>3, <1>4, <1>5, <1>6, <1>7, <1>8, <1>9, <1>10, <1>11, <1>12, MachineSteps

LEMMA CommandStep ==
  ASSUME MachineTypes, CommandInv, [M!Next]_(M!vars)
  PROVE  CommandInv'
<1>0. cmd \in [kind : {"none", "bootstrap", "deploy", "remove"}, host : M!Hosts \cup {"none"}]
      /\ todo \subseteq M!Hosts
  BY DEF MachineTypes
<1>n. M!NoCmd = [kind |-> "none", host |-> "none"] /\ Workers \subseteq M!Hosts /\ Infra \subseteq M!Hosts
  BY DEF M!NoCmd, M!Hosts
<1> USE DEF CommandInv, MachinePcs, Deploying
<1>1. CASE Plans
  <2>1. CASE M!Bootstrap \/ M!Deploy
    BY <1>0, <1>n, <2>1 DEF M!Bootstrap, M!Deploy
  <2>2. CASE M!SelectInfra
    BY <1>0, <2>2 DEF M!SelectInfra, M!Went
  <2>3. CASE M!InfraReady \/ M!InfraUp \/ M!SelectRows \/ M!NothingToPlace \/ M!WaitDone
    BY <1>0, <2>3 DEF M!InfraReady, M!InfraUp, M!SelectRows, M!NothingToPlace, M!WaitDone, M!Went
  <2>4. CASE M!Select
    <3>1. M!ToDeploy \subseteq Workers
      BY DEF M!ToDeploy
    <3>2. CASE machinePc' = "none"
      BY <2>4, <3>2 DEF M!Select, M!Went, M!End
    <3>3. CASE machinePc' # "none"
      <4>1. todo' = M!ToDeploy /\ machinePc = "select" /\ cmd' = cmd /\ machinePc' \in {"rest", "place"}
        BY <2>4, <3>3 DEF M!Select, M!Went, M!End
      <4> QED
        BY <3>1, <4>1
    <3> QED
      BY <3>2, <3>3
  <2>5. CASE M!Rest \/ M!Timeout \/ M!Killed
    BY <2>5 DEF M!Rest, M!Timeout, M!Killed, M!End
  <2>6. CASE \E h \in M!Hosts : M!RemoveNode(h)
    <3>1. PICK h \in M!Hosts : cmd' = [kind |-> "remove", host |-> h]
      BY <2>6 DEF M!RemoveNode
    <3>2. UNCHANGED <<todo, sync>> /\ machinePc' = "remove_machine" /\ cmd = M!NoCmd
      BY <2>6 DEF M!RemoveNode
    <3>3. cmd'.kind = "remove" /\ cmd'.host = h
      BY <3>1
    <3> QED
      BY <3>2, <3>3
  <2> QED
    BY <1>1, <2>1, <2>2, <2>3, <2>4, <2>5, <2>6 DEF Plans
<1>2. CASE M!PlaceInfra
  BY <1>0, <1>2 DEF M!PlaceInfra, M!Went
<1>3. CASE M!WriteRow
  BY <1>0, <1>3 DEF M!WriteRow, M!Went
<1>4. CASE M!UpdateInfraIds \/ M!RemoveMachineFromClusterd
  BY <1>4 DEF M!UpdateInfraIds, M!RemoveMachineFromClusterd, M!End
<1>5. CASE M!AddMachine
  <2>1. M!Batch \subseteq todo
    BY DEF M!Batch
  <2>2. PICK h \in M!Batch : machinePc' = "store" /\ cmd' = [cmd EXCEPT !.host = h]
    BY <1>5 DEF M!AddMachine
  <2>3. machinePc = "place" /\ todo' = todo
    BY <1>5 DEF M!AddMachine
  <2>4. cmd'.host = h /\ cmd'.kind = cmd.kind
    BY <1>0, <2>2
  <2> QED
    BY <2>1, <2>2, <2>3, <2>4
<1>6. CASE M!StoreId
  <2>1. machinePc = "store" /\ machinePc' \in {"place", "sync"} /\ todo' \subseteq todo
        /\ cmd' = [cmd EXCEPT !.host = "none"]
    BY <1>6 DEF M!StoreId
  <2>2. cmd'.kind = cmd.kind
    BY <1>0, <2>1
  <2> QED
    BY <2>1, <2>2
<1>7. CASE M!_sync_updated_node_machine_ids
  BY <1>7 DEF M!_sync_updated_node_machine_ids, M!Went
<1>8. CASE M!RemoveJujuMachine
  <2>1. UNCHANGED <<cmd, todo, sync>> /\ machinePc = "remove_machine" /\ machinePc' = "remove_row"
    BY <1>8, RemovalEffect
  <2> QED
    BY <2>1
<1>10. CASE M!World
  <2>1. UNCHANGED <<cmd, machinePc, todo, sync>>
    BY <1>10, WorldEffect
  <2> QED
    BY <2>1
<1>11. CASE \E h \in Workers : M!Replace(h)
  BY <1>11 DEF M!Replace
<1>12. CASE UNCHANGED M!vars
  BY <1>12 DEF M!vars
<1> QED
  BY <1>1, <1>2, <1>3, <1>4, <1>5, <1>6, <1>7, <1>8, <1>10, <1>11, <1>12, MachineSteps

----------------------------------------------------------------------------
(* Whose a system and an id are                                            *)

\* A machine that matches a row is that host's: nobody else ever had its system.
LEMMA MatchHost ==
  ASSUME MachineTypes, OwnInv, NEW h \in M!Hosts, machineRows[h].sys = maas[h],
         NEW id \in M!MatchOf(h, "machines")
  PROVE  /\ id \in M!Ids("machines") /\ M!Machine("machines", id).host = h
         /\ M!Machine("machines", id).st \in M!Known
<1>1. /\ id \in M!Ids("machines") /\ M!Machine("machines", id).st \in M!Known
      /\ \/ M!Machine("machines", id).host = h
         \/ M!Machine("machines", id).sys = maas[h]
  BY DEF M!MatchOf, M!Present, M!_node_matches_juju_machine
<1>2. "machines" \in M!Models
  BY DEF M!Models
<1>3. M!Machine("machines", id).host \in M!Hosts /\ maas[h] \in Systems
  BY <1>1, <1>2, MachineOf, RowsTyped
<1>4. Uses(maas[h], h)
  BY DEF Uses
<1>5. CASE M!Machine("machines", id).sys = maas[h]
  <2>1. Uses(maas[h], M!Machine("machines", id).host)
    BY <1>1, <1>2, <1>5 DEF Uses
  <2> QED
    BY <1>1, <1>3, <1>4, <2>1 DEF OwnInv
<1> QED
  BY <1>1, <1>5

\* What deploy finds for a host, the machine with the least id.
LEMMA LeastMatch ==
  ASSUME MachineTypes, OwnInv, NEW h \in M!Hosts, machineRows[h].sys = maas[h],
         M!MatchOf(h, "machines") # {}
  PROVE  LET id == M!Min(M!MatchOf(h, "machines"))
         IN  /\ id \in M!Ids("machines") /\ id \in Nat /\ M!Machine("machines", id).host = h
             /\ M!Machine("machines", id).st \in M!Known
             /\ \A k \in M!MatchOf(h, "machines") : id <= k
<1> DEFINE S == M!MatchOf(h, "machines")
<1>1. S \in SUBSET Nat /\ S # {}
  BY MatchIds DEF M!Models
<1> HIDE DEF S
<1>2. M!Min(S) \in S /\ \A k \in S : M!Min(S) <= k
  BY <1>1, LeastId, Zenon
<1>3. M!Min(S) \in Nat
  BY <1>1, <1>2, Zenon
<1>4. \A k \in S : /\ k \in M!Ids("machines") /\ M!Machine("machines", k).host = h
                   /\ M!Machine("machines", k).st \in M!Known
  BY MatchHost DEF S
<1> QED
  BY <1>2, <1>3, <1>4, Zenon DEF S

LEMMA IdsStep ==
  ASSUME MachineTypes, CommandInv, IdsInv, OwnInv, CurrentInv, StoreInv, [M!Next]_(M!vars)
  PROVE  IdsInv'
<1>m. /\ "machines" \in M!Models /\ "infra" \in M!Models /\ HostsOf("machines") = Workers
      /\ HostsOf("infra") = Infra /\ Workers \subseteq M!Hosts /\ Infra \subseteq M!Hosts
      /\ \A m \in M!Models : m \in {"infra", "machines"}
  BY DEF M!Models, HostsOf, M!Hosts
<1>i. /\ \A m \in M!Models : \A id \in M!Ids(m) : M!Machine(m, id).host \in HostsOf(m)
      /\ \A h \in Infra : machineRows[h].mid \in {-1} \cup M!Ids("infra")
      /\ \A h \in Workers : machineRows[h].mid # -1 =>
           machineRows[h].mid \in M!Ids("machines")
           /\ M!Machine("machines", machineRows[h].mid).host = h
  BY DEF IdsInv
\* The machines stay, and the ids do or are those of a machine of the host.
<1>r. ASSUME \A m \in M!Models : Kept(m) /\ M!Ids(m)' = M!Ids(m),
             \A h \in Infra : machineRows'[h].mid \in {machineRows[h].mid, -1} \cup M!Ids("infra"),
             \A h \in Workers : machineRows'[h].mid \in {machineRows[h].mid, -1}
                \/ /\ machineRows'[h].mid \in M!Ids("machines")
                   /\ M!Machine("machines", machineRows'[h].mid).host = h
      PROVE  IdsInv'
  <2>1. \A m \in M!Models : \A id \in M!Ids(m)' :
          id \in M!Ids(m) /\ M!Machine(m, id).host' = M!Machine(m, id).host
    BY <1>r DEF Kept
  <2>2. \A m \in M!Models : \A id \in M!Ids(m)' : M!Machine(m, id).host' \in HostsOf(m)
    BY <1>i, <2>1
  <2>3. \A h \in Infra : machineRows'[h].mid \in {-1} \cup M!Ids("infra")'
    BY <1>i, <1>m, <1>r
  <2>4. ASSUME NEW h \in Workers, machineRows'[h].mid # -1
        PROVE  machineRows'[h].mid \in M!Ids("machines")'
               /\ juju'["machines"][machineRows'[h].mid + 1].host = h
    <3>1. machineRows'[h].mid \in M!Ids("machines")
          /\ M!Machine("machines", machineRows'[h].mid).host = h
      BY <1>i, <1>r, <2>4
    <3>2. PICK id \in M!Ids("machines") : id = machineRows'[h].mid /\ M!Machine("machines", id).host = h
      BY <3>1
    <3>3. id \in M!Ids("machines")' /\ M!Machine("machines", id).host' = h
      BY <1>m, <1>r, <3>2 DEF Kept
    <3> QED
      BY <3>2, <3>3 DEF M!Machine
  <2> QED
    BY <2>2, <2>3, <2>4 DEF IdsInv, M!Machine
<1>a. \A m \in M!Models : juju' = juju => Kept(m) /\ M!Ids(m)' = M!Ids(m)
  BY DEF Kept, M!Ids, M!Machine
\* A machine is added for a host of the model.
<1>p. ASSUME NEW m \in M!Models, NEW h \in HostsOf(m), NEW sys \in Systems, M!Placed(m, h, sys),
             machineRows' = machineRows
      PROVE  IdsInv'
  <2>0. h \in M!Hosts
    BY <1>m DEF HostsOf
  <2>1. /\ \A n \in M!Models : Kept(n) /\ (n # m => juju'[n] = juju[n])
        /\ M!Ids(m)' = M!Ids(m) \cup {Len(juju[m])}
        /\ juju'[m][Len(juju[m]) + 1] = [host |-> h, sys |-> sys, st |-> "pending"]
    BY <1>p, <2>0, PlacedEffect
  <2>2. \A n \in M!Models : \A id \in M!Ids(n)' :
          \/ id \in M!Ids(n) /\ M!Machine(n, id).host' = M!Machine(n, id).host
          \/ n = m /\ id = Len(juju[m])
    BY <2>1 DEF Kept, M!Ids
  <2>3. \A n \in M!Models : \A id \in M!Ids(n)' : M!Machine(n, id).host' \in HostsOf(n)
    <3> SUFFICES ASSUME NEW n \in M!Models, NEW id \in M!Ids(n)', n = m, id = Len(juju[m])
                 PROVE  M!Machine(n, id).host' \in HostsOf(n)
      BY <1>i, <2>2
    <3>1. juju'[n][id + 1].host = h
      BY <2>1
    <3> QED
      BY <3>1 DEF M!Machine
  <2>4. \A h2 \in Infra : machineRows'[h2].mid \in {-1} \cup M!Ids("infra")'
    BY <1>i, <1>m, <1>p, <2>1 DEF Kept
  <2>5. ASSUME NEW h2 \in Workers, machineRows'[h2].mid # -1
        PROVE  machineRows'[h2].mid \in M!Ids("machines")'
               /\ juju'["machines"][machineRows'[h2].mid + 1].host = h2
    <3>1. PICK id \in M!Ids("machines") : id = machineRows'[h2].mid /\ M!Machine("machines", id).host = h2
      BY <1>i, <1>p, <2>5
    <3>2. id \in M!Ids("machines")' /\ M!Machine("machines", id).host' = h2
      BY <1>m, <2>1, <3>1 DEF Kept
    <3> QED
      BY <3>1, <3>2 DEF M!Machine
  <2> QED
    BY <2>3, <2>4, <2>5 DEF IdsInv, M!Machine
<1>1. CASE Plans
  BY <1>1, <1>a, <1>r, PlansKeepBooks
<1>2. CASE M!PlaceInfra
  <2>1. machineRows' = machineRows
    BY <1>2 DEF M!PlaceInfra
  <2>2. CASE todo = {}
    <3>1. juju' = juju
      BY <1>2, <2>2 DEF M!PlaceInfra
    <3> QED
      BY <1>a, <1>r, <2>1, <3>1
  <2>3. CASE todo # {}
    <3>1. PICK h \in todo : M!Placed("infra", h, maas[h])
      BY <1>2, <2>3 DEF M!PlaceInfra
    <3>2. h \in Infra /\ maas[h] \in Systems
      BY <1>2, <1>m, RowsTyped DEF M!PlaceInfra, CommandInv
    <3> QED
      BY <1>m, <1>p, <2>1, <3>1, <3>2
  <2> QED
    BY <2>2, <2>3
<1>3. CASE M!WriteRow
  <2>1. juju' = juju
    BY <1>3 DEF M!WriteRow
  <2>2. \A h \in M!Hosts : machineRows'[h].mid = machineRows[h].mid
    <3>1. CASE todo = {}
      BY <1>3, <3>1 DEF M!WriteRow
    <3>2. CASE todo # {}
      <4>1. PICK h \in todo : machineRows' = [machineRows EXCEPT ![h].sys = maas[h]]
        BY <1>3, <3>2 DEF M!WriteRow
      <4> QED
        BY <4>1, RowsTyped DEF MachineTypes, M!Row
    <3> QED
      BY <3>1, <3>2
  <2> QED
    BY <1>a, <1>m, <1>r, <2>1, <2>2
<1>4. CASE M!UpdateInfraIds
  <2>1. juju' = juju
    BY <1>4 DEF M!UpdateInfraIds
  <2> DEFINE Of(h) == {id \in M!Present("infra") : M!MatchesHostname(h, M!Machine("infra", id))}
  <2>2. \A h \in M!Hosts : \A id \in Of(h) : id \in Nat /\ id \in M!Ids("infra") /\ h \in Infra
    BY <1>i, <1>m, MachineOf DEF M!Present, M!MatchesHostname
  <2>3. machineRows' = machineRows
        \/ machineRows' = [h \in M!Hosts |->
             IF h \in M!Rows /\ machineRows[h].mid = -1 /\ Of(h) # {}
             THEN [machineRows[h] EXCEPT !.mid = M!Min(Of(h))] ELSE machineRows[h]]
    BY <1>4 DEF M!UpdateInfraIds
  <2> HIDE DEF Of
  <2>4. ASSUME NEW h \in M!Hosts
        PROVE  \/ machineRows'[h].mid = machineRows[h].mid
               \/ Of(h) # {} /\ machineRows'[h].mid = M!Min(Of(h))
    <3>1. machineRows[h] \in M!Row
      BY RowsTyped
    <3>2. [machineRows[h] EXCEPT !.mid = M!Min(Of(h))].mid = M!Min(Of(h))
      BY <3>1 DEF M!Row
    <3> QED
      BY <2>3, <3>2
  <2>5. \A h \in M!Hosts : Of(h) # {} => h \in Infra /\ M!Min(Of(h)) \in M!Ids("infra")
    <3> SUFFICES ASSUME NEW h \in M!Hosts, Of(h) # {}
                 PROVE  h \in Infra /\ M!Min(Of(h)) \in M!Ids("infra")
      OBVIOUS
    <3>1. Of(h) \in SUBSET Nat
      BY <2>2
    <3>2. M!Min(Of(h)) \in Of(h)
      BY <3>1, LeastId, Zenon
    <3> QED
      BY <2>2, <3>2
  <2>6. \A h \in Workers : machineRows'[h].mid = machineRows[h].mid
    BY <1>m, <2>4, <2>5, MachinesAssumption
  <2>7. \A h \in Infra : machineRows'[h].mid \in {machineRows[h].mid, -1} \cup M!Ids("infra")
    BY <1>m, <2>4, <2>5
  <2> QED
    BY <1>a, <1>r, <2>1, <2>6, <2>7
<1>5. CASE M!AddMachine
  <2>1. PICK h \in M!Batch : M!Placed("machines", h, machineRows[h].sys)
    BY <1>5 DEF M!AddMachine
  <2>2. h \in todo /\ machineRows' = machineRows /\ machinePc = "place"
    BY <1>5 DEF M!Batch, M!AddMachine
  <2>3. h \in Workers /\ machineRows[h].sys \in Systems
    BY <1>m, <2>2, RowsTyped DEF CommandInv, CurrentInv, Deploying
  <2> QED
    BY <1>m, <1>p, <2>1, <2>2, <2>3
<1>6. CASE M!StoreId
  <2>1. /\ machineRows' = [machineRows EXCEPT ![cmd.host].mid = Len(juju["machines"]) - 1]
        /\ juju' = juju /\ machinePc = "store"
    BY <1>6 DEF M!StoreId
  <2>2. cmd.host \in Workers
    BY <2>1 DEF CommandInv, Deploying
  <2>3. Len(juju["machines"]) - 1 \in M!Ids("machines")
        /\ M!Machine("machines", Len(juju["machines"]) - 1).host = cmd.host
    BY <2>1 DEF StoreInv
  <2>4. machineRows'[cmd.host].mid = Len(juju["machines"]) - 1
        /\ \A h \in M!Hosts : h # cmd.host => machineRows'[h] = machineRows[h]
    BY <1>m, <2>1, <2>2, RowsTyped DEF MachineTypes, M!Row
  <2>5. cmd.host \notin Infra
    BY <2>2, MachinesAssumption
  <2> QED
    BY <1>a, <1>m, <1>r, <2>1, <2>3, <2>4, <2>5
<1>7. CASE M!_sync_updated_node_machine_ids
  <2>1. juju' = juju /\ machinePc = "sync"
    BY <1>7 DEF M!_sync_updated_node_machine_ids
  <2>2. ASSUME NEW h \in M!Hosts
        PROVE  \/ machineRows'[h] = machineRows[h]
               \/ /\ h \in sync /\ M!MatchOf(h, "machines") # {}
                  /\ machineRows'[h].mid = M!Min(M!MatchOf(h, "machines"))
    BY <1>7, RowsTyped DEF M!_sync_updated_node_machine_ids, M!Row
  <2>3. \A h \in M!Hosts : machineRows[h].sys = maas[h]
    BY <2>1 DEF CurrentInv, Deploying
  <2>4. sync \subseteq Workers
    BY DEF MachineTypes
  <2>5. \A h \in Infra : machineRows'[h] = machineRows[h]
    BY <1>m, <2>2, <2>4, MachinesAssumption
  <2>6. ASSUME NEW h \in Workers
        PROVE  machineRows'[h].mid \in {machineRows[h].mid, -1}
               \/ /\ machineRows'[h].mid \in M!Ids("machines")
                  /\ M!Machine("machines", machineRows'[h].mid).host = h
    BY <1>m, <2>2, <2>3, LeastMatch
  <2> QED
    BY <1>a, <1>r, <2>1, <2>5, <2>6
<1>8. CASE M!RemoveJujuMachine
  BY <1>8, <1>r, RemovalEffect
<1>9. CASE M!RemoveMachineFromClusterd
  <2>1. machineRows' = [machineRows EXCEPT ![cmd.host] = M!Nothing] /\ juju' = juju
    BY <1>9 DEF M!RemoveMachineFromClusterd
  <2>2. \A h \in M!Hosts : machineRows'[h].mid \in {machineRows[h].mid, -1}
    BY <2>1 DEF M!Nothing, MachineTypes
  <2> QED
    BY <1>a, <1>m, <1>r, <2>1, <2>2
<1>10. CASE M!World
  BY <1>10, <1>r, WorldEffect
<1>11. CASE (\E h \in Workers : M!Replace(h)) \/ UNCHANGED M!vars
  <2>1. juju' = juju /\ machineRows' = machineRows
    BY <1>11 DEF M!Replace, M!vars
  <2> QED
    BY <1>a, <1>r, <2>1
<1> QED
  BY <1>1, <1>2, <1>3, <1>4, <1>5, <1>6, <1>7, <1>8, <1>9, <1>10, <1>11, MachineSteps

\* Where a step names a system of a host that was not its own before, nobody else had it.
LEMMA OwnSame ==
  ASSUME MachineTypes, OwnInv, maas' = maas,
         \A h \in M!Hosts : machineRows'[h].sys \in {machineRows[h].sys, maas[h], 0},
         \A m \in M!Models : \A id \in M!Ids(m)' :
            \/ /\ id \in M!Ids(m) /\ M!Machine(m, id).host' = M!Machine(m, id).host
               /\ M!Machine(m, id).sys' = M!Machine(m, id).sys
            \/ Uses(M!Machine(m, id).sys', M!Machine(m, id).host')
  PROVE  OwnInv'
<1>1. ASSUME NEW sys \in Systems, NEW h \in M!Hosts, Uses(sys, h)'
      PROVE  Uses(sys, h)
  <2>0. sys # 0
    BY MachinesAssumption
  <2>1. CASE maas'[h] = sys \/ machineRows'[h].sys = sys
    BY <2>0, <2>1 DEF Uses
  <2>2. CASE \E m \in M!Models : \E id \in M!Ids(m)' :
               M!Machine(m, id).sys' = sys /\ M!Machine(m, id).host' = h
    <3>1. PICK m \in M!Models : \E id \in M!Ids(m)' :
               M!Machine(m, id).sys' = sys /\ M!Machine(m, id).host' = h
      BY <2>2
    <3>2. PICK id \in M!Ids(m)' : M!Machine(m, id).sys' = sys /\ M!Machine(m, id).host' = h
      BY <3>1
    <3>3. CASE /\ id \in M!Ids(m) /\ M!Machine(m, id).host' = M!Machine(m, id).host
               /\ M!Machine(m, id).sys' = M!Machine(m, id).sys
      BY <3>2, <3>3 DEF Uses
    <3> QED
      BY <3>2, <3>3
  <2>3. \/ maas'[h] = sys \/ machineRows'[h].sys = sys
        \/ \E m \in M!Models : \E id \in M!Ids(m)' :
             M!Machine(m, id).sys' = sys /\ M!Machine(m, id).host' = h
    BY <1>1 DEF Uses
  <2> QED
    BY <2>1, <2>2, <2>3
<1>2. ASSUME NEW sys \in Systems, NEW h \in M!Hosts, Uses(sys, h)'
      PROVE  sys <= maas'[h] /\ \A g \in M!Hosts : Uses(sys, g)' => g = h
  <2>1. sys <= maas[h] /\ \A g \in M!Hosts : Uses(sys, g) => g = h
    BY <1>1, <1>2 DEF OwnInv
  <2> QED
    BY <1>1, <2>1
<1> QED
  BY <1>2 DEF OwnInv

LEMMA OwnStep ==
  ASSUME MachineTypes, CommandInv, OwnInv, CurrentInv, [M!Next]_(M!vars)
  PROVE  OwnInv'
<1>m. /\ "machines" \in M!Models /\ "infra" \in M!Models
      /\ Workers \subseteq M!Hosts /\ Infra \subseteq M!Hosts
  BY DEF M!Models, M!Hosts
<1>k. ASSUME \A m \in M!Models : Kept(m) /\ M!Ids(m)' = M!Ids(m), maas' = maas,
             \A h \in M!Hosts : machineRows'[h].sys \in {machineRows[h].sys, maas[h], 0}
      PROVE  OwnInv'
  <2>1. \A m \in M!Models : \A id \in M!Ids(m)' :
          /\ id \in M!Ids(m) /\ M!Machine(m, id).host' = M!Machine(m, id).host
          /\ M!Machine(m, id).sys' = M!Machine(m, id).sys
    BY <1>k DEF Kept
  <2> QED
    BY <1>k, <2>1, OwnSame
<1>a. \A m \in M!Models : juju' = juju => Kept(m) /\ M!Ids(m)' = M!Ids(m)
  BY DEF Kept, M!Ids, M!Machine
<1>p. ASSUME NEW m \in M!Models, NEW h \in M!Hosts, M!Placed(m, h, maas[h]),
             machineRows' = machineRows, maas' = maas
      PROVE  OwnInv'
  <2>0. maas[h] \in Systems /\ Uses(maas[h], h)
    BY RowsTyped DEF Uses
  <2>1. /\ \A n \in M!Models : Kept(n) /\ (n # m => juju'[n] = juju[n])
        /\ M!Ids(m)' = M!Ids(m) \cup {Len(juju[m])}
        /\ juju'[m][Len(juju[m]) + 1] = [host |-> h, sys |-> maas[h], st |-> "pending"]
    BY <1>p, <2>0, PlacedEffect
  <2>2. ASSUME NEW n \in M!Models, NEW id \in M!Ids(n)'
        PROVE  \/ /\ id \in M!Ids(n) /\ M!Machine(n, id).host' = M!Machine(n, id).host
                  /\ M!Machine(n, id).sys' = M!Machine(n, id).sys
               \/ Uses(M!Machine(n, id).sys', M!Machine(n, id).host')
    <3>1. CASE id \in M!Ids(n)
      BY <2>1, <3>1 DEF Kept
    <3>2. CASE id \notin M!Ids(n)
      <4>1. n = m /\ id = Len(juju[m])
        BY <2>1, <2>2, <3>2 DEF M!Ids
      <4>2. juju'[n][id + 1].sys = maas[h] /\ juju'[n][id + 1].host = h
        BY <2>1, <4>1
      <4>3. M!Machine(n, id).sys' = maas[h] /\ M!Machine(n, id).host' = h
        BY <4>2 DEF M!Machine
      <4> QED
        BY <2>0, <4>3
    <3> QED
      BY <3>1, <3>2
  <2> QED
    BY <1>p, <2>2, OwnSame
<1>1. CASE Plans
  BY <1>1, <1>a, <1>k, PlansKeepBooks
<1>2. CASE M!PlaceInfra
  <2>1. machineRows' = machineRows /\ maas' = maas
    BY <1>2 DEF M!PlaceInfra
  <2>2. CASE todo = {}
    <3>1. juju' = juju
      BY <1>2, <2>2 DEF M!PlaceInfra
    <3> QED
      BY <1>a, <1>k, <2>1, <3>1
  <2>3. CASE todo # {}
    <3>1. PICK h \in todo : M!Placed("infra", h, maas[h])
      BY <1>2, <2>3 DEF M!PlaceInfra
    <3>2. h \in M!Hosts
      BY DEF MachineTypes
    <3> QED
      BY <1>m, <1>p, <2>1, <3>1, <3>2
  <2> QED
    BY <2>2, <2>3
<1>3. CASE M!WriteRow
  <2>1. juju' = juju /\ maas' = maas
    BY <1>3 DEF M!WriteRow
  <2>2. \A h \in M!Hosts : machineRows'[h].sys \in {machineRows[h].sys, maas[h], 0}
    <3>1. CASE todo = {}
      BY <1>3, <3>1 DEF M!WriteRow
    <3>2. CASE todo # {}
      <4>1. PICK h \in todo : machineRows' = [machineRows EXCEPT ![h].sys = maas[h]]
        BY <1>3, <3>2 DEF M!WriteRow
      <4> QED
        BY <4>1, RowsTyped DEF MachineTypes, M!Row
    <3> QED
      BY <3>1, <3>2
  <2> QED
    BY <1>a, <1>k, <2>1, <2>2
<1>4. CASE M!UpdateInfraIds \/ M!StoreId \/ M!_sync_updated_node_machine_ids
           \/ M!RemoveMachineFromClusterd
  <2>1. juju' = juju /\ maas' = maas
    BY <1>4 DEF M!UpdateInfraIds, M!StoreId, M!_sync_updated_node_machine_ids,
       M!RemoveMachineFromClusterd
  <2>2. \A h \in M!Hosts : machineRows'[h].sys \in {machineRows[h].sys, maas[h], 0}
    <3> SUFFICES ASSUME NEW h \in M!Hosts
                 PROVE  machineRows'[h].sys \in {machineRows[h].sys, maas[h], 0}
      OBVIOUS
    <3>0. machineRows[h] \in M!Row /\ machineRows \in [M!Hosts -> M!Row]
      BY RowsTyped DEF MachineTypes
    <3>1. CASE M!UpdateInfraIds
      <4>1. machineRows'[h] = machineRows[h] \/ \E i : machineRows'[h] = [machineRows[h] EXCEPT !.mid = i]
        BY <3>1 DEF M!UpdateInfraIds
      <4> QED
        BY <3>0, <4>1 DEF M!Row
    <3>2. CASE M!StoreId
      <4>1. machineRows' = [machineRows EXCEPT ![cmd.host].mid = Len(juju["machines"]) - 1]
        BY <3>2 DEF M!StoreId
      <4> QED
        BY <3>0, <4>1 DEF M!Row
    <3>3. CASE M!_sync_updated_node_machine_ids
      <4>1. machineRows'[h] = machineRows[h] \/ \E i : machineRows'[h] = [machineRows[h] EXCEPT !.mid = i]
        BY <3>3 DEF M!_sync_updated_node_machine_ids
      <4> QED
        BY <3>0, <4>1 DEF M!Row
    <3>4. CASE M!RemoveMachineFromClusterd
      <4>1. machineRows' = [machineRows EXCEPT ![cmd.host] = M!Nothing]
        BY <3>4 DEF M!RemoveMachineFromClusterd
      <4> QED
        BY <3>0, <4>1 DEF M!Nothing
    <3> QED
      BY <1>4, <3>1, <3>2, <3>3, <3>4
  <2> QED
    BY <1>a, <1>k, <2>1, <2>2
<1>5. CASE M!AddMachine
  <2>1. PICK h \in M!Batch : M!Placed("machines", h, machineRows[h].sys)
    BY <1>5 DEF M!AddMachine
  <2>2. h \in todo /\ machineRows' = machineRows /\ machinePc = "place" /\ maas' = maas
    BY <1>5 DEF M!Batch, M!AddMachine
  <2>3. h \in M!Hosts /\ machineRows[h].sys = maas[h]
    BY <2>2 DEF MachineTypes, CurrentInv, Deploying
  <2> QED
    BY <1>m, <1>p, <2>1, <2>2, <2>3
<1>6. CASE M!RemoveJujuMachine
  BY <1>6, <1>k, RemovalEffect
<1>7. CASE M!World
  BY <1>7, <1>k, WorldEffect
<1>8. CASE \E h \in Workers : M!Replace(h)
  <2>1. PICK h \in Workers : M!Replace(h)
    BY <1>8
  <2>2. PICK new \in Systems : (\A g \in M!Hosts : maas[g] < new) /\ maas' = [maas EXCEPT ![h] = new]
    BY <2>1 DEF M!Replace
  <2>3. juju' = juju /\ machineRows' = machineRows /\ h \in M!Hosts
    BY <1>m, <2>1 DEF M!Replace
  <2>4. maas'[h] = new /\ \A g \in M!Hosts : g # h => maas'[g] = maas[g]
    BY <2>2, <2>3 DEF MachineTypes
  <2>5. Systems \subseteq Nat /\ \A g \in M!Hosts : maas[g] \in Systems
    BY MachinesAssumption, RowsTyped
  <2>6. ASSUME NEW sys \in Systems, NEW g \in M!Hosts, Uses(sys, g)'
        PROVE  Uses(sys, g) \/ (sys = new /\ g = h)
    BY <2>3, <2>4, <2>6 DEF Uses, M!Ids, M!Machine
  <2>7. \A sys \in Systems, g \in M!Hosts : Uses(sys, g) => sys < new
    <3> SUFFICES ASSUME NEW sys \in Systems, NEW g \in M!Hosts, Uses(sys, g) PROVE sys < new
      OBVIOUS
    <3>1. sys <= maas[g] /\ maas[g] < new
      BY <2>2 DEF OwnInv
    <3>2. sys \in Nat /\ maas[g] \in Nat /\ new \in Nat
      BY <2>5
    <3> QED
      BY <3>1, <3>2
  <2>8. ASSUME NEW sys \in Systems, NEW g \in M!Hosts, Uses(sys, g)'
        PROVE  sys <= maas'[g] /\ \A k \in M!Hosts : Uses(sys, k)' => k = g
    <3>1. CASE sys = new
      <4>1. g = h /\ \A k \in M!Hosts : Uses(sys, k)' => k = h
        <5>1. \A k \in M!Hosts : ~Uses(new, k)
          BY <2>5, <2>7
        <5> QED
          BY <2>6, <2>8, <3>1, <5>1
      <4> QED
        BY <2>4, <2>5, <3>1, <4>1
    <3>2. CASE sys # new
      <4>1. Uses(sys, g) /\ \A k \in M!Hosts : Uses(sys, k)' => Uses(sys, k)
        BY <2>6, <2>8, <3>2
      <4>2. sys <= maas[g] /\ \A k \in M!Hosts : Uses(sys, k)' => k = g
        BY <4>1 DEF OwnInv
      <4>3. sys <= maas'[g]
        <5>1. sys \in Nat /\ maas[g] \in Nat /\ new \in Nat /\ maas[g] < new
          BY <2>2, <2>5
        <5>2. maas'[g] = maas[g] \/ maas'[g] = new
          BY <2>4
        <5> QED
          BY <4>2, <5>1, <5>2
      <4> QED
        BY <4>2, <4>3
    <3> QED
      BY <3>1, <3>2
  <2> QED
    BY <2>8 DEF OwnInv
<1>9. CASE UNCHANGED M!vars
  BY <1>9, <1>a, <1>k DEF M!vars
<1> QED
  BY <1>1, <1>2, <1>3, <1>4, <1>5, <1>6, <1>7, <1>8, <1>9, MachineSteps

LEMMA LaterStep ==
  ASSUME MachineTypes, CommandInv, OwnInv, CurrentInv, LaterInv, [M!Next]_(M!vars)
  PROVE  LaterInv'
<1>m. "machines" \in M!Models /\ "infra" \in M!Models /\ "machines" # "infra"
  BY DEF M!Models
<1>k. ASSUME Kept("machines") /\ M!Ids("machines")' = M!Ids("machines") PROVE LaterInv'
  <2>1. \A id \in M!Ids("machines")' :
          /\ id \in M!Ids("machines")
          /\ M!Machine("machines", id).host' = M!Machine("machines", id).host
          /\ M!Machine("machines", id).sys' = M!Machine("machines", id).sys
    BY <1>k DEF Kept
  <2> QED
    BY <2>1 DEF LaterInv
<1>a. juju'["machines"] = juju["machines"] => Kept("machines") /\ M!Ids("machines")' = M!Ids("machines")
  BY DEF Kept, M!Ids, M!Machine
<1>1. CASE M!AddMachine
  <2>1. PICK h \in M!Batch : M!Placed("machines", h, machineRows[h].sys)
    BY <1>1 DEF M!AddMachine
  <2>2. h \in todo /\ machinePc = "place"
    BY <1>1 DEF M!Batch, M!AddMachine
  <2>3. h \in M!Hosts /\ machineRows[h].sys = maas[h] /\ maas[h] \in Systems
    BY <2>2, RowsTyped DEF MachineTypes, CurrentInv, Deploying
  <2> DEFINE n == Len(juju["machines"])
  <2>4. /\ Kept("machines") /\ M!Ids("machines")' = M!Ids("machines") \cup {n}
        /\ juju'["machines"][n + 1] = [host |-> h, sys |-> maas[h], st |-> "pending"]
    BY <1>m, <2>1, <2>3, PlacedEffect
  <2>5. n \in Nat /\ \A id \in M!Ids("machines") : id \in Nat /\ id < n
    BY <1>m, JujuType DEF M!Ids
  <2>6. \A id \in M!Ids("machines") :
          /\ M!Machine("machines", id).host' = M!Machine("machines", id).host
          /\ M!Machine("machines", id).sys' = M!Machine("machines", id).sys
    BY <2>4 DEF Kept
  <2> HIDE DEF n
  <2>7. \A id : id = n => M!Machine("machines", id).host' = h /\ M!Machine("machines", id).sys' = maas[h]
    BY <2>4 DEF M!Machine
  <2>8. \A id \in M!Ids("machines") : M!Machine("machines", id).host = h
          => M!Machine("machines", id).sys \in Systems /\ M!Machine("machines", id).sys <= maas[h]
    <3> SUFFICES ASSUME NEW id \in M!Ids("machines"), M!Machine("machines", id).host = h
                 PROVE  M!Machine("machines", id).sys \in Systems /\ M!Machine("machines", id).sys <= maas[h]
      OBVIOUS
    <3>1. M!Machine("machines", id).sys \in Systems
      BY <1>m, MachineOf
    <3>2. Uses(M!Machine("machines", id).sys, h)
      BY <1>m DEF Uses
    <3> QED
      BY <2>3, <3>1, <3>2 DEF OwnInv
  <2>9. ASSUME NEW a \in M!Ids("machines")', NEW b \in M!Ids("machines")', a <= b,
               M!Machine("machines", a).host' = M!Machine("machines", b).host'
        PROVE  M!Machine("machines", a).sys' <= M!Machine("machines", b).sys'
    <3>1. CASE b = n
      <4>1. CASE a = n
        <5>1. maas[h] \in Nat
          BY <2>3, MachinesAssumption
        <5> QED
          BY <2>7, <3>1, <4>1, <5>1
      <4>2. CASE a # n
        BY <2>4, <2>6, <2>7, <2>8, <2>9, <3>1, <4>2
      <4> QED
        BY <4>1, <4>2
    <3>2. CASE b # n
      <4>1. a \in M!Ids("machines") /\ b \in M!Ids("machines")
        BY <2>4, <2>5, <2>9, <3>2
      <4> QED
        BY <2>6, <2>9, <4>1 DEF LaterInv
    <3> QED
      BY <3>1, <3>2
  <2> QED
    BY <2>9 DEF LaterInv
<1>2. CASE M!PlaceInfra
  <2>1. juju'["machines"] = juju["machines"]
    <3>1. CASE todo = {}
      BY <1>2, <3>1 DEF M!PlaceInfra
    <3>2. CASE todo # {}
      <4>1. PICK h \in todo : M!Placed("infra", h, maas[h])
        BY <1>2, <3>2 DEF M!PlaceInfra
      <4>2. h \in M!Hosts /\ maas[h] \in Systems
        BY RowsTyped DEF MachineTypes
      <4> QED
        BY <1>m, <4>1, <4>2, PlacedEffect
    <3> QED
      BY <3>1, <3>2
  <2> QED
    BY <1>a, <1>k, <2>1
<1>3. CASE M!RemoveJujuMachine
  BY <1>3, <1>k, <1>m, RemovalEffect
<1>4. CASE M!World
  BY <1>4, <1>k, <1>m, WorldEffect
<1>5. CASE juju' = juju
  BY <1>5, <1>a, <1>k
<1>6. ~M!AddMachine /\ ~M!PlaceInfra /\ ~M!RemoveJujuMachine /\ ~M!World => juju' = juju
  BY MachineSteps, PlansKeepBooks DEF M!WriteRow, M!UpdateInfraIds, M!StoreId,
     M!_sync_updated_node_machine_ids, M!RemoveMachineFromClusterd, M!Replace, M!vars
<1> QED
  BY <1>1, <1>2, <1>3, <1>4, <1>5, <1>6

LEMMA CurrentStep ==
  ASSUME MachineTypes, CommandInv, CurrentInv, [M!Next]_(M!vars)
  PROVE  CurrentInv'
<1> USE DEF CurrentInv, Deploying
<1>1. CASE Plans
  <2>1. UNCHANGED <<maas, machineRows>>
    BY <1>1, PlansKeepBooks
  <2>2. CASE M!SelectRows
    BY <2>1, <2>2 DEF M!SelectRows, M!Went
  <2>3. CASE M!Bootstrap \/ M!Deploy \/ M!SelectInfra \/ M!InfraReady \/ M!InfraUp \/ M!NothingToPlace
             \/ M!WaitDone
    BY <2>1, <2>3 DEF M!Bootstrap, M!Deploy, M!SelectInfra, M!InfraReady, M!InfraUp, M!NothingToPlace,
       M!WaitDone, M!Went
  <2>4. CASE M!Select
    BY <2>1, <2>4 DEF M!Select, M!Went, M!End
  <2>5. CASE M!Rest \/ M!Timeout \/ M!Killed \/ \E h \in M!Hosts : M!RemoveNode(h)
    BY <2>1, <2>5 DEF M!Rest, M!Timeout, M!Killed, M!RemoveNode, M!End
  <2> QED
    BY <1>1, <2>2, <2>3, <2>4, <2>5 DEF Plans
<1>2. CASE M!PlaceInfra
  BY <1>2 DEF M!PlaceInfra, M!Went
<1>3. CASE M!WriteRow
  <2>1. CASE todo = {}
    BY <1>3, <2>1 DEF M!WriteRow, M!Went
  <2>2. CASE todo # {}
    <3>1. PICK h \in todo : machineRows' = [machineRows EXCEPT ![h].sys = maas[h]] /\ todo' = todo \ {h}
      BY <1>3, <2>2 DEF M!WriteRow
    <3>2. maas' = maas /\ machinePc' = machinePc /\ machinePc = "write_rows"
      BY <1>3, <2>2 DEF M!WriteRow
    <3>3. machineRows'[h].sys = maas[h] /\ \A g \in M!Hosts : g # h => machineRows'[g] = machineRows[g]
      BY <3>1 DEF MachineTypes, M!Row
    <3> QED
      BY <3>1, <3>2, <3>3
  <2> QED
    BY <2>1, <2>2
<1>4. CASE M!UpdateInfraIds \/ M!RemoveMachineFromClusterd
  BY <1>4 DEF M!UpdateInfraIds, M!RemoveMachineFromClusterd, M!End
<1>5. CASE M!AddMachine
  BY <1>5 DEF M!AddMachine
<1>6. CASE M!StoreId
  <2>1. /\ machineRows' = [machineRows EXCEPT ![cmd.host].mid = Len(juju["machines"]) - 1]
        /\ maas' = maas /\ machinePc = "store"
    BY <1>6 DEF M!StoreId
  <2>2. \A h \in M!Hosts : machineRows'[h].sys = machineRows[h].sys
    BY <2>1, RowsTyped DEF MachineTypes, M!Row
  <2>3. machinePc' \in {"place", "sync"}
    BY <1>6 DEF M!StoreId
  <2> QED
    BY <2>1, <2>2, <2>3
<1>7. CASE M!_sync_updated_node_machine_ids
  <2>1. maas' = maas /\ machinePc = "sync" /\ machinePc' = "wait"
    BY <1>7 DEF M!_sync_updated_node_machine_ids, M!Went
  <2>2. ASSUME NEW h \in M!Hosts PROVE machineRows'[h].sys = machineRows[h].sys
    <3>1. machineRows'[h] = machineRows[h] \/ \E i : machineRows'[h] = [machineRows[h] EXCEPT !.mid = i]
      BY <1>7 DEF M!_sync_updated_node_machine_ids
    <3> QED
      BY <3>1, RowsTyped DEF M!Row
  <2> QED
    BY <2>1, <2>2
<1>8. CASE M!RemoveJujuMachine
  BY <1>8, RemovalEffect
<1>9. CASE M!World
  <2>1. UNCHANGED <<maas, machineRows, machinePc, todo>>
    BY <1>9, WorldEffect
  <2> QED
    BY <2>1
<1>10. CASE \E h \in Workers : M!Replace(h)
  <2>1. cmd.kind = "none" /\ machinePc' = machinePc
    BY <1>10 DEF M!Replace, M!NoCmd
  <2>2. machinePc = "none"
    BY <2>1 DEF CommandInv
  <2> QED
    BY <2>1, <2>2
<1>11. CASE UNCHANGED M!vars
  BY <1>11 DEF M!vars
<1> QED
  BY <1>1, <1>2, <1>3, <1>4, <1>5, <1>6, <1>7, <1>8, <1>9, <1>10, <1>11, MachineSteps

----------------------------------------------------------------------------
(* What deploy has done so far                                             *)

\* What a host has keeps its place, whatever happens to other machines.
LEMMA HasStays ==
  ASSUME MachineTypes, IdsInv, NEW h \in Workers, HasMachine(h), machineRows'[h] = machineRows[h],
         Kept("machines")
  PROVE  HasMachine(h)'
<1>1. machineRows[h].mid \in M!Ids("machines") /\ machineRows[h].mid # -1
  BY DEF HasMachine, IdsInv
<1>2. PICK id \in M!Ids("machines") : id = machineRows[h].mid
  BY <1>1
<1>3. M!Machine("machines", id).sys' = M!Machine("machines", id).sys
  BY <1>2 DEF Kept
<1>4. juju'["machines"][id + 1].sys = machineRows[h].sys
  BY <1>2, <1>3 DEF HasMachine, M!Machine
<1> QED
  BY <1>1, <1>2, <1>4 DEF HasMachine, M!Machine

LEMMA StoreStep ==
  ASSUME MachineTypes, CommandInv, CurrentInv, StoreInv, [M!Next]_(M!vars)
  PROVE  StoreInv'
<1> SUFFICES ASSUME machinePc' = "store" PROVE StoreInv'
  BY DEF StoreInv
<1>m. "machines" \in M!Models
  BY DEF M!Models
<1>1. CASE M!AddMachine
  <2>1. PICK h \in M!Batch : M!Placed("machines", h, machineRows[h].sys) /\ cmd' = [cmd EXCEPT !.host = h]
    BY <1>1 DEF M!AddMachine
  <2>2. h \in todo /\ machinePc = "place" /\ machineRows' = machineRows
    BY <1>1 DEF M!Batch, M!AddMachine
  <2>3. h \in M!Hosts /\ machineRows[h].sys \in Systems
    BY <2>2, RowsTyped DEF MachineTypes, CurrentInv, Deploying
  <2>4. cmd'.host = h
    BY <2>1 DEF MachineTypes
  <2> DEFINE n == Len(juju["machines"])
  <2>5. /\ Len(juju'["machines"]) = n + 1 /\ M!Ids("machines")' = M!Ids("machines") \cup {n}
        /\ juju'["machines"][n + 1] = [host |-> h, sys |-> machineRows[h].sys, st |-> "pending"]
    BY <1>m, <2>1, <2>3, PlacedEffect
  <2>6. n \in Nat
    BY <1>m, JujuType
  <2> HIDE DEF n
  <2>7. Len(juju'["machines"]) - 1 = n
    BY <2>5, <2>6
  <2> QED
    BY <2>2, <2>4, <2>5, <2>7 DEF StoreInv, M!Machine
<1>2. CASE M!World
  <2>1. /\ UNCHANGED <<machineRows, cmd, machinePc>> /\ Kept("machines")
        /\ Len(juju'["machines"]) = Len(juju["machines"]) /\ M!Ids("machines")' = M!Ids("machines")
    BY <1>2, <1>m, WorldEffect
  <2>2. PICK id \in M!Ids("machines") : /\ id = Len(juju["machines"]) - 1
                                        /\ M!Machine("machines", id).host = cmd.host
                                        /\ M!Machine("machines", id).sys = machineRows[cmd.host].sys
    BY <2>1 DEF StoreInv
  <2>3. juju'["machines"][id + 1].host = cmd.host /\ juju'["machines"][id + 1].sys = machineRows[cmd.host].sys
    BY <2>1, <2>2 DEF Kept, M!Machine
  <2> QED
    BY <2>1, <2>2, <2>3 DEF StoreInv, M!Machine
<1>3. CASE UNCHANGED M!vars
  BY <1>3 DEF M!vars, StoreInv, M!Ids, M!Machine
<1>4. ~Plans
  BY DEF Plans, M!Bootstrap, M!Deploy, M!SelectInfra, M!InfraReady, M!InfraUp, M!SelectRows, M!Select,
     M!NothingToPlace, M!WaitDone, M!Rest, M!Timeout, M!Killed, M!RemoveNode, M!Went, M!End
<1>5. ~M!PlaceInfra /\ ~M!WriteRow /\ ~M!UpdateInfraIds /\ ~M!StoreId /\ ~M!RemoveMachineFromClusterd
      /\ ~M!_sync_updated_node_machine_ids /\ ~M!RemoveJujuMachine
  BY DEF M!PlaceInfra, M!WriteRow, M!UpdateInfraIds, M!StoreId, M!RemoveMachineFromClusterd,
     M!_sync_updated_node_machine_ids, M!RemoveJujuMachine, M!Went, M!End
<1>6. ~ \E h \in Workers : M!Replace(h)
  <2>1. (\E h \in Workers : M!Replace(h)) => cmd.kind = "none" /\ machinePc' = machinePc
    BY DEF M!Replace, M!NoCmd
  <2> QED
    BY <2>1 DEF CommandInv
<1> QED
  BY <1>1, <1>2, <1>3, <1>4, <1>5, <1>6, MachineSteps

LEMMA KnownStates ==
  /\ M!Known = {"started", "deployed", "dying"}
  /\ "gone" \notin M!Known /\ "pending" \notin M!Known
BY DEF M!Known

\* What select finds for each host: nothing, a machine without its id in the row, or the
\* machine of the row.
LEMMA Selected ==
  ASSUME MachinesInv, machinePc = "select", M!Select, machinePc' # "none"
  PROVE  /\ UNCHANGED <<machineRows, juju, maas>> /\ todo' = M!ToDeploy /\ sync' = M!ToUpdate
         /\ machinePc' \in {"rest", "place"}
         /\ machinePc' = "rest" => todo' = {} /\ sync' = {}
         /\ \A h \in Workers \ (todo' \cup sync') :
              HasMachine(h) /\ M!Machine("machines", machineRows[h].mid).st \in M!Known
         /\ \A h \in sync' : machineRows[h].mid = -1 /\ Found(h, M!Known)
         /\ \A h \in sync' : \A id \in M!Ids("machines") :
              M!Machine("machines", id).host = h /\ M!Machine("machines", id).st \in M!Known
                => M!Machine("machines", id).sys = machineRows[h].sys
<1>m. "machines" \in M!Models /\ Workers \subseteq M!Hosts
  BY DEF M!Models, M!Hosts
<1>i. MachineTypes /\ OwnInv /\ LaterInv /\ \A h \in M!Hosts : machineRows[h].sys = maas[h]
  BY DEF MachinesInv, CurrentInv
<1>1. /\ UNCHANGED <<machineRows, juju, maas>> /\ todo' = M!ToDeploy /\ sync' = M!ToUpdate
      /\ machinePc' = IF M!ToDeploy \cup M!ToUpdate = {} THEN "rest" ELSE "place"
      /\ \A h \in M!Rows \cap Workers : ~M!Mismatch(h)
  BY DEF M!Select, M!Went, M!End
<1>2. ASSUME NEW h \in Workers
      PROVE  h \in M!Rows /\ machineRows[h].sys = maas[h] /\ maas[h] \in Systems
  <2>1. machineRows[h].sys = maas[h] /\ maas[h] \in Systems /\ h \in M!Hosts
    BY <1>i, <1>m, RowsTyped
  <2>2. machineRows[h].sys # 0
    BY <2>1, MachinesAssumption
  <2> QED
    BY <2>1, <2>2 DEF M!Rows, M!Nothing
<1>3. ASSUME NEW h \in Workers, M!MatchOf(h, "machines") # {}
      PROVE  LET id == M!Min(M!MatchOf(h, "machines"))
             IN  /\ id \in M!Ids("machines") /\ id \in Nat /\ M!Machine("machines", id).host = h
                 /\ M!Machine("machines", id).st \in M!Known
                 /\ \A k \in M!MatchOf(h, "machines") : id <= k
                 /\ machineRows[h].mid \in {-1, id}
                 /\ M!Machine("machines", id).sys = machineRows[h].sys
  <2>1. ~M!Mismatch(h)
    BY <1>1, <1>2
  <2>2. LET id == M!Min(M!MatchOf(h, "machines"))
        IN  machineRows[h].mid \in {-1, id} /\ M!Machine("machines", id).sys = machineRows[h].sys
    BY <1>3, <2>1 DEF M!Mismatch
  <2> QED
    BY <1>2, <1>3, <1>i, <1>m, <2>2, LeastMatch
<1>4. ASSUME NEW h \in Workers \ (todo' \cup sync')
      PROVE  HasMachine(h) /\ M!Machine("machines", machineRows[h].mid).st \in M!Known
  <2>1. M!MatchOf(h, "machines") # {} /\ machineRows[h].mid # -1
    BY <1>1, <1>2 DEF M!ToDeploy, M!ToUpdate
  <2> QED
    BY <1>3, <2>1 DEF HasMachine
<1>5. ASSUME NEW h \in sync'
      PROVE  h \in Workers /\ M!MatchOf(h, "machines") # {} /\ machineRows[h].mid = -1 /\ Found(h, M!Known)
  <2>1. h \in Workers /\ M!MatchOf(h, "machines") # {} /\ machineRows[h].mid = -1
    BY <1>1 DEF M!ToUpdate
  <2> QED
    BY <1>3, <2>1 DEF Found
<1>6. ASSUME NEW h \in sync', NEW id \in M!Ids("machines"),
             M!Machine("machines", id).host = h, M!Machine("machines", id).st \in M!Known
      PROVE  M!Machine("machines", id).sys = machineRows[h].sys
  <2>1. id \in M!MatchOf(h, "machines")
    BY <1>6, KnownStates DEF M!MatchOf, M!Present, M!_node_matches_juju_machine
  <2>2. PICK k \in M!Ids("machines") : /\ k <= id /\ M!Machine("machines", k).host = h
                                       /\ M!Machine("machines", k).sys = machineRows[h].sys
    BY <1>3, <1>5, <2>1
  <2>3. M!Machine("machines", k).sys <= M!Machine("machines", id).sys
    BY <1>6, <1>i, <2>2 DEF LaterInv
  <2>4. h \in M!Hosts /\ h \in Workers /\ machineRows[h].sys = maas[h] /\ maas[h] \in Nat
    BY <1>2, <1>5, <1>m, MachinesAssumption
  <2>5. M!Machine("machines", id).sys \in Systems
    BY <1>i, <1>m, MachineOf
  <2>6. M!Machine("machines", id).sys <= maas[h]
    <3>1. Uses(M!Machine("machines", id).sys, h)
      BY <1>6, <1>m DEF Uses
    <3> QED
      BY <1>i, <2>4, <2>5, <3>1 DEF OwnInv
  <2>7. M!Machine("machines", id).sys \in Nat
    BY <2>5, MachinesAssumption
  <2> QED
    BY <2>2, <2>3, <2>4, <2>6, <2>7
<1> QED
  BY <1>1, <1>4, <1>5, <1>6

LEMMA PlacedStep ==
  ASSUME MachinesInv, [M!Next]_(M!vars)
  PROVE  PlacedInv'
<1> SUFFICES ASSUME machinePc' \in Deploying, NEW h \in Workers PROVE PlacedAt(h)'
  BY DEF PlacedInv
<1>m. "machines" \in M!Models /\ Workers \subseteq M!Hosts /\ h \in M!Hosts
  BY DEF M!Models, M!Hosts
<1>i. MachineTypes /\ CommandInv /\ IdsInv /\ OwnInv /\ CurrentInv /\ PlacedInv /\ StoreInv
      /\ sync \subseteq Workers
  BY DEF MachinesInv, MachineTypes
<1>p. machinePc \in Deploying => PlacedAt(h) /\ machineRows[h].sys = maas[h]
  BY <1>i, <1>m DEF PlacedInv, CurrentInv
\* The books stay.
<1>s. ASSUME UNCHANGED <<machineRows, juju>>
      PROVE  /\ HasMachine(h) => HasMachine(h)'
             /\ \A S : Found(h, S) => Found(h, S)'
             /\ OfItsSystem(h) => OfItsSystem(h)'
  BY <1>s DEF HasMachine, Found, OfItsSystem, M!Ids, M!Machine
<1>1. CASE M!Select
  <2>0. machinePc = "select" /\ machinePc' # "none"
    BY <1>1 DEF M!Select, Deploying
  <2>1. /\ UNCHANGED <<machineRows, juju, maas>> /\ machinePc' \in {"rest", "place"}
        /\ machinePc' = "rest" => todo' = {} /\ sync' = {}
        /\ h \notin todo' \cup sync' => HasMachine(h)
        /\ h \in sync' => machineRows[h].mid = -1 /\ Found(h, M!Known) /\ OfItsSystem(h)
    BY <1>1, <2>0, Selected DEF OfItsSystem
  <2>2. /\ HasMachine(h) => HasMachine(h)'
        /\ Found(h, M!Known) => Found(h, M!Known)'
        /\ OfItsSystem(h) => OfItsSystem(h)'
    BY <1>s, <2>1
  <2> QED
    BY <2>1, <2>2 DEF PlacedAt, Awaited
<1>2. CASE M!AddMachine
  <2>1. PICK g \in M!Batch : M!Placed("machines", g, machineRows[g].sys)
    BY <1>2 DEF M!AddMachine
  <2>2. /\ g \in todo /\ machinePc = "place" /\ machinePc' = "store"
        /\ UNCHANGED <<machineRows, todo, sync>>
    BY <1>2 DEF M!Batch, M!AddMachine
  <2>3. g \in M!Hosts /\ machineRows[g].sys \in Systems
    BY <1>i, <2>2, RowsTyped DEF MachineTypes, CurrentInv, Deploying
  <2>4. /\ Kept("machines") /\ M!Ids("machines")' = M!Ids("machines") \cup {Len(juju["machines"])}
        /\ \A id \in M!Ids("machines") : juju'["machines"][id + 1] = juju["machines"][id + 1]
        /\ juju'["machines"][Len(juju["machines"]) + 1] =
             [host |-> g, sys |-> machineRows[g].sys, st |-> "pending"]
    BY <1>i, <1>m, <2>1, <2>3, PlacedEffect
  <2>5. juju'["machines"][Len(juju["machines"]) + 1].st = "pending"
    BY <2>4
  <2>6. HasMachine(h) => HasMachine(h)'
    BY <1>i, <2>2, <2>4, HasStays
  <2>7. \A S : Found(h, S) => Found(h, S)'
    BY <2>4 DEF Found, M!Machine
  <2>8. OfItsSystem(h) => OfItsSystem(h)'
    <3> SUFFICES ASSUME OfItsSystem(h), NEW id \in M!Ids("machines")',
                        juju'["machines"][id + 1].host = h, juju'["machines"][id + 1].st \in M!Known
                 PROVE  juju'["machines"][id + 1].sys = machineRows[h].sys
      BY <2>2 DEF OfItsSystem, M!Machine
    <3>1. id \in M!Ids("machines")
      BY <2>4, <2>5, KnownStates
    <3> QED
      BY <2>4, <3>1 DEF OfItsSystem, M!Machine
  <2>9. PlacedAt(h) /\ machinePc \notin {"wait", "rest"} /\ machinePc' \notin {"wait", "rest"}
    BY <1>p, <2>2 DEF Deploying
  <2> QED
    BY <2>2, <2>6, <2>7, <2>8, <2>9 DEF PlacedAt, Awaited
<1>3. CASE M!StoreId
  <2>1. /\ machineRows' = [machineRows EXCEPT ![cmd.host].mid = Len(juju["machines"]) - 1]
        /\ juju' = juju /\ sync' = sync /\ machinePc = "store" /\ machinePc' \in {"place", "sync"}
        /\ todo' = todo \ {cmd.host}
    BY <1>3 DEF M!StoreId
  <2>2. cmd.host \in Workers /\ cmd.host \in M!Hosts
    BY <1>i, <1>m, <2>1 DEF CommandInv, Deploying
  <2>3. PICK k \in M!Ids("machines") : /\ k = Len(juju["machines"]) - 1
          /\ M!Machine("machines", k).sys = machineRows[cmd.host].sys
    BY <1>i, <2>1 DEF StoreInv
  <2>4. k \in Nat
    BY <1>i, <1>m, MachineOf
  <2>5. /\ machineRows'[cmd.host].mid = k /\ machineRows'[cmd.host].sys = machineRows[cmd.host].sys
        /\ \A g \in M!Hosts : g # cmd.host => machineRows'[g] = machineRows[g]
    BY <1>i, <2>1, <2>2, <2>3, RowsTyped DEF MachineTypes, M!Row
  <2>6. /\ \A S : Found(h, S) => Found(h, S)'
        /\ M!Ids("machines")' = M!Ids("machines")
    BY <2>1 DEF Found, M!Ids, M!Machine
  <2>7. machineRows'[h].sys = machineRows[h].sys
    BY <1>m, <2>5
  <2>8. OfItsSystem(h) => OfItsSystem(h)'
    BY <2>1, <2>6, <2>7 DEF OfItsSystem, M!Machine
  <2>9. PlacedAt(h) /\ machinePc \notin {"wait", "rest"} /\ machinePc' \notin {"wait", "rest"}
    BY <1>p, <2>1 DEF Deploying
  <2>10. CASE h = cmd.host
    <3>1. juju'["machines"][k + 1].sys = machineRows'[h].sys
      BY <2>1, <2>3, <2>5, <2>10 DEF M!Machine
    <3>2. machineRows'[h].mid = k /\ k # -1
      BY <2>4, <2>5, <2>10
    <3>3. HasMachine(h)'
      BY <3>1, <3>2 DEF HasMachine, M!Machine
    <3> QED
      BY <2>1, <2>8, <2>9, <3>2, <3>3 DEF PlacedAt
  <2>11. CASE h # cmd.host
    <3>1. machineRows'[h] = machineRows[h]
      BY <1>m, <2>5, <2>11
    <3>2. HasMachine(h) => HasMachine(h)'
      BY <2>1, <3>1 DEF HasMachine, M!Machine
    <3> QED
      BY <2>1, <2>6, <2>8, <2>9, <2>11, <3>1, <3>2 DEF PlacedAt, Awaited
  <2> QED
    BY <2>10, <2>11
<1>4. CASE M!NothingToPlace
  <2>1. machinePc = "place" /\ machinePc' = "sync" /\ UNCHANGED <<machineRows, juju, todo, sync>>
    BY <1>4 DEF M!NothingToPlace, M!Went
  <2>2. /\ PlacedAt(h)
        /\ HasMachine(h) => HasMachine(h)'
        /\ \A S : Found(h, S) => Found(h, S)'
        /\ OfItsSystem(h) => OfItsSystem(h)'
    BY <1>p, <1>s, <2>1 DEF Deploying
  <2> QED
    BY <2>1, <2>2 DEF PlacedAt, Awaited
<1>5. CASE M!_sync_updated_node_machine_ids
  <2>1. machinePc = "sync" /\ machinePc' = "wait" /\ UNCHANGED <<juju, todo, sync>>
    BY <1>5 DEF M!_sync_updated_node_machine_ids, M!Went
  <2>2. machinePc \in Deploying
    BY <2>1 DEF Deploying
  <2>3. PlacedAt(h) /\ machineRows[h].sys = maas[h]
    BY <1>p, <2>2
  <2>4. /\ \A S : Found(h, S) => Found(h, S)'
        /\ M!Ids("machines")' = M!Ids("machines")
    BY <2>1 DEF Found, M!Ids, M!Machine
  <2>5. CASE ~(h \in sync /\ M!MatchOf(h, "machines") # {})
    <3>1. machineRows'[h] = machineRows[h]
      BY <1>5, <1>m, <2>5 DEF M!_sync_updated_node_machine_ids
    <3>2. HasMachine(h) => HasMachine(h)'
      BY <2>1, <3>1 DEF HasMachine, M!Machine
    <3>3. OfItsSystem(h) => OfItsSystem(h)'
      BY <2>1, <2>4, <3>1 DEF OfItsSystem, M!Machine
    <3>4. h \in sync /\ machineRows[h].mid = -1 => Found(h, {"gone"})
      <4> SUFFICES ASSUME h \in sync, Found(h, M!Known) PROVE FALSE
        BY <2>1, <2>3 DEF PlacedAt, Awaited
      <4>1. PICK id \in M!Ids("machines") :
              M!Machine("machines", id).host = h /\ M!Machine("machines", id).st \in M!Known
        BY DEF Found
      <4>2. id \in M!MatchOf(h, "machines")
        BY <4>1, KnownStates DEF M!MatchOf, M!Present, M!_node_matches_juju_machine
      <4> QED
        BY <2>5, <4>2
    <3> QED
      BY <2>1, <2>3, <2>4, <3>1, <3>2, <3>3, <3>4 DEF PlacedAt, Awaited
  <2>6. CASE h \in sync /\ M!MatchOf(h, "machines") # {}
    <3>1. PICK k : /\ k = M!Min(M!MatchOf(h, "machines")) /\ k \in M!Ids("machines") /\ k \in Nat
                   /\ M!Machine("machines", k).host = h /\ M!Machine("machines", k).st \in M!Known
      BY <1>i, <1>m, <2>3, <2>6, LeastMatch
    <3>2. machineRows'[h] = [machineRows[h] EXCEPT !.mid = k]
      BY <1>5, <1>m, <2>6, <3>1 DEF M!_sync_updated_node_machine_ids
    <3>3. machineRows'[h].mid = k /\ machineRows'[h].sys = machineRows[h].sys
      BY <1>i, <1>m, <3>2, RowsTyped DEF M!Row
    <3>4. OfItsSystem(h)
      BY <2>3, <2>6 DEF PlacedAt
    <3>5. juju'["machines"][k + 1].sys = machineRows'[h].sys /\ k # -1
      BY <2>1, <3>1, <3>3, <3>4 DEF OfItsSystem, M!Machine
    <3>6. HasMachine(h)'
      BY <3>3, <3>5 DEF HasMachine, M!Machine
    <3>7. OfItsSystem(h)'
      BY <2>1, <2>4, <3>3, <3>4 DEF OfItsSystem, M!Machine
    <3> QED
      BY <3>3, <3>5, <3>6, <3>7 DEF PlacedAt
  <2> QED
    BY <2>5, <2>6
<1>6. CASE M!WaitDone
  <2>1. machinePc = "wait" /\ machinePc' \in {"rest", "place"} /\ UNCHANGED <<machineRows, juju, todo, sync>>
    BY <1>6 DEF M!WaitDone, M!Went
  <2>2. /\ PlacedAt(h)
        /\ HasMachine(h) => HasMachine(h)'
        /\ \A S : Found(h, S) => Found(h, S)'
        /\ OfItsSystem(h) => OfItsSystem(h)'
    BY <1>p, <1>s, <2>1 DEF Deploying
  <2> QED
    BY <2>1, <2>2 DEF PlacedAt, Awaited
<1>7. CASE M!World
  <2>1. UNCHANGED <<maas, machineRows, cmd, machinePc, todo, sync>>
    BY <1>7, <1>i, WorldEffect
  <2>2. Kept("machines") /\ M!Ids("machines")' = M!Ids("machines")
    BY <1>7, <1>i, <1>m, WorldEffect
  <2>3. \A id \in M!Ids("machines") :
              /\ M!Machine("machines", id).st \in M!Known \cup {"gone"}
                   => M!Machine("machines", id).st' \in M!Known \cup {"gone"}
              /\ M!Machine("machines", id).st = "gone" => M!Machine("machines", id).st' = "gone"
              /\ M!Machine("machines", id).st \notin M!Known /\ M!Machine("machines", id).st' \in M!Known
                   => maas[M!Machine("machines", id).host] = M!Machine("machines", id).sys
    BY <1>7, <1>i, <1>m, WorldEffect
  <2>4. PlacedAt(h) /\ machineRows[h].sys = maas[h]
    BY <1>p, <2>1
  <2>5. HasMachine(h) => HasMachine(h)'
    BY <1>i, <2>1, <2>2, HasStays
  <2>6. Found(h, {"gone"}) => Found(h, {"gone"})'
    <3> SUFFICES ASSUME Found(h, {"gone"}) PROVE Found(h, {"gone"})'
      OBVIOUS
    <3>1. PICK id \in M!Ids("machines") : M!Machine("machines", id).host = h /\ M!Machine("machines", id).st = "gone"
      BY DEF Found
    <3>2. M!Machine("machines", id).st' = "gone" /\ M!Machine("machines", id).host' = h /\ id \in M!Ids("machines")'
      BY <2>2, <2>3, <3>1 DEF Kept
    <3> QED
      BY <3>2 DEF Found
  <2>7. Found(h, M!Known) => Found(h, M!Known)' \/ Found(h, {"gone"})'
    <3> SUFFICES ASSUME Found(h, M!Known) PROVE Found(h, M!Known)' \/ Found(h, {"gone"})'
      OBVIOUS
    <3>1. PICK id \in M!Ids("machines") : M!Machine("machines", id).host = h /\ M!Machine("machines", id).st \in M!Known
      BY DEF Found
    <3>2. /\ M!Machine("machines", id).st' \in M!Known \cup {"gone"}
          /\ M!Machine("machines", id).host' = h /\ id \in M!Ids("machines")'
      BY <2>2, <2>3, <3>1 DEF Kept
    <3> QED
      BY <3>2 DEF Found
  <2>8. OfItsSystem(h) => OfItsSystem(h)'
    <3> SUFFICES ASSUME OfItsSystem(h), NEW id \in M!Ids("machines"),
                        M!Machine("machines", id).host' = h, M!Machine("machines", id).st' \in M!Known
                 PROVE  M!Machine("machines", id).sys' = machineRows[h].sys
      BY <2>1, <2>2 DEF OfItsSystem
    <3>1. M!Machine("machines", id).host = h /\ M!Machine("machines", id).sys' = M!Machine("machines", id).sys
      BY <2>2 DEF Kept
    <3>2. CASE M!Machine("machines", id).st \in M!Known
      BY <3>1, <3>2 DEF OfItsSystem
    <3>3. CASE M!Machine("machines", id).st \notin M!Known
      BY <2>3, <2>4, <3>1, <3>3
    <3> QED
      BY <3>2, <3>3
  <2>9. machineRows'[h] = machineRows[h] /\ todo' = todo /\ sync' = sync /\ machinePc' = machinePc
    BY <2>1
  <2> QED
    BY <2>4, <2>5, <2>6, <2>7, <2>8, <2>9 DEF PlacedAt, Awaited
<1>8. CASE UNCHANGED M!vars
  <2>1. UNCHANGED <<machineRows, juju, machinePc, todo, sync>>
    BY <1>8 DEF M!vars
  <2>2. /\ PlacedAt(h)
        /\ HasMachine(h) => HasMachine(h)'
        /\ \A S : Found(h, S) => Found(h, S)'
        /\ OfItsSystem(h) => OfItsSystem(h)'
    BY <1>p, <1>s, <2>1
  <2> QED
    BY <2>1, <2>2 DEF PlacedAt, Awaited
<1>9. M!PlaceInfra \/ M!WriteRow \/ M!UpdateInfraIds \/ M!RemoveJujuMachine
      \/ M!RemoveMachineFromClusterd => FALSE
  BY DEF M!PlaceInfra, M!WriteRow, M!UpdateInfraIds, M!RemoveJujuMachine, M!RemoveMachineFromClusterd,
     M!Went, M!End, Deploying
<1>10. ~ \E g \in Workers : M!Replace(g)
  <2>1. (\E g \in Workers : M!Replace(g)) => cmd.kind = "none" /\ machinePc' = machinePc
    BY DEF M!Replace, M!NoCmd
  <2> QED
    BY <1>i, <2>1 DEF CommandInv, Deploying
<1>11. Plans => M!Select \/ M!NothingToPlace \/ M!WaitDone
  BY DEF Plans, M!Bootstrap, M!Deploy, M!SelectInfra, M!InfraReady, M!InfraUp, M!SelectRows,
     M!Rest, M!Timeout, M!Killed, M!RemoveNode, M!Went, M!End, Deploying
<1> QED
  BY <1>1, <1>2, <1>3, <1>4, <1>5, <1>6, <1>7, <1>8, <1>9, <1>10, <1>11, MachineSteps

LEMMA RestStep ==
  ASSUME MachinesInv, [M!Next]_(M!vars)
  PROVE  RestInv'
<1> SUFFICES ASSUME machinePc' = "rest" PROVE RestInv'
  BY DEF RestInv
<1>m. "machines" \in M!Models /\ Workers \subseteq M!Hosts
  BY DEF M!Models, M!Hosts
<1>i. MachineTypes /\ CommandInv /\ IdsInv /\ PlacedInv /\ RestInv
  BY DEF MachinesInv
<1>1. CASE M!Select
  <2>0. machinePc = "select" /\ machinePc' # "none"
    BY <1>1 DEF M!Select
  <2>1. /\ UNCHANGED <<machineRows, juju>> /\ todo' = {} /\ sync' = {}
        /\ \A h \in Workers : M!Machine("machines", machineRows[h].mid).st \in M!Known
    BY <1>1, <2>0, Selected
  <2> QED
    BY <2>1 DEF RestInv, M!Machine
<1>2. CASE M!WaitDone
  <2>1. /\ machinePc = "wait" /\ M!AllDeployed("machines") /\ todo = {}
        /\ UNCHANGED <<machineRows, juju, todo>>
    BY <1>2 DEF M!WaitDone, M!Went
  <2>2. ASSUME NEW h \in Workers, machineRows[h].mid # -1
        PROVE  M!Machine("machines", machineRows[h].mid).st \in M!Known \cup {"gone"}
    <3>1. machineRows[h].mid \in M!Ids("machines")
      BY <1>i, <2>2 DEF IdsInv
    <3> QED
      BY <2>1, <3>1 DEF M!AllDeployed, M!Present, M!Known
  <2> QED
    BY <2>1, <2>2 DEF RestInv, M!Machine
<1>3. CASE M!World
  <2>1. UNCHANGED <<machineRows, machinePc, todo>>
    BY <1>3, <1>i, WorldEffect
  <2>2. ASSUME NEW h \in Workers, machineRows[h].mid # -1
        PROVE  juju'["machines"][machineRows[h].mid + 1].st \in M!Known \cup {"gone"}
    <3>1. PICK id \in M!Ids("machines") : id = machineRows[h].mid
      BY <1>i, <2>2 DEF IdsInv
    <3>2. M!Machine("machines", id).st \in M!Known \cup {"gone"}
      BY <1>i, <2>1, <2>2, <3>1 DEF RestInv
    <3>3. M!Machine("machines", id).st' \in M!Known \cup {"gone"}
      BY <1>3, <1>i, <1>m, <3>2, WorldEffect
    <3> QED
      BY <3>1, <3>3 DEF M!Machine
  <2> QED
    BY <1>i, <2>1, <2>2 DEF RestInv, M!Machine
<1>4. CASE UNCHANGED M!vars
  BY <1>4, <1>i DEF M!vars, RestInv, M!Machine
<1>5. ~M!PlaceInfra /\ ~M!WriteRow /\ ~M!UpdateInfraIds /\ ~M!RemoveJujuMachine /\ ~M!AddMachine
      /\ ~M!StoreId /\ ~M!RemoveMachineFromClusterd /\ ~M!_sync_updated_node_machine_ids
  BY DEF M!PlaceInfra, M!WriteRow, M!UpdateInfraIds, M!RemoveJujuMachine, M!RemoveMachineFromClusterd,
     M!AddMachine, M!StoreId, M!_sync_updated_node_machine_ids, M!Went, M!End
<1>6. ~ \E h \in Workers : M!Replace(h)
  <2>1. (\E h \in Workers : M!Replace(h)) => cmd.kind = "none" /\ machinePc' = machinePc
    BY DEF M!Replace, M!NoCmd
  <2> QED
    BY <1>i, <2>1 DEF CommandInv
<1>7. Plans => M!Select \/ M!WaitDone
  BY DEF Plans, M!Bootstrap, M!Deploy, M!SelectInfra, M!InfraReady, M!InfraUp, M!SelectRows,
     M!NothingToPlace, M!Rest, M!Timeout, M!Killed, M!RemoveNode, M!Went, M!End
<1> QED
  BY <1>1, <1>2, <1>3, <1>4, <1>5, <1>6, <1>7, MachineSteps

LEMMA MachinesStep ==
  ASSUME MachinesInv, [M!Next]_(M!vars)
  PROVE  MachinesInv'
BY MachineTypesStep, CommandStep, IdsStep, OwnStep, LaterStep, CurrentStep, PlacedStep, StoreStep, RestStep
   DEF MachinesInv

----------------------------------------------------------------------------
(* What deploy decides                                                     *)

\* It goes on to the applications with the right ids.
LEMMA RestIsRight ==
  ASSUME MachinesInv, machinePc = "rest", NEW h \in Workers
  PROVE  \/ machineRows[h].mid = -1 /\ Found(h, {"gone"})
         \/ LET x == M!Machine("machines", machineRows[h].mid)
            IN  x.host = h /\ x.sys = machineRows[h].sys /\ x.st \in M!Known \cup {"gone"}
<1>1. CASE machineRows[h].mid = -1
  <2>1. h \in sync /\ machinePc \in Deploying
    BY <1>1 DEF MachinesInv, PlacedInv, PlacedAt, HasMachine, RestInv, Deploying
  <2> QED
    BY <1>1, <2>1 DEF MachinesInv, PlacedInv, PlacedAt, Awaited
<1>2. CASE machineRows[h].mid # -1
  <2>1. HasMachine(h)
    BY <1>2 DEF MachinesInv, PlacedInv, PlacedAt, RestInv, Deploying
  <2> QED
    BY <1>2, <2>1 DEF MachinesInv, IdsInv, RestInv, HasMachine
<1> QED
  BY <1>1, <1>2

\* It refuses a host whose system was replaced, or that has a second machine.
LEMMA RefusalIsRight ==
  ASSUME MachinesInv, machinePc = "select", NEW h \in M!Rows \cap Workers, M!Mismatch(h)
  PROVE  \E a \in M!Ids("machines") :
           /\ M!Machine("machines", a).host = h
           /\ \/ M!Machine("machines", a).sys # machineRows[h].sys
              \/ \E b \in M!Ids("machines") \ {a} : M!Machine("machines", b).host = h
<1>1. h \in M!Hosts /\ machineRows[h].sys = maas[h] /\ MachineTypes /\ OwnInv
  BY DEF MachinesInv, CurrentInv, M!Hosts
<1>2. M!MatchOf(h, "machines") # {}
  BY DEF M!Mismatch
<1>3. PICK id \in M!Ids("machines") :
        id = M!Min(M!MatchOf(h, "machines")) /\ M!Machine("machines", id).host = h
  BY <1>1, <1>2, LeastMatch
<1>4. CASE M!Machine("machines", id).sys # machineRows[h].sys
  BY <1>3, <1>4
<1>5. CASE machineRows[h].mid \notin {-1, id}
  <2>1. machineRows[h].mid \in M!Ids("machines")
        /\ M!Machine("machines", machineRows[h].mid).host = h
    BY <1>5 DEF MachinesInv, IdsInv
  <2> QED
    BY <1>3, <1>5, <2>1
<1> QED
  BY <1>3, <1>4, <1>5 DEF M!Mismatch

\* Every decision of deploy is one of the two.
LEMMA DecisionsAreRight ==
  ASSUME MachinesInv, [M!Next]_(M!vars)
  PROVE  M!GoesOnRight /\ M!RefusesRight
<1>1. M!GoesOnRight
  <2> SUFFICES ASSUME machinePc = "rest", NEW h \in M!Rows \cap Workers
               PROVE  \/ machineRows[h].mid = -1 /\ Found(h, {"gone"})
                      \/ LET x == M!Machine("machines", machineRows[h].mid)
                         IN  x.host = h /\ x.sys = machineRows[h].sys /\ x.st \in M!Known \cup {"gone"}
    BY DEF M!GoesOnRight, Found
  <2> QED
    BY RestIsRight
<1>2. M!RefusesRight
  <2> SUFFICES ASSUME machinePc = "select", machinePc' = "none", machineFaults' = machineFaults, M!Rows # {}
               PROVE  \E h \in Workers, a \in M!Ids("machines") :
                        /\ M!Machine("machines", a).host = h
                        /\ \/ M!Machine("machines", a).sys # machineRows[h].sys
                           \/ \E b \in M!Ids("machines") \ {a} : M!Machine("machines", b).host = h
    BY DEF M!RefusesRight
  <2>1. machineFaults \in Nat /\ cmd.kind # "none"
    BY DEF MachinesInv, MachineTypes, CommandInv
  <2>2. M!Select
    <3>1. Plans => M!Select
      BY <2>1 DEF Plans, M!Bootstrap, M!Deploy, M!SelectInfra, M!InfraReady, M!InfraUp, M!SelectRows,
         M!NothingToPlace, M!WaitDone, M!Rest, M!Timeout, M!Killed, M!Fault, M!RemoveNode
    <3>2. ~M!PlaceInfra /\ ~M!WriteRow /\ ~M!UpdateInfraIds /\ ~M!RemoveJujuMachine /\ ~M!AddMachine
          /\ ~M!StoreId /\ ~M!RemoveMachineFromClusterd /\ ~M!_sync_updated_node_machine_ids
      BY DEF M!PlaceInfra, M!WriteRow, M!UpdateInfraIds, M!RemoveJujuMachine, M!RemoveMachineFromClusterd,
         M!AddMachine, M!StoreId, M!_sync_updated_node_machine_ids
    <3>3. M!World => machinePc' = machinePc
      BY WorldEffect DEF MachinesInv
    <3>4. (\E h \in Workers : M!Replace(h)) \/ UNCHANGED M!vars => machinePc' = machinePc
      BY DEF M!Replace, M!vars
    <3> QED
      BY <3>1, <3>2, <3>3, <3>4, MachineSteps
  <2>3. PICK h \in M!Rows \cap Workers : M!Mismatch(h)
    BY <2>2 DEF M!Select, M!Went
  <2> QED
    BY <2>3, RefusalIsRight
<1> QED
  BY <1>1, <1>2

LEMMA MachinesTyped == ASSUME MachinesInv PROVE M!TypeOK
<1>1. maas \in [M!Hosts -> Systems] /\ machineRows \in [M!Hosts -> M!Row] /\ MachineTypes
  BY DEF MachinesInv, MachineTypes
<1>2. \A h \in M!Hosts :
        machineRows[h].mid \in {-1} \cup M!Ids(IF h \in Infra THEN "infra" ELSE "machines")
  BY DEF MachinesInv, IdsInv, M!Hosts
<1>3. \A m \in M!Models : \A id \in M!Ids(m) :
        /\ M!Machine(m, id).host \in M!Hosts /\ M!Machine(m, id).sys \in Systems
        /\ M!Machine(m, id).st \in M!Known \cup {"pending", "error", "gone"}
  BY <1>1, MachineOf DEF MachineStates
<1>4. (machinePc = "none") = (cmd = M!NoCmd) /\ (machinePc = "none" => todo = {} /\ sync = {})
  <2>1. cmd = M!NoCmd => cmd.kind = "none"
    BY DEF M!NoCmd
  <2> QED
    BY <2>1 DEF MachinesInv, CommandInv
<1> QED
  BY <1>1, <1>2, <1>3, <1>4 DEF M!TypeOK

----------------------------------------------------------------------------
(* The site, or its machines                                               *)

PartsInv == MachinesInv /\ TypeInv

LEMMA PartsInit == PartInit => PartsInv
BY MachinesInit, TypeInit DEF PartInit, PartsInv

LEMMA PartsStep == PartsInv /\ [PartNext]_<<part, machineVars, vars>> => PartsInv' /\ [M!Next]_(M!vars)
<1> SUFFICES ASSUME PartsInv, [PartNext]_<<part, machineVars, vars>> PROVE PartsInv' /\ [M!Next]_(M!vars)
  OBVIOUS
<1>1. [M!Next]_(M!vars)
  BY DEF PartNext, machineVars, M!vars
<1>2. [Next]_vars
  BY DEF PartNext
<1> QED
  BY <1>1, <1>2, MachinesStep, TypeStep DEF PartsInv

\* The machines, the node rows and the models of Juju, and the site, always have values
\* of their types; the id in a row is that of a machine that was added to its model.
THEOREM PartsHaveTheirTypes == PartSpec => []PartTypeOK
<1>1. PartsInv => PartTypeOK
  BY MachinesTyped, TypesHold DEF PartsInv, PartTypeOK
<1> QED
  BY <1>1, PartsInit, PartsStep, PTL DEF PartSpec

\* Whenever deploy goes on to the applications, the id in every row is that of a machine
\* of this host and of its system; and it refuses a host only for a system that was
\* replaced or a second machine (MaasDeployMachinesStep, after kills and removals).
THEOREM DeployedIsRight == PartSpec => DeployedRight
<1>1. PartsInv /\ [PartNext]_<<part, machineVars, vars>> => [M!GoesOnRight /\ M!RefusesRight]_(M!vars)
  BY PartsStep, DecisionsAreRight DEF PartsInv
<1> QED
  BY <1>1, PartsInit, PartsStep, PTL DEF PartSpec, DeployedRight, M!DeployedRight

=============================================================================
