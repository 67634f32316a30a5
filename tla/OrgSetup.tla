------------------------------ MODULE OrgSetup ------------------------------
(***************************************************************************)
(* What is set up for a new organisation (CreateOrgWorkflow), and the      *)
(* registry of entity relationships it seeds, to which every sync adds.    *)
(* A statement is one step; the engine runs a failed or interrupted        *)
(* activity again from its beginning.                                      *)
(***************************************************************************)
EXTENDS Naturals, FiniteSets

CONSTANTS
  EntityTypes,      \* type tags
  SeededPairs,      \* the relationships of CreateOrgWorkflow: <<source, target>>
  SacramentTypes,   \* the default sacraments
  MaxSetupTries     \* bound: times the engine starts an activity of the setup

ASSUME SetupAssumption ==
  /\ SeededPairs \subseteq EntityTypes \X EntityTypes
  /\ MaxSetupTries \in Nat \ {0}

VARIABLES
  setup,       \* the step CreateOrgWorkflow is at
  tries,       \* starts of its current activity
  found,       \* currentSacraments: the types the select found
  sacraments,  \* table sacraments: rows of each type
  registry     \* table entityRelationships: targetEntityTypes of each type

setupVars == <<setup, tries, found, sacraments>>
SetupSteps == {"none", "select", "insert", "inserted", "relate", "related", "ready", "failed"}

SetupTypeOK ==
  /\ setup \in SetupSteps /\ tries \in 0 .. MaxSetupTries
  /\ found \subseteq SacramentTypes
  /\ sacraments \in [SacramentTypes -> Nat]
  /\ registry \in [EntityTypes -> SUBSET EntityTypes]

SetupInit ==
  /\ setup = "none" /\ tries = 0 /\ found = {}
  /\ sacraments = [t \in SacramentTypes |-> 0]
  /\ registry = [t \in EntityTypes |-> {}]

(* expandBidirectionalPairs, groupPairsBySource and the upsert of the      *)
(* grouped rows, which merges the targets of a row that exists.            *)
Expanded(pairs) == pairs \cup {<<p[2], p[1]>> : p \in pairs}
TargetsIn(pairs, t) == {u \in EntityTypes : <<t, u>> \in pairs}

(* Broken variant: the row's targets are replaced. *)
ReplacedTargets(t, pairs) ==
  IF TargetsIn(Expanded(pairs), t) = {} THEN registry[t] ELSE TargetsIn(Expanded(pairs), t)
MergedTargets(t, pairs) == registry[t] \cup TargetsIn(Expanded(pairs), t)

UpdateEntityRelationships(pairs) ==
  registry' = [t \in EntityTypes |-> MergedTargets(t, pairs)]

CreateOrg ==
  /\ setup = "none" /\ setup' = "select" /\ tries' = 1
  /\ UNCHANGED <<found, sacraments, registry>>

(* Broken variant: the rows the organisation has are not looked for. *)
NoSacraments == {}
CurrentSacraments == {t \in SacramentTypes : sacraments[t] > 0}

SelectSacraments ==
  /\ setup = "select" /\ setup' = "insert"
  /\ found' = CurrentSacraments
  /\ UNCHANGED <<tries, sacraments, registry>>

(* A row that was found conflicts on its id and is only updated. *)
InsertSacraments ==
  /\ setup = "insert" /\ setup' = "inserted"
  /\ sacraments' = [t \in SacramentTypes |-> IF t \in found THEN sacraments[t]
                                             ELSE sacraments[t] + 1]
  /\ UNCHANGED <<tries, found, registry>>

SeedRelationships ==
  /\ setup = "relate" /\ setup' = "related"
  /\ UpdateEntityRelationships(SeededPairs)
  /\ UNCHANGED <<tries, found, sacraments>>

(* The engine records the result of an activity. *)
RecordSetup ==
  /\ \/ setup = "inserted" /\ setup' = "relate" /\ tries' = 1
     \/ setup = "related" /\ setup' = "ready" /\ tries' = 0
  /\ found' = {}
  /\ UNCHANGED <<sacraments, registry>>

(* A statement fails or the runner stops. *)
SetupFails ==
  /\ setup \notin {"none", "ready", "failed"}
  /\ IF tries < MaxSetupTries
     THEN /\ setup' = IF setup \in {"relate", "related"} THEN "relate" ELSE "select"
          /\ tries' = tries + 1
     ELSE setup' = "failed" /\ tries' = 0
  /\ found' = {}
  /\ UNCHANGED <<sacraments, registry>>

SetupStep == SelectSacraments \/ InsertSacraments \/ SeedRelationships \/ RecordSetup
SetupNext == CreateOrg \/ SetupStep \/ SetupFails
SetupSpec == SetupInit /\ [][SetupNext]_<<setupVars, registry>>
-----------------------------------------------------------------------------
(* Properties *)

(* "Get all sacraments for the org ... the primaryKey is just the id":      *)
(* although nothing in the table forbids it, retries and replays leave an   *)
(* organisation with one sacrament of each type, never two.                 *)
OneSacramentPerType ==
  /\ \A t \in SacramentTypes : sacraments[t] <= 1
  /\ setup = "ready" => \A t \in SacramentTypes : sacraments[t] = 1
=============================================================================
