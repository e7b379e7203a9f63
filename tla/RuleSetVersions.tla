-------------------------- MODULE RuleSetVersions --------------------------
(***************************************************************************)
(* The versions of one organization's rule set (app/modules/rules/         *)
(* service.py and router.py): written once, numbered from one, one of them *)
(* in force.  What a definition says is module RulesEngine's.              *)
(***************************************************************************)
EXTENDS Requests

CONSTANT Definitions

VARIABLES
    created,    \* rule_sets has the organization's active row
    versions,   \* rule_set_versions: a set of [number, definition]
    inForce,    \* rule_sets.current_version_id, as a number; 0 when it is null
    asked       \* history: the version the last request that was answered asked for

ruleSet == <<created, versions, inForce, asked>>

VersionsTypeOK ==
    /\ created \in BOOLEAN
    /\ versions \subseteq [number : Nat \ {0}, definition : Definitions]
    /\ {inForce, asked} \subseteq {v.number : v \in versions} \cup {0}
    /\ versions # {} => created

VersionsInit == created = FALSE /\ versions = {} /\ inForce = 0 /\ asked = 0

Numbers == {v.number : v \in versions}

(* Fault: versions are counted in what was saved last. *)
NextNumberFromForce == inForce + 1

(* list_versions, newest first: one more than the first.                   *)
NextNumber == CHOOSE n \in 1..(Cardinality(versions) + 1) :
                  n \notin Numbers /\ \A v \in versions : v.number < n

(* get_or_create_rule_set: what it loaded, to be created when there is none. *)
LoadedSet == [exists |-> created, inForce |-> inForce]

Collides(loaded) == ~loaded.exists /\ created   \* one active set per organization

(* A GET of the rule set, or of its versions, creates it.                  *)
OpenRead(s, by) ==
    /\ ~created
    /\ Reads(s, [op |-> "open", loaded |-> LoadedSet])
    /\ UNCHANGED ruleSet

OpenWrite(s) ==
    /\ req[s].op = "open"
    /\ IF Collides(req[s].loaded) THEN Fails(s) ELSE Commits(s)
    /\ created' = TRUE
    /\ UNCHANGED <<versions, inForce, asked>>

(* save_version: the next number is read ... *)
SaveRead(s, by, definition) ==
    /\ Reads(s, [op |-> "save", definition |-> definition,
                 number |-> NextNumber, loaded |-> LoadedSet])
    /\ UNCHANGED ruleSet

(* ... and taken, unless it is by then: unique (rule_set, number). *)
SaveWrite(s) ==
    /\ req[s].op = "save"
    /\ IF Collides(req[s].loaded) \/ req[s].number \in Numbers
       THEN Fails(s) /\ UNCHANGED ruleSet
       ELSE /\ versions' = versions \cup
                   {[number |-> req[s].number, definition |-> req[s].definition]}
            /\ created' = TRUE
            /\ inForce' = req[s].number
            /\ asked' = req[s].number
            /\ Commits(s)

(* Fault: any number will do. *)
ActivateReadUnchecked(s, by, number) ==
    /\ Reads(s, [op |-> "activate", number |-> number, loaded |-> LoadedSet])
    /\ UNCHANGED ruleSet

(* activate_version, of one there is.                                      *)
ActivateRead(s, by, number) ==
    /\ number \in Numbers
    /\ Reads(s, [op |-> "activate", number |-> number, loaded |-> LoadedSet])
    /\ UNCHANGED ruleSet

(* Fault: the pointer moves to the newest version, whatever was asked for. *)
PointerToNewest(r) == Cardinality(versions)

(* No UPDATE when the pointer that was loaded is the one asked for. *)
Pointer(r) == Column(r.number, r.loaded.inForce, inForce)

ActivateWrite(s) ==
    /\ req[s].op = "activate"
    /\ inForce' = Pointer(req[s])
    /\ asked' = req[s].number
    /\ Commits(s)
    /\ UNCHANGED <<created, versions>>

-----------------------------------------------------------------------------
(* The rules in force are those the last answered save or roll-back asked  *)
(* for (rules/service.py:212-267).  The exception: a roll-back to the      *)
(* version it found in force writes nothing, and a save that commits       *)
(* before it stays in force.                                               *)
RulesAsAsked == inForce = asked \/ "activate" \in crossed

(* Versions are numbered from one without a gap, so the trail of rule sets *)
(* has no hole and a verdict's version is always there                     *)
(* (rules/service.py:221-252).                                             *)
VersionsAreDense == Numbers = 1..Cardinality(versions)
=============================================================================
