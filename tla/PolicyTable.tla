----------------------------- MODULE PolicyTable ----------------------------
(***************************************************************************)
(* What the table content_policy promises to those who read it: rows are   *)
(* added and later marked superseded, each in one step, by the rows that   *)
(* replace them.  PolicyStore, the pushes statement by statement,          *)
(* implements this module; ContentRoute, a request that reads the policies *)
(* in force at each of its awaits, runs beside it.                         *)
(***************************************************************************)
EXTENDS Integers

CONSTANTS
    Rows,         \* the policies that may be pushed
    RuleOf,       \* rule_id of a row
    VersionOf     \* its version

VARIABLES stored, superseded

policyVars == <<stored, superseded>>

-----------------------------------------------------------------------------
(* latestPolicy(): the rows not marked superseded; in no order. *)
InForce == stored \ superseded

Newer(p, o) == RuleOf[p] = RuleOf[o] /\ VersionOf[p] > VersionOf[o]

Init == stored = {} /\ superseded = {}

(* One INSERT; the unique index on (rule_id, version) must let it pass.    *)
Push(p) ==
    /\ p \in Rows \ stored
    /\ \A o \in stored : RuleOf[o] = RuleOf[p] => VersionOf[o] # VersionOf[p]
    /\ stored' = stored \cup {p}
    /\ UNCHANGED superseded

(* One UPDATE after the INSERT of p, which may come late or never.         *)
Retire(p) ==
    LET older == {o \in InForce : Newer(p, o)}
    IN  /\ p \in stored /\ older # {}
        /\ superseded' = superseded \cup older
        /\ UNCHANGED stored

Next == \E p \in Rows : Push(p) \/ Retire(p)

Spec == Init /\ [][Next]_policyVars

-----------------------------------------------------------------------------
(* Only a newer version of its rule ever puts a row out of force.          *)
Replaced ==
    /\ stored \subseteq Rows /\ superseded \subseteq stored
    /\ \A o \in superseded : \E p \in stored : Newer(p, o)
=============================================================================
