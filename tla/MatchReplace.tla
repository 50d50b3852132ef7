----------------------------- MODULE MatchReplace -----------------------------
(***************************************************************************)
(* packages/integrations/intercept-gateway/src/match-replace.ts: what an   *)
(* operator's rules make of a captured action before it is judged.         *)
(*                                                                         *)
(* A rule is [enabled, field, path, matching, replace, textual]: matching  *)
(* is the set of the values it matches (one for a literal, the texts that  *)
(* fit for a wildcard), textual says whether its replacement is a string.  *)
(* The rules are stored as they were posted; the first to look at them is  *)
(* the action that meets them.  A rule posted without a match matches what *)
(* is not there, one without a replacement writes Undefined, and one with  *)
(* an unknown field is a rule on the arguments.                            *)
(*                                                                         *)
(* The paths of args are those of its values: an object is the paths below *)
(* it, unless it is empty.  A rule's path has one key at least.            *)
(***************************************************************************)
EXTENDS PolicyEngine, Sequences

CONSTANTS
    Above,      \* for each path, the paths of the objects that it runs through
    Undefined   \* the value of an argument that is not there

ASSUME AboveAssumption ==
    \A path \in DOMAIN Above :
        /\ path \notin Above[path]
        /\ \A p \in Above[path] : p \in DOMAIN Above /\ Above[p] \subseteq Above[path]

NamedFields == {"tool", "action", "target"}

\* The contract of an action has no empty name.
Replaceable(r) == r.textual /\ r.replace # ""

ReadPath(args, path) == IF path \in DOMAIN args THEN args[path] ELSE Undefined

(* An object matches nothing.                                              *)
ArgumentMatches(args, r) ==
    /\ ReadPath(args, r.path) \in r.matching
    /\ ~\E p \in DOMAIN args : r.path \in Above[p]

(* What stands in the way of the path gives way to an object.              *)
WritePath(args, path, value) ==
    [p \in (DOMAIN args \ Above[path]) \cup {path} |-> IF p = path THEN value ELSE args[p]]

(* One rule on one action: the action it becomes, or nothing when the code *)
(* throws.                                                                 *)
ApplyRule(a, r) ==
    CASE ~r.enabled -> {a}
      [] r.enabled /\ r.field \in NamedFields ->
            IF a[r.field] = None \/ a[r.field] \notin r.matching THEN {a}
            ELSE {b \in {[a EXCEPT ![r.field] = r.replace]} : Replaceable(r)}
      [] r.enabled /\ r.field \notin NamedFields ->
            IF r.path = None THEN {}
            ELSE IF ArgumentMatches(a.args, r)
                 THEN {[a EXCEPT !.args = WritePath(a.args, r.path, r.replace)]}
                 ELSE {a}

(* The rules in their order, each on what the ones before it left.         *)
Rewritten(a, rules) ==
    LET after[n \in 0..Len(rules)] ==
            IF n = 0 THEN {a} ELSE UNION {ApplyRule(b, rules[n]) : b \in after[n - 1]}
    IN  after[Len(rules)]
===============================================================================
