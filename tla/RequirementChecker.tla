-------------------------- MODULE RequirementChecker --------------------------
(***************************************************************************)
(* Grading a subject (an agent's report, or an action about to run)        *)
(* against the requirements of its operator.  A text is the set of its     *)
(* words; which different words count as one (a shared five-letter prefix, *)
(* a four-letter word that starts the other) is the relation Alike.        *)
(***************************************************************************)
EXTENDS Selection, Integers, FiniteSets

CONSTANTS Alike,        \* pairs of different words with a common stem
          NameWords     \* the words of each surface, owner role, action and target name

ASSUME AlikeAssumption == \A pair \in Alike : <<pair[2], pair[1]>> \in Alike

StopWords ==
    {"the", "a", "an", "of", "to", "in", "on", "and", "or", "for", "be", "is", "are", "at", "by", "with",
     "within", "shall", "this", "that", "its", "their", "any", "as", "from", "into", "only", "not", "no",
     "all", "must", "each", "per", "every", "will", "should", "may", "remain", "remains"}

Tokens(words) == words \ StopWords

TokensMatch(a, b) == a = b \/ <<a, b>> \in Alike

NamesTokens(names) == UNION {Tokens(NameWords[n]) : n \in names}

\* Every salient word of a dropped or overridden phrase is grounded in the requirement.
References(phrase, r) ==
    LET grounds == Tokens(r.text) \cup NamesTokens(r.scope \cup {r.ownerRole})
    IN  /\ Tokens(phrase) # {}
        /\ \A p \in Tokens(phrase) : \E g \in grounds : TokensMatch(p, g)

\* The text speaks of at least three fifths of the words of the requirement.
Addresses(words, r) ==
    LET statement == Tokens(r.text)
        present == {s \in statement : \E t \in Tokens(words) : TokensMatch(s, t)}
    IN  statement # {} /\ Tokens(words) # {} /\ 5 * Cardinality(present) >= 3 * Cardinality(statement)

OwnerSurfaceTokens == {"owner", "owners", "ownership", "workstream", "workstreams"}

RequiresOwner(r) ==
    \E t \in NamesTokens(r.scope), o \in OwnerSurfaceTokens : TokensMatch(t, o)

OwnerEvidenced(r, subject) ==
    \/ r.ownerRole \in subject.owners
    \/ /\ Tokens(NameWords[r.ownerRole]) # {}
       /\ \A n \in Tokens(NameWords[r.ownerRole]) : \E t \in Tokens(subject.words) : TokensMatch(n, t)

WholeDeal == "*"

InScope(r, subject) ==
    \/ subject.surfaces = {WholeDeal}
    \/ \E t \in NamesTokens(r.scope), u \in NamesTokens(subject.surfaces) : TokensMatch(t, u)

\* Precedence: an override, then a drop, then an owner nobody named, then evidence.
Classify(r, subject) ==
    LET silent == IF subject.claimsOnTrack THEN "unsupported_on_track_claim" ELSE "missing"
    IN  IF \E p \in subject.violated : References(p, r) THEN "contradicted"
        ELSE IF \E p \in subject.dropped : References(p, r) THEN silent
        ELSE IF RequiresOwner(r) /\ ~OwnerEvidenced(r, subject) THEN "missing_owner_or_workstream"
        ELSE IF Addresses(subject.words, r) THEN "satisfied"
        ELSE silent

\* A mistake: candidates nobody approved are graded too.
GradedInAnyStatus(r, subject) == InScope(r, subject)

Graded(r, subject) == r.status = "active" /\ InScope(r, subject)

\* A finding opens a case exactly when a hard requirement is not satisfied.
Finding(r, subject) ==
    [requirementId |-> r.id, status |-> Classify(r, subject),
     caseOpening |-> r.severity = "hard" /\ Classify(r, subject) # "satisfied"]

\* One finding per graded requirement, in the order given; the others are skipped.
Findings(requirements, subject) ==
    LET graded == Selected(requirements, {k \in DOMAIN requirements : Graded(requirements[k], subject)})
    IN  [n \in DOMAIN graded |-> Finding(graded[n], subject)]

CaseOpeningFindings(requirements, subject) ==
    LET findings == Findings(requirements, subject)
    IN  Selected(findings, {n \in DOMAIN findings : findings[n].caseOpening})

\* A status report speaks for the whole deal and names no owner.
AgentOutputSubject(output) ==
    [surfaces |-> {WholeDeal}, claimsOnTrack |-> output.reportedStatus = "on-track",
     dropped |-> output.droppedRequirements, violated |-> {}, owners |-> {},
     words |-> output.summary \cup output.artifacts]

\* The surfaces of actions named otherwise; an action named for its surface needs no entry.
SurfaceByAction ==
    [a \in {"customer-update", "status-update", "send-update", "send-status", "on-track-update"} |->
        {"customer-facing-status-update"}]

\* An action touches the surfaces its name and its target, when it has one, stand for.
InterceptedActionSubject(action) ==
    LET names == {action.action} \cup action.target
    IN  [surfaces |-> names \cup (IF action.action \in DOMAIN SurfaceByAction
                                  THEN SurfaceByAction[action.action] ELSE {}),
         claimsOnTrack |-> \/ action.args.status = "on-track"
                           \/ \E n \in names : {"on", "track"} \subseteq NameWords[n],
         dropped |-> action.args.drops, violated |-> action.args.overrides,
         owners |-> action.args.owners,
         words |-> UNION {NameWords[n] : n \in names \cup {action.tool}} \cup action.args.summary]
===============================================================================
