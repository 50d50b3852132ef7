----------------------------- MODULE EvalLibrary -----------------------------
(***************************************************************************)
(* packages/eval-library: the registry of archived eval cases.  It is a    *)
(* map from caseId@version that keeps the order of insertion: a sequence   *)
(* of entries [caseId, version, rule, case] no two of which share a key.   *)
(* The key is a text, which two pairs share when an id or a version holds  *)
(* an @ of its own.  A rule is the set of its fragments; a filter's        *)
(* optional fields are sets of at most one element.                        *)
(***************************************************************************)
EXTENDS Integers, FiniteSets, SequencesExt

CONSTANTS VersionRank,    \* the place of every version in the order of localeCompare
          KeyOf(_, _)     \* the text caseId@version

SameKey(entry, other) == KeyOf(entry.caseId, entry.version) = KeyOf(other.caseId, other.version)

\* Map.set: an entry of a known key takes the place of the old one.
Put(entries, entry) ==
    IF \E n \in DOMAIN entries : SameKey(entries[n], entry)
    THEN [n \in DOMAIN entries |-> IF SameKey(entries[n], entry) THEN entry ELSE entries[n]]
    ELSE Append(entries, entry)

Add(entries, caseId, version, rule, case) ==
    Put(entries, [caseId |-> caseId, version |-> version, rule |-> rule, case |-> case])

GetByIdAndVersion(entries, caseId, version) ==
    {e \in ToSet(entries) : KeyOf(e.caseId, e.version) = KeyOf(caseId, version)}

\* The latest version is the last in the order of its text.
GetByCaseId(entries, caseId) ==
    LET candidates == {e \in ToSet(entries) : e.caseId = caseId}
    IN  {e \in candidates : \A f \in candidates : VersionRank[f.version] <= VersionRank[e.version]}

\* Only the first of the fields given counts.
Query(entries, filter) ==
    SelectSeq(entries, LAMBDA e :
        IF filter.caseId # {} THEN e.caseId \in filter.caseId
        ELSE IF filter.version # {} THEN e.version \in filter.version
        ELSE filter.rule \subseteq e.rule)

ToJSON(entries) == entries

\* What was there is cleared first; a file in which a key is repeated keeps its last entry.
FromJSON(data) ==
    LET loaded[n \in 0..Len(data)] == IF n = 0 THEN <<>> ELSE Put(loaded[n - 1], data[n])
    IN  loaded[Len(data)]
===============================================================================
