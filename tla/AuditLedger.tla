----------------------------- MODULE AuditLedger -----------------------------
(***************************************************************************)
(* The hash-chained audit ledger of packages/governance: a chain that only *)
(* grows, a copy of it in some store, and the verification that decides    *)
(* whether a copy may be read.  A store may alter its copy in the ways     *)
(* that docs/technical/hash-chained-audit-ledger.md lists; a ledger may be *)
(* loaded from a copy, which fromEvents does without verifying it.         *)
(*                                                                         *)
(* The hash is ideal: sha256 over the canonical payload, prevHash          *)
(* included, is the pair of the two.  A payload is [case, status, raw]:    *)
(* status is what the event tells of its case, by an explicit              *)
(* afterState.status or else by its action, and raw tells whether one of   *)
(* its snapshots shows sensitive data as it is and not as a redacted       *)
(* reference.                                                              *)
(***************************************************************************)
EXTENDS Integers, Sequences

CONSTANTS
    Cases,            \* governance cases
    Statuses,         \* what events tell of their case
    MaxEvents,        \* bound: events in a chain
    MaxAlterations    \* bound: alterations of stored copies

ASSUME LedgerAssumptions == MaxEvents \in Nat /\ MaxAlterations \in Nat

VARIABLES
    chain,       \* the events the ledger holds
    stored,      \* the copy in the store
    original,    \* observer: the chain that was copied last
    alterations  \* how often a copy has been altered

vars == <<chain, stored, original, alterations>>

NoStatus == "none"
Payloads == [case : Cases, status : Statuses \cup {NoStatus}, raw : BOOLEAN]

(* Mutant: snapshots are sealed as they come.                              *)
RedactsNothing(input) == input

Redact(input) == [input EXCEPT !.raw = FALSE]

Genesis == <<>>
Hash(prevHash, payload) == <<prevHash, payload>>
HashEvent(e) == Hash(e.prevHash, e.payload)

(* Mutant: the event links to its predecessor's link.                      *)
SealToGrandparent(events, payload) ==
    LET prev == IF events = <<>> THEN Genesis ELSE events[Len(events)].prevHash IN
    [payload |-> payload, prevHash |-> prev, eventHash |-> Hash(prev, payload)]

(* append trusts the eventHash that the tail carries.                      *)
SealEvent(events, payload) ==
    LET prev == IF events = <<>> THEN Genesis ELSE events[Len(events)].eventHash IN
    [payload |-> payload, prevHash |-> prev, eventHash |-> Hash(prev, payload)]

ExpectedPrev(events, i) == IF i = 1 THEN Genesis ELSE HashEvent(events[i - 1])

(* Mutants: only the hashes are recomputed; only the last event is looked at. *)
VerifiesHashes(events) ==
    \A i \in DOMAIN events : events[i].eventHash = HashEvent(events[i])

VerifiesTail(events) ==
    \A i \in DOMAIN events : i = Len(events) =>
        /\ events[i].prevHash = ExpectedPrev(events, i)
        /\ events[i].eventHash = HashEvent(events[i])

Verifies(events) ==
    \A i \in DOMAIN events :
        /\ events[i].prevHash = ExpectedPrev(events, i)
        /\ events[i].eventHash = HashEvent(events[i])

(***************************************************************************)
(* reconstructCaseLifecycle: the status of a case is that of its last      *)
(* event that tells one, and open if there is none.                        *)
(***************************************************************************)
Timeline(events, case) == {i \in DOMAIN events : events[i].payload.case = case}

FoldedStatus(events, case) ==
    LET marks == {i \in Timeline(events, case) : events[i].payload.status # NoStatus} IN
    IF marks = {} THEN "open"
    ELSE events[CHOOSE i \in marks : \A j \in marks : j <= i].payload.status

(* Mutant: the lifecycle is read from a chain that does not verify.        *)
ReconstructsUnverified(events, case) == Timeline(events, case) # {}

Reconstructs(events, case) == Verifies(events) /\ Timeline(events, case) # {}
-----------------------------------------------------------------------------
AppendEvent(input) ==
    /\ Len(chain) < MaxEvents
    /\ chain' = Append(chain, SealEvent(chain, Redact(input)))
    /\ UNCHANGED <<stored, original, alterations>>

(* A caller stores what events() returned.                                 *)
Export ==
    /\ stored' = chain /\ original' = chain
    /\ UNCHANGED <<chain, alterations>>

FromEvents ==
    /\ chain' = stored /\ original' = stored
    /\ UNCHANGED <<stored, alterations>>

(***************************************************************************)
(* What may happen to a stored copy: nothing redacts what is put there.    *)
(***************************************************************************)
Edited(events, i, payload) == [events EXCEPT ![i].payload = payload]
Rehashed(events, i, payload) ==
    [events EXCEPT ![i].payload = payload, ![i].eventHash = Hash(events[i].prevHash, payload)]
Without(events, i) ==
    [j \in 1..(Len(events) - 1) |-> IF j < i THEN events[j] ELSE events[j + 1]]
Swapped(events, i) == [events EXCEPT ![i] = events[i + 1], ![i + 1] = events[i]]

Alter(altered) ==
    /\ alterations < MaxAlterations
    /\ stored' = altered
    /\ alterations' = alterations + 1
    /\ UNCHANGED <<chain, original>>

EditPayload == \E i \in DOMAIN stored, p \in Payloads : Alter(Edited(stored, i, p))
EditAndRehash == \E i \in DOMAIN stored, p \in Payloads : Alter(Rehashed(stored, i, p))
DropEvent == \E i \in DOMAIN stored : Alter(Without(stored, i))
Reorder == \E i \in DOMAIN stored : i < Len(stored) /\ Alter(Swapped(stored, i))

Init ==
    /\ chain = <<>> /\ stored = <<>> /\ original = <<>>
    /\ alterations = 0

Next ==
    \/ \E input \in Payloads : AppendEvent(input)
    \/ Export \/ FromEvents
    \/ EditPayload \/ EditAndRehash \/ DropEvent \/ Reorder

Spec == Init /\ [][Next]_vars
-----------------------------------------------------------------------------
ShowsRaw(events) == \E i \in 1..Len(events) : events[i].payload.raw

(* The ledger goes on from what was last exported or loaded, and what      *)
(* append added since shows no sensitive data.                             *)
AppendedIsRedacted ==
    /\ Len(original) <= Len(chain)
    /\ \A i \in 1..Len(chain) :
          IF i <= Len(original) THEN chain[i] = original[i] ELSE ~chain[i].payload.raw

(* Every event has a payload of the contract.  append seals no sensitive   *)
(* data; what a copy was altered to hold fromEvents loads as it is, so     *)
(* that the ledger itself shows none only if no copy was altered.          *)
TypeOK ==
    /\ \A events \in {chain, stored, original} :
          /\ Len(events) <= MaxEvents
          /\ \A i \in 1..Len(events) : events[i].payload \in Payloads
    /\ AppendedIsRedacted
    /\ alterations = 0 => \A events \in {chain, stored, original} : ~ShowsRaw(events)
    /\ alterations \in 0..MaxAlterations

(* A copy that verifies differs from the chain that was copied, if it was  *)
(* sound, at its end only: every event but the last is the one that was    *)
(* sealed in that place.  Edits with and without a new hash, lost events   *)
(* and events out of order, alone or combined, cannot hide elsewhere.      *)
AlterationsShowBeforeTheTail ==
    Verifies(original) /\ Verifies(stored)
        => /\ Len(stored) <= Len(original)
           /\ \A i \in 1..(Len(stored) - 1) : stored[i] = original[i]

(* What a lifecycle is reconstructed from, if its last event is the one    *)
(* that was sealed there, is a state the case once had.                    *)
ReconstructionIsAPastState ==
    \A case \in Cases :
        /\ Verifies(original) /\ Reconstructs(stored, case)
        /\ Len(stored) \in DOMAIN original
        /\ stored[Len(stored)] = original[Len(stored)]
        => \E n \in DOMAIN original :
              FoldedStatus(stored, case) = FoldedStatus(SubSeq(original, 1, n), case)

(* As long as nothing altered a copy, the ledger and the copy verify,      *)
(* through any number of exports and reloads.                              *)
UnalteredLedgerVerifies == alterations = 0 => Verifies(chain) /\ Verifies(stored)

(* fromEvents does not verify what it loads; but a chain that is broken    *)
(* stays broken, and is found out, however much is appended to it.         *)
AppendDoesNotHeal ==
    [][\A input \in Payloads :
          AppendEvent(input) /\ ~Verifies(chain) => ~Verifies(chain')]_vars

(* hash-chained-audit-ledger.md:40, "Edit a payload and re-hash it": the   *)
(* next event no longer links.  So the copy does not verify.               *)
RehashedEditIsDetected ==
    [][\A i \in DOMAIN stored, p \in Payloads :
          /\ Verifies(stored) /\ p # stored[i].payload
          /\ Alter(Rehashed(stored, i, p))
          => ~Verifies(stored')]_vars
=============================================================================
