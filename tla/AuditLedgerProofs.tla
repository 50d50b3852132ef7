-------------------------- MODULE AuditLedgerProofs --------------------------
(***************************************************************************)
(* Theorems of AuditLedger, for any cases, statuses and bounds, and of     *)
(* what is read off its events.                                            *)
(***************************************************************************)
EXTENDS AuditLedger, DataLemmas

(* The hash of an event is no event's genesis link and fixes the link and  *)
(* the payload it was computed from: what sha256 is relied on for.         *)
LEMMA HashIsInjective ==
    ASSUME NEW p, NEW q, NEW x, NEW y
    PROVE  /\ Hash(p, x) # Genesis
           /\ Hash(p, x) = Hash(q, y) => p = q /\ x = y
BY DEF Hash, Genesis

LEMMA HashEventIsInjective ==
    ASSUME NEW e, NEW f
    PROVE  /\ HashEvent(e) # Genesis
           /\ HashEvent(e) = HashEvent(f) => e.prevHash = f.prevHash /\ e.payload = f.payload
BY HashIsInjective DEF HashEvent

-----------------------------------------------------------------------------
(***************************************************************************)
(* Chains are sequences of events: records with the three fields below,    *)
(* whose hashes may be anything.                                           *)
(***************************************************************************)
IsEvent(e) ==
    /\ e = [payload |-> e.payload, prevHash |-> e.prevHash, eventHash |-> e.eventHash]
    /\ e.payload \in Payloads

IsChain(events) ==
    /\ \E S : events \in Seq(S)
    /\ \A i \in 1..Len(events) : IsEvent(events[i])

LEMMA ChainProperties ==
    ASSUME NEW events, IsChain(events)
    PROVE  /\ Len(events) \in Nat
           /\ DOMAIN events = 1..Len(events)
BY LenProperties DEF IsChain

(* append puts one event at the end and leaves the others alone.           *)
LEMMA Appended ==
    ASSUME NEW events, IsChain(events), NEW e, IsEvent(e)
    PROVE  LET longer == Append(events, e) IN
           /\ IsChain(longer)
           /\ Len(longer) = Len(events) + 1
           /\ \A i \in 1..Len(events) : longer[i] = events[i]
           /\ longer[Len(events) + 1] = e
<1> DEFINE longer == Append(events, e)
<1>1. PICK S : events \in Seq(S)
  BY DEF IsChain
<1>2. events \in Seq(S \cup {e}) /\ e \in S \cup {e}
  BY <1>1, SeqMonotonic
<1>3. longer \in Seq(S \cup {e})
  BY <1>2
<1>4. /\ Len(longer) = Len(events) + 1
      /\ \A i \in 1..Len(events) : longer[i] = events[i]
      /\ longer[Len(events) + 1] = e
  BY <1>2
<1>5. \A i \in 1..Len(longer) : IsEvent(longer[i])
  <2> HIDE DEF longer
  <2> QED
    BY <1>4, ChainProperties DEF IsChain
<1> QED
  BY <1>3, <1>4, <1>5 DEF IsChain

LEMMA RedactedInputIsPayload ==
    ASSUME NEW input \in Payloads
    PROVE  Redact(input) \in Payloads /\ ~Redact(input).raw
BY DEF Payloads, Redact

LEMMA SealedEventIsEvent ==
    ASSUME NEW events, NEW payload \in Payloads
    PROVE  IsEvent(SealEvent(events, payload))
BY DEF IsEvent, SealEvent

-----------------------------------------------------------------------------
(* Appending to a chain that verifies gives one that verifies: what append *)
(* links to, the eventHash the tail carries, is what verifyChain computes. *)
LEMMA AppendToSound ==
    ASSUME NEW events, IsChain(events), Verifies(events), NEW payload \in Payloads
    PROVE  Verifies(Append(events, SealEvent(events, payload)))
<1> DEFINE e == SealEvent(events, payload)
           longer == Append(events, e)
<1>1. IsEvent(e)
  BY SealedEventIsEvent
<1>2. /\ IsChain(longer)
      /\ Len(longer) = Len(events) + 1
      /\ \A i \in 1..Len(events) : longer[i] = events[i]
      /\ longer[Len(events) + 1] = e
  BY <1>1, Appended
<1>3. /\ Len(events) \in Nat /\ DOMAIN events = 1..Len(events)
      /\ DOMAIN longer = 1..(Len(events) + 1)
  BY <1>2, ChainProperties
<1>4. /\ e.prevHash = ExpectedPrev(longer, Len(events) + 1)
      /\ e.eventHash = HashEvent(e)
  <2>1. CASE events = <<>>
    BY <2>1 DEF SealEvent, ExpectedPrev, HashEvent
  <2>2. CASE events # <<>>
    <3>1. Len(events) \in 1..Len(events)
      BY <2>2, <1>3, EmptySeq DEF IsChain
    <3>2. e.prevHash = events[Len(events)].eventHash
      BY <2>2 DEF SealEvent
    <3>3. events[Len(events)].eventHash = HashEvent(events[Len(events)])
      BY <3>1, <1>3 DEF Verifies
    <3>4. ExpectedPrev(longer, Len(events) + 1) = HashEvent(events[Len(events)])
      BY <3>1, <1>2, <1>3 DEF ExpectedPrev
    <3> QED
      BY <3>2, <3>3, <3>4 DEF SealEvent, HashEvent
  <2> QED
    BY <2>1, <2>2
<1>5. ASSUME NEW i \in 1..(Len(events) + 1)
      PROVE  /\ longer[i].prevHash = ExpectedPrev(longer, i)
             /\ longer[i].eventHash = HashEvent(longer[i])
  <2> HIDE DEF longer, e
  <2>1. CASE i = Len(events) + 1
    BY <2>1, <1>2, <1>4
  <2>2. CASE i \in 1..Len(events)
    <3>1. longer[i] = events[i]
      BY <2>2, <1>2
    <3>2. ExpectedPrev(longer, i) = ExpectedPrev(events, i)
      BY <2>2, <1>2, <1>3 DEF ExpectedPrev
    <3> QED
      BY <3>1, <3>2, <2>2, <1>3 DEF Verifies
  <2> QED
    BY <2>1, <2>2, <1>3
<1> QED
  BY <1>3, <1>5 DEF Verifies

(* Appending never repairs: the link that is wrong stays where it is.      *)
LEMMA AppendToBroken ==
    ASSUME NEW events, IsChain(events), NEW e, IsEvent(e),
           Verifies(Append(events, e))
    PROVE  Verifies(events)
<1> DEFINE longer == Append(events, e)
<1>1. /\ IsChain(longer)
      /\ Len(longer) = Len(events) + 1
      /\ \A i \in 1..Len(events) : longer[i] = events[i]
  BY Appended
<1>2. /\ Len(events) \in Nat /\ DOMAIN events = 1..Len(events)
      /\ DOMAIN longer = 1..(Len(events) + 1)
  BY <1>1, ChainProperties
<1>3. Verifies(longer)
  OBVIOUS
<1> HIDE DEF longer
<1> SUFFICES ASSUME NEW i \in 1..Len(events)
             PROVE  /\ events[i].prevHash = ExpectedPrev(events, i)
                    /\ events[i].eventHash = HashEvent(events[i])
  BY <1>2 DEF Verifies
<1>4. ExpectedPrev(longer, i) = ExpectedPrev(events, i)
  BY <1>1, <1>2 DEF ExpectedPrev
<1>5. /\ longer[i].prevHash = ExpectedPrev(longer, i)
      /\ longer[i].eventHash = HashEvent(longer[i])
  BY <1>2, <1>3 DEF Verifies
<1> QED
  BY <1>1, <1>4, <1>5

-----------------------------------------------------------------------------
(***************************************************************************)
(* What every alteration keeps: a copy is no longer than its source, and   *)
(* each of its events links to something that an event of the source links *)
(* to, since no alteration writes a prevHash.                              *)
(***************************************************************************)
IsAltered(copy, source) ==
    /\ IsChain(copy)
    /\ Len(copy) <= Len(source)
    /\ \A j \in 1..Len(copy) : \E k \in 1..Len(source) : copy[j].prevHash = source[k].prevHash

LEMMA AlteredTwice ==
    ASSUME NEW events, NEW copy, NEW again, IsChain(events),
           IsAltered(copy, events), IsAltered(again, copy)
    PROVE  IsAltered(again, events)
BY ChainProperties DEF IsAltered

LEMMA CopyIsAltered ==
    ASSUME NEW events, IsChain(events)
    PROVE  IsAltered(events, events)
BY ChainProperties DEF IsAltered

(* An event replaced by one with the same link.                            *)
LEMMA ReplacedIsAltered ==
    ASSUME NEW events, IsChain(events), NEW i \in DOMAIN events,
           NEW e, IsEvent(e), e.prevHash = events[i].prevHash
    PROVE  IsAltered([events EXCEPT ![i] = e], events)
<1> DEFINE copy == [events EXCEPT ![i] = e]
<1>1. PICK S : events \in Seq(S)
  BY DEF IsChain
<1>2. events \in Seq(S \cup {e}) /\ e \in S \cup {e} /\ i \in 1..Len(events)
  BY <1>1, SeqMonotonic, ChainProperties
<1>3. /\ copy \in Seq(S \cup {e})
      /\ Len(copy) = Len(events)
      /\ \A j \in 1..Len(events) : copy[j] = IF j = i THEN e ELSE events[j]
  BY <1>2, ExceptSeq
<1> HIDE DEF copy
<1>4. IsChain(copy)
  BY <1>3 DEF IsChain
<1>5. \A j \in 1..Len(copy) : copy[j].prevHash = events[j].prevHash
  BY <1>3
<1>6. IsAltered(copy, events)
  BY <1>3, <1>4, <1>5, ChainProperties DEF IsAltered
<1> QED
  BY <1>6 DEF copy

LEMMA EditedIsAltered ==
    ASSUME NEW events, IsChain(events), NEW i \in DOMAIN events, NEW p \in Payloads
    PROVE  IsAltered(Edited(events, i, p), events)
<1> DEFINE e == [payload |-> p, prevHash |-> events[i].prevHash,
                 eventHash |-> events[i].eventHash]
<1>1. IsEvent(events[i])
  BY ChainProperties DEF IsChain
<1>2. [events[i] EXCEPT !.payload = p] = e
  BY <1>1 DEF IsEvent
<1>3. Edited(events, i, p) = [events EXCEPT ![i] = e]
  BY <1>2 DEF Edited
<1>4. IsEvent(e) /\ e.prevHash = events[i].prevHash
  BY DEF IsEvent
<1>5. IsAltered([events EXCEPT ![i] = e], events)
  <2> HIDE DEF e
  <2> QED
    BY <1>4, ReplacedIsAltered
<1> QED
  BY <1>3, <1>5

LEMMA RehashedIsAltered ==
    ASSUME NEW events, IsChain(events), NEW i \in DOMAIN events, NEW p \in Payloads
    PROVE  IsAltered(Rehashed(events, i, p), events)
<1> DEFINE h == Hash(events[i].prevHash, p)
           e == [payload |-> p, prevHash |-> events[i].prevHash, eventHash |-> h]
           edited == [events EXCEPT ![i].payload = p]
<1>1. IsEvent(events[i])
  BY ChainProperties DEF IsChain
<1>2. [[events[i] EXCEPT !.payload = p] EXCEPT !.eventHash = h] = e
  <2> DEFINE r == [payload |-> p, prevHash |-> events[i].prevHash,
                   eventHash |-> events[i].eventHash]
  <2>1. [events[i] EXCEPT !.payload = p] = r
    BY <1>1 DEF IsEvent
  <2>2. [r EXCEPT !.eventHash = h] = e
    OBVIOUS
  <2> QED
    BY <2>1, <2>2
<1>3. Rehashed(events, i, p) = [events EXCEPT ![i] = e]
  <2>1. Rehashed(events, i, p) = [edited EXCEPT ![i].eventHash = h]
    BY DEF Rehashed
  <2>2. edited[i] = [events[i] EXCEPT !.payload = p]
    OBVIOUS
  <2>3. [edited EXCEPT ![i].eventHash = h] = [events EXCEPT ![i] = e]
    BY <1>2, <2>2
  <2> QED
    BY <2>1, <2>3
<1>4. IsEvent(e) /\ e.prevHash = events[i].prevHash
  BY DEF IsEvent
<1>5. IsAltered([events EXCEPT ![i] = e], events)
  <2> HIDE DEF e
  <2> QED
    BY <1>4, ReplacedIsAltered
<1> QED
  BY <1>3, <1>5

LEMMA WithoutIsAltered ==
    ASSUME NEW events, IsChain(events), NEW i \in DOMAIN events
    PROVE  IsAltered(Without(events, i), events)
<1> DEFINE copy == Without(events, i)
<1>1. PICK S : events \in Seq(S)
  BY DEF IsChain
<1>2. /\ Len(events) \in Nat \ {0} /\ i \in 1..Len(events)
      /\ \A j \in 1..Len(events) : events[j] \in S
  BY <1>1, ChainProperties, ElementOfSeq
<1>3. copy \in [1..(Len(events) - 1) -> S]
  BY <1>2 DEF Without
<1>4. copy \in Seq(S) /\ Len(copy) = Len(events) - 1
  BY <1>2, <1>3
<1>5. \A j \in 1..Len(copy) : \E k \in 1..Len(events) : copy[j] = events[k]
  BY <1>2, <1>4 DEF Without
<1> HIDE DEF copy
<1>6. IsAltered(copy, events)
  BY <1>2, <1>4, <1>5 DEF IsAltered, IsChain
<1> QED
  BY <1>6 DEF copy

LEMMA SwappedIsAltered ==
    ASSUME NEW events, IsChain(events), NEW i \in DOMAIN events, i < Len(events)
    PROVE  IsAltered(Swapped(events, i), events)
<1> DEFINE copy == Swapped(events, i)
<1>1. PICK S : events \in Seq(S)
  BY DEF IsChain
<1>2. /\ Len(events) \in Nat
      /\ i \in 1..Len(events) /\ i + 1 \in 1..Len(events)
      /\ \A j \in 1..Len(events) : events[j] \in S
  BY <1>1, ChainProperties, ElementOfSeq
<1>3. copy \in Seq(S) /\ Len(copy) = Len(events)
  BY <1>1, <1>2, ExceptSeq DEF Swapped
<1>4. \A j \in 1..Len(copy) : \E k \in 1..Len(events) : copy[j] = events[k]
  <2>1. \A j \in 1..Len(events) :
            copy[j] = IF j = i + 1 THEN events[i] ELSE IF j = i THEN events[i + 1] ELSE events[j]
    BY <1>1, <1>2 DEF Swapped
  <2> QED
    BY <2>1, <1>2, <1>3
<1> HIDE DEF copy
<1>5. IsChain(copy)
  BY <1>3, <1>4 DEF IsChain
<1>6. Len(copy) <= Len(events)
  BY <1>2, <1>3
<1>7. \A j \in 1..Len(copy) : \E k \in 1..Len(events) : copy[j].prevHash = events[k].prevHash
  BY <1>4
<1>8. IsAltered(copy, events)
  BY <1>5, <1>6, <1>7 DEF IsAltered
<1> QED
  BY <1>8 DEF copy

-----------------------------------------------------------------------------
(* In a chain that verifies no two events have the same link: the first    *)
(* that shared its link with a later one would force its predecessor to.   *)
LEMMA LinksAreDistinct ==
    ASSUME NEW events, IsChain(events), Verifies(events),
           NEW i \in 1..Len(events), NEW j \in 1..Len(events),
           events[i].prevHash = events[j].prevHash
    PROVE  i = j
<1> DEFINE N == 1..Len(events)
           T == {m \in N : \E n \in N : n # m /\ events[m].prevHash = events[n].prevHash}
<1>1. /\ Len(events) \in Nat
      /\ \A k \in N : events[k].prevHash = ExpectedPrev(events, k)
  BY ChainProperties DEF Verifies
<1> SUFFICES ASSUME i # j PROVE FALSE
  OBVIOUS
<1>2. T # {} /\ T \in SUBSET Nat
  BY <1>1
<1>3. PICK m \in T : \A n \in T : m <= n
  BY <1>2, LeastElement
<1>4. PICK n \in N : n # m /\ events[m].prevHash = events[n].prevHash
  BY <1>3
<1>5. n \in T /\ m < n
  BY <1>1, <1>3, <1>4
<1>6. events[n].prevHash = HashEvent(events[n - 1]) /\ n - 1 \in N
  BY <1>1, <1>3, <1>5 DEF ExpectedPrev
<1>7. CASE m = 1
  <2>1. events[m].prevHash = Genesis
    BY <1>1, <1>3, <1>7 DEF ExpectedPrev
  <2> QED
    BY <2>1, <1>4, <1>6, HashEventIsInjective
<1>8. CASE m # 1
  <2>1. events[m].prevHash = HashEvent(events[m - 1]) /\ m - 1 \in N
    BY <1>1, <1>3, <1>8 DEF ExpectedPrev
  <2>2. events[m - 1].prevHash = events[n - 1].prevHash
    <3>1. HashEvent(events[m - 1]) = HashEvent(events[n - 1])
      BY <2>1, <1>4, <1>6
    <3> QED
      BY <3>1, HashEventIsInjective
  <2>3. m - 1 \in T
    BY <2>1, <2>2, <1>1, <1>5, <1>6
  <2> QED
    BY <2>3, <1>1, <1>3
<1> QED
  BY <1>7, <1>8

(* A copy that verifies has the events of its source, in their places, up  *)
(* to its last: at the first place where it differed, the event that       *)
(* follows would link to nothing the source links to in that place.        *)
LEMMA SoundCopyDiffersAtItsEndOnly ==
    ASSUME NEW events, IsChain(events), Verifies(events),
           NEW copy, IsAltered(copy, events), Verifies(copy)
    PROVE  \A i \in 1..(Len(copy) - 1) : copy[i] = events[i]
<1> DEFINE T == {i \in 1..(Len(copy) - 1) : copy[i] # events[i]}
<1>1. /\ Len(events) \in Nat /\ Len(copy) \in Nat /\ Len(copy) <= Len(events)
      /\ \A k \in 1..Len(events) : /\ events[k].prevHash = ExpectedPrev(events, k)
                                   /\ events[k].eventHash = HashEvent(events[k])
                                   /\ IsEvent(events[k])
      /\ \A k \in 1..Len(copy) : /\ copy[k].prevHash = ExpectedPrev(copy, k)
                                 /\ copy[k].eventHash = HashEvent(copy[k])
                                 /\ IsEvent(copy[k])
  BY ChainProperties DEF Verifies, IsAltered, IsChain
<1> SUFFICES ASSUME T # {} PROVE FALSE
  OBVIOUS
<1>2. PICK m \in T : \A n \in T : m <= n
  <2>1. T \in SUBSET Nat
    OBVIOUS
  <2> QED
    BY <2>1, LeastElement
<1>3. m \in 1..(Len(copy) - 1) /\ copy[m] # events[m]
  BY <1>2
<1>4. PICK k \in 1..Len(events) : copy[m + 1].prevHash = events[k].prevHash
  BY <1>1, <1>3 DEF IsAltered
<1>5. copy[m + 1].prevHash = HashEvent(copy[m])
  BY <1>1, <1>3 DEF ExpectedPrev
<1>6. k # 1
  <2>1. HashEvent(copy[m]) # Genesis
    BY HashEventIsInjective
  <2>2. k = 1 => events[k].prevHash = Genesis
    BY <1>1 DEF ExpectedPrev
  <2> QED
    BY <2>1, <2>2, <1>4, <1>5
<1>7. events[k].prevHash = HashEvent(events[k - 1]) /\ k - 1 \in 1..Len(events)
  BY <1>1, <1>6 DEF ExpectedPrev
<1>8. /\ copy[m].prevHash = events[k - 1].prevHash
      /\ copy[m].payload = events[k - 1].payload
  <2>1. HashEvent(copy[m]) = HashEvent(events[k - 1])
    BY <1>4, <1>5, <1>7
  <2> QED
    BY <2>1, HashEventIsInjective
<1>9. copy[m].prevHash = events[m].prevHash /\ m \in 1..Len(events)
  <2>1. CASE m = 1
    <3>1. 1 \in 1..Len(copy) /\ 1 \in 1..Len(events)
      BY <1>1, <1>3
    <3>2. copy[1].prevHash = Genesis /\ events[1].prevHash = Genesis
      BY <3>1, <1>1 DEF ExpectedPrev
    <3> QED
      BY <2>1, <3>1, <3>2
  <2>2. CASE m # 1
    <3>1. m - 1 \in 1..(Len(copy) - 1) /\ m - 1 \notin T
      BY <2>2, <1>1, <1>2, <1>3
    <3>2. copy[m - 1] = events[m - 1]
      BY <3>1
    <3> QED
      BY <2>2, <3>1, <3>2, <1>1, <1>3 DEF ExpectedPrev
  <2> QED
    BY <2>1, <2>2
<1>10. k - 1 = m
  BY <1>7, <1>8, <1>9, LinksAreDistinct
<1>11. copy[m] = events[m]
  <2>1. /\ IsEvent(copy[m]) /\ copy[m].eventHash = HashEvent(copy[m])
        /\ IsEvent(events[m]) /\ events[m].eventHash = HashEvent(events[m])
    BY <1>1, <1>3, <1>9
  <2>2. copy[m].prevHash = events[m].prevHash /\ copy[m].payload = events[m].payload
    BY <1>8, <1>10
  <2>3. copy[m].eventHash = events[m].eventHash
    BY <2>1, <2>2 DEF HashEvent
  <2> QED
    BY <2>1, <2>2, <2>3 DEF IsEvent
<1> QED
  BY <1>3, <1>11

-----------------------------------------------------------------------------
(***************************************************************************)
(* The inductive invariant.  What an alteration keeps must be said of the  *)
(* stored copy whether or not it verifies: it is what makes a copy that    *)
(* verifies again, after several alterations, the chain that was copied.   *)
(***************************************************************************)
Bounded(events) == IsChain(events) /\ Len(events) <= MaxEvents

LedgerInvariant ==
    /\ Bounded(chain) /\ Bounded(original)
    /\ IsAltered(stored, original)
    /\ alterations \in 0..MaxAlterations
    /\ UnalteredLedgerVerifies
    /\ AppendedIsRedacted
    /\ alterations = 0 => stored = original /\ ~ShowsRaw(chain)

LEMMA InvariantHolds == Spec => []LedgerInvariant
<1>1. Init => LedgerInvariant
  <2> SUFFICES ASSUME Init PROVE LedgerInvariant
    OBVIOUS
  <2>1. Len(<<>>) = 0 /\ IsChain(<<>>) /\ Verifies(<<>>)
    BY EmptySeq DEF IsChain, Verifies
  <2>2. IsAltered(<<>>, <<>>)
    BY <2>1, CopyIsAltered
  <2> QED
    BY <2>1, <2>2, LedgerAssumptions
    DEF Init, LedgerInvariant, Bounded, UnalteredLedgerVerifies, AppendedIsRedacted, ShowsRaw
<1>2. ASSUME LedgerInvariant, [Next]_vars
      PROVE  LedgerInvariant'
  <2> USE LedgerAssumptions
  <2>1. /\ Bounded(chain) /\ Bounded(original)
        /\ IsAltered(stored, original) /\ Bounded(stored)
        /\ alterations \in 0..MaxAlterations
        /\ UnalteredLedgerVerifies /\ AppendedIsRedacted
        /\ alterations = 0 => stored = original /\ ~ShowsRaw(chain)
    <3>1. Len(stored) <= Len(original) /\ IsChain(stored)
      BY <1>2 DEF LedgerInvariant, IsAltered
    <3>2. Len(stored) \in Nat /\ Len(original) \in Nat
      BY <1>2, <3>1, ChainProperties DEF LedgerInvariant, Bounded
    <3> QED
      BY <1>2, <3>1, <3>2 DEF LedgerInvariant, Bounded
  <2>2. ASSUME NEW input \in Payloads, AppendEvent(input)
        PROVE  LedgerInvariant'
    <3> DEFINE payload == Redact(input)
    <3>0. payload \in Payloads /\ ~payload.raw
      BY RedactedInputIsPayload
    <3> HIDE DEF payload
    <3>1. IsEvent(SealEvent(chain, payload)) /\ chain' = Append(chain, SealEvent(chain, payload))
      BY <2>2, <3>0, SealedEventIsEvent DEF AppendEvent, payload
    <3>2. /\ IsChain(chain') /\ Len(chain') = Len(chain) + 1
          /\ \A i \in 1..Len(chain) : chain'[i] = chain[i]
          /\ chain'[Len(chain) + 1].payload = payload
      BY <2>1, <3>1, Appended DEF Bounded, SealEvent
    <3>3. Len(chain) \in Nat /\ Len(chain) < MaxEvents
      BY <2>1, <2>2, ChainProperties DEF Bounded, AppendEvent
    <3>4. Bounded(chain')
      BY <3>2, <3>3 DEF Bounded
    <3>5. Verifies(chain) => Verifies(chain')
      BY <2>1, <3>0, <3>1, AppendToSound DEF Bounded
    <3>6. /\ Len(original) \in Nat /\ original' = original /\ stored' = stored
          /\ alterations' = alterations
      BY <2>1, <2>2, ChainProperties DEF Bounded, AppendEvent
    <3>7. AppendedIsRedacted'
      BY <2>1, <3>0, <3>2, <3>3, <3>6 DEF AppendedIsRedacted
    <3>8. ~ShowsRaw(chain) => ~ShowsRaw(chain')
      BY <3>0, <3>2, <3>3 DEF ShowsRaw
    <3> QED
      BY <2>1, <3>4, <3>5, <3>6, <3>7, <3>8 DEF LedgerInvariant, UnalteredLedgerVerifies
  <2>3. CASE Export
    BY <2>1, <2>3, CopyIsAltered, ChainProperties
    DEF LedgerInvariant, UnalteredLedgerVerifies, Bounded, Export, AppendedIsRedacted, ShowsRaw
  <2>4. CASE FromEvents
    BY <2>1, <2>4, CopyIsAltered, ChainProperties
    DEF LedgerInvariant, UnalteredLedgerVerifies, Bounded, FromEvents, AppendedIsRedacted, ShowsRaw
  <2>5. ASSUME NEW altered, IsAltered(altered, stored), Alter(altered)
        PROVE  LedgerInvariant'
    <3>1. IsAltered(stored', original')
      BY <2>1, <2>5, AlteredTwice DEF Alter, Bounded
    <3>2. alterations' \in 0..MaxAlterations /\ alterations' # 0
      BY <2>1, <2>5 DEF Alter
    <3> QED
      BY <2>1, <2>5, <3>1, <3>2
      DEF LedgerInvariant, UnalteredLedgerVerifies, Alter, AppendedIsRedacted
  <2>6. CASE EditPayload
    BY <2>1, <2>5, <2>6, EditedIsAltered DEF EditPayload, Bounded
  <2>7. CASE EditAndRehash
    BY <2>1, <2>5, <2>7, RehashedIsAltered DEF EditAndRehash, Bounded
  <2>8. CASE DropEvent
    BY <2>1, <2>5, <2>8, WithoutIsAltered DEF DropEvent, Bounded
  <2>9. CASE Reorder
    BY <2>1, <2>5, <2>9, SwappedIsAltered DEF Reorder, Bounded
  <2>10. CASE UNCHANGED vars
    BY <2>1, <2>10 DEF LedgerInvariant, UnalteredLedgerVerifies, vars, AppendedIsRedacted, ShowsRaw
  <2> QED
    BY <1>2, <2>2, <2>3, <2>4, <2>6, <2>7, <2>8, <2>9, <2>10 DEF Next
<1> QED
  BY <1>1, <1>2, PTL DEF Spec

(* Every event has a payload of the contract.  What append seals shows no  *)
(* sensitive data, whatever copies the ledger was loaded from before; and  *)
(* if none was altered, neither the ledger nor a copy shows any.           *)
THEOREM TypeCorrect == Spec => []TypeOK
<1>1. LedgerInvariant => TypeOK
  <2> SUFFICES ASSUME LedgerInvariant PROVE TypeOK
    OBVIOUS
  <2>1. /\ Len(stored) \in Nat /\ Len(original) \in Nat /\ Len(stored) <= Len(original)
        /\ IsChain(stored)
    BY ChainProperties DEF LedgerInvariant, Bounded, IsAltered
  <2>2. Bounded(stored)
    BY <2>1, LedgerAssumptions DEF LedgerInvariant, Bounded
  <2>3. /\ Len(chain) \in Nat
        /\ Len(original) <= Len(chain) /\ \A i \in 1..Len(original) : chain[i] = original[i]
    <3>1. Len(chain) \in Nat /\ Len(original) <= Len(chain)
      BY ChainProperties DEF LedgerInvariant, Bounded, AppendedIsRedacted
    <3>2. \A i \in 1..Len(original) : i \in 1..Len(chain) /\ i <= Len(original)
      BY <2>1, <3>1
    <3> QED
      BY <3>1, <3>2 DEF LedgerInvariant, AppendedIsRedacted
  <2>4. ~ShowsRaw(chain) => ~ShowsRaw(original)
    BY <2>1, <2>3 DEF ShowsRaw
  <2> QED
    BY <2>2, <2>4 DEF LedgerInvariant, Bounded, IsChain, IsEvent, TypeOK
<1> QED
  BY <1>1, InvariantHolds, PTL

(* verifyChain accepts what append built, through any number of exports    *)
(* and reloads, as long as nothing altered a copy.                         *)
THEOREM UnalteredVerifies == Spec => []UnalteredLedgerVerifies
<1>1. LedgerInvariant => UnalteredLedgerVerifies
  BY DEF LedgerInvariant
<1> QED
  BY <1>1, InvariantHolds, PTL

(* verifyChain finds every alteration, or combination of alterations, that *)
(* reaches further than the last event of the copy, however long the chain *)
(* is and however many alterations there were.                             *)
THEOREM AlterationsShow == Spec => []AlterationsShowBeforeTheTail
<1>1. LedgerInvariant => AlterationsShowBeforeTheTail
  <2> SUFFICES ASSUME LedgerInvariant, Verifies(original), Verifies(stored)
               PROVE  /\ Len(stored) <= Len(original)
                      /\ \A i \in 1..(Len(stored) - 1) : stored[i] = original[i]
    BY DEF AlterationsShowBeforeTheTail
  <2>1. IsChain(original) /\ IsAltered(stored, original)
    BY DEF LedgerInvariant, Bounded
  <2> QED
    BY <2>1, SoundCopyDiffersAtItsEndOnly DEF IsAltered
<1> QED
  BY <1>1, InvariantHolds, PTL

(* A lifecycle reconstructed from a copy whose last event is the one that  *)
(* was sealed there is that of a prefix of the chain: the copy is one.     *)
THEOREM ReconstructionIsSound == Spec => []ReconstructionIsAPastState
<1>1. LedgerInvariant => ReconstructionIsAPastState
  <2> SUFFICES ASSUME LedgerInvariant, NEW case \in Cases,
                      Verifies(original), Reconstructs(stored, case),
                      Len(stored) \in DOMAIN original,
                      stored[Len(stored)] = original[Len(stored)]
               PROVE  \E n \in DOMAIN original :
                         FoldedStatus(stored, case) = FoldedStatus(SubSeq(original, 1, n), case)
    BY DEF ReconstructionIsAPastState
  <2>1. IsChain(original) /\ IsAltered(stored, original) /\ IsChain(stored)
    BY DEF LedgerInvariant, Bounded, IsAltered
  <2>2. \A i \in 1..(Len(stored) - 1) : stored[i] = original[i]
    BY <2>1, SoundCopyDiffersAtItsEndOnly DEF Reconstructs
  <2>3. /\ Len(stored) \in 1..Len(original)
        /\ Len(stored) \in Nat /\ Len(original) \in Nat
        /\ DOMAIN stored = 1..Len(stored)
    BY <2>1, ChainProperties
  <2>4. \A i \in 1..Len(stored) : stored[i] = original[i]
    <3> SUFFICES ASSUME NEW i \in 1..Len(stored), i # Len(stored)
                 PROVE  stored[i] = original[i]
      OBVIOUS
    <3> DEFINE last == Len(stored)
    <3>1. last \in Nat /\ i \in 1..last /\ i # last
      BY <2>3
    <3>2. i \in 1..(last - 1)
      <4> HIDE DEF last
      <4> QED
        BY <3>1
    <3> QED
      BY <3>2, <2>2
  <2>5. stored = SubSeq(original, 1, Len(stored))
    <3>1. PICK S : original \in Seq(S)
      BY <2>1 DEF IsChain
    <3>2. PICK T : stored \in Seq(T)
      BY <2>1 DEF IsChain
    <3>3. /\ SubSeq(original, 1, Len(stored)) \in Seq(S)
          /\ Len(SubSeq(original, 1, Len(stored))) = Len(stored)
          /\ \A i \in 1..Len(stored) : SubSeq(original, 1, Len(stored))[i] = original[i]
      BY <2>3, <3>1
    <3> QED
      BY <3>2, <3>3, <2>4, SeqEqual
  <2> QED
    BY <2>3, <2>5
<1> QED
  BY <1>1, InvariantHolds, PTL

(* A ledger that fromEvents loaded from a broken copy cannot grow into one *)
(* that verifies.                                                          *)
THEOREM BrokenStaysBroken == Spec => AppendDoesNotHeal
<1>1. ASSUME LedgerInvariant, NEW input \in Payloads,
             AppendEvent(input), Verifies(chain')
      PROVE  Verifies(chain)
  <2>1. IsChain(chain) /\ IsEvent(SealEvent(chain, Redact(input)))
    BY <1>1, RedactedInputIsPayload, SealedEventIsEvent DEF LedgerInvariant, Bounded
  <2> QED
    BY <1>1, <2>1, AppendToBroken DEF AppendEvent
<1>2. LedgerInvariant =>
        [\A input \in Payloads :
            AppendEvent(input) /\ ~Verifies(chain) => ~Verifies(chain')]_vars
  BY <1>1
<1> QED
  BY <1>2, InvariantHolds, PTL DEF AppendDoesNotHeal

-----------------------------------------------------------------------------
(***************************************************************************)
(* What is read off a sequence of events (AuditReadings).                  *)
(***************************************************************************)
Readings == INSTANCE AuditReadings

LEMMA ReadingsSelectAlike ==
    ASSUME NEW s, NEW places
    PROVE  Readings!Selected(s, places) = Selected(s, places)
BY DEF Readings!Selected, Selected

\* The places at which a value differs from the one before it.
ChangesIn(values, n) == {k \in 1..n : k = 1 \/ values[k] # values[k - 1]}

(* Nothing changes after the last change.                                  *)
LEMMA UnchangedSince ==
    ASSUME NEW values, NEW n \in Nat, NEW p \in 1..n, NEW k \in p..n,
           \A j \in (p + 1)..k : j \notin ChangesIn(values, n)
    PROVE  values[k] = values[p]
<1> DEFINE G == {j \in 0..(k - p) : values[p + j] = values[p]}
<1>1. 0 \in G
  OBVIOUS
<1>2. ASSUME NEW j \in 1..(k - p), j - 1 \in G
      PROVE  j \in G
  <2>1. p + j \in (p + 1)..k /\ p + j \in 1..n /\ p + j # 1
    OBVIOUS
  <2>2. values[p + j] = values[(p + j) - 1]
    BY <2>1 DEF ChangesIn
  <2>3. (p + j) - 1 = p + (j - 1) /\ values[p + (j - 1)] = values[p]
    BY <1>2
  <2> QED
    BY <2>2, <2>3
<1>3. k - p \in G
  <2>1. k - p \in Nat
    OBVIOUS
  <2> HIDE DEF G
  <2>2. 0..(k - p) \subseteq G
    BY <1>1, <1>2, <2>1, UpToInduction
  <2> QED
    BY <2>1, <2>2
<1>4. p + (k - p) = k
  OBVIOUS
<1> QED
  BY <1>3, <1>4

(* The changes of a list, in order: the last of them gives the last value, *)
(* and no two neighbours give the same one.                                *)
LEMMA ChangesTellTheValues ==
    ASSUME NEW values, NEW n \in Nat, n > 0
    PROVE  LET changes == Selected([k \in 1..n |-> k], ChangesIn(values, n))
           IN  /\ changes \in Seq(1..n) /\ Len(changes) > 0
               /\ values[changes[Len(changes)]] = values[n]
               /\ \A i \in 2..Len(changes) : values[changes[i]] # values[changes[i - 1]]
<1> DEFINE P == ChangesIn(values, n)
           places == [k \in 1..n |-> k]
           changes == Selected(places, P)
           m == Len(changes)
<1>1. places \in Seq(1..n) /\ Len(places) = n
  OBVIOUS
<1>2. P \cap 1..n = P /\ P \subseteq 1..n /\ 1 \in P
  BY DEF ChangesIn
<1> HIDE DEF P, places
<1>3. changes \in Seq(1..n) /\ m \in Nat
  BY <1>1, SelectedElements
<1>4. PICK at : Chooses(at, changes, places, P, n)
  BY <1>1, SelectedPlaces
<1>5. /\ at \in [1..m -> P]
      /\ \A i, j \in 1..m : i < j => at[i] < at[j]
      /\ \A k \in P : \E i \in 1..m : at[i] = k
  BY <1>2, <1>4 DEF Chooses, Lists
<1>6. \A i \in 1..m : changes[i] = at[i]
  BY <1>2, <1>4, <1>5 DEF Chooses, places
<1> HIDE DEF changes
<1>7. m > 0 /\ m \in 1..m
  BY <1>2, <1>3, <1>5
<1>8. values[at[m]] = values[n]
  <2>1. at[m] \in 1..n /\ n \in (at[m])..n
    BY <1>2, <1>5, <1>7
  <2>2. \A j \in (at[m] + 1)..n : j \notin P
    <3> SUFFICES ASSUME NEW j \in (at[m] + 1)..n, j \in P PROVE FALSE
      OBVIOUS
    <3>1. PICK i \in 1..m : at[i] = j
      BY <1>5
    <3>2. i = m \/ at[i] < at[m]
      BY <1>3, <1>5, <1>7
    <3> QED
      BY <2>1, <3>1, <3>2
  <2> QED
    BY <2>1, <2>2, UnchangedSince DEF P
<1>9. ASSUME NEW i \in 2..m
      PROVE  values[at[i]] # values[at[i - 1]]
  <2> DEFINE p == at[i - 1]
             k == at[i] - 1
  <2>1. i \in 1..m /\ i - 1 \in 1..m /\ i - 1 < i
    BY <1>3
  <2>2. at[i] \in 1..n /\ p \in 1..n /\ p < at[i]
    BY <1>2, <1>5, <2>1
  <2>3. k \in p..n /\ at[i] # 1
    BY <2>2
  <2>4. \A j \in (p + 1)..k : j \notin P
    <3> SUFFICES ASSUME NEW j \in (p + 1)..k, j \in P PROVE FALSE
      OBVIOUS
    <3>1. PICK h \in 1..m : at[h] = j
      BY <1>5
    <3>2. j \in Int /\ at[i - 1] < at[h] /\ at[h] < at[i]
      BY <2>2, <3>1
    <3>3. h <= i - 1 \/ i <= h
      BY <2>1
    <3>4. h <= i - 1 => h = i - 1 \/ at[h] < at[i - 1]
      BY <1>5, <2>1
    <3>5. i <= h => h = i \/ at[i] < at[h]
      BY <1>5, <2>1
    <3> QED
      BY <2>2, <3>1, <3>2, <3>3, <3>4, <3>5
  <2>5. values[k] = values[p]
    <3> HIDE DEF p, k
    <3> QED
      BY <2>2, <2>3, <2>4, UnchangedSince DEF P
  <2>6. at[i] \in P
    BY <1>5, <2>1
  <2>7. values[at[i]] # values[at[i] - 1]
    BY <2>3, <2>6 DEF P, ChangesIn
  <2> QED
    BY <2>5, <2>7
<1> QED
  <2>1. \A i \in 2..m : changes[i] = at[i] /\ changes[i - 1] = at[i - 1]
    BY <1>3, <1>6
  <2>2. changes[m] = at[m]
    BY <1>6, <1>7
  <2> QED
    BY <1>3, <1>7, <1>8, <1>9, <2>1, <2>2 DEF changes, places, P

\* Snapshots are optional.
SnapshotsAreOptional(events) ==
    \A n \in DOMAIN events : \A x, y \in events[n].after : x = y

(* What is told of a case ends with the status it has, and tells every     *)
(* status once until it changes: for any events, those of other cases      *)
(* among them, wherever the reconstruction answers.                        *)
THEOREM LivesAreToldInOrder ==
    ASSUME NEW T, NEW events \in Seq(T), SnapshotsAreOptional(events), NEW case,
           NEW life \in Readings!ReconstructCaseLifecycleFromEvents(events, case)
    PROVE  LET told == life.lifecycleStatuses
           IN  /\ Len(told) > 0 /\ told[Len(told)] = life.current.status
               /\ \A i \in 2..Len(told) : told[i] # told[i - 1]
<1> DEFINE own == Readings!OfCase(events, case)
           N == Len(own)
           Status(n) == Readings!Only(own[n].after).status
           values == [n \in 1..N |-> Readings!StatusOf(own[n].after)]
           changes == Selected([k \in 1..N |-> k], ChangesIn(values, N))
<1>1. own = Selected(events, {n \in DOMAIN events : events[n].case = case})
  BY ReadingsSelectAlike DEF Readings!OfCase
<1>2. /\ own \in Seq(T) /\ N \in Nat /\ DOMAIN own = 1..N
      /\ \A n \in 1..N : \E k \in DOMAIN events : own[n] = events[k]
  <2> DEFINE P == {n \in DOMAIN events : events[n].case = case}
  <2>1. DOMAIN events = 1..Len(events)
    BY LenProperties
  <2>2. own = Selected(events, P)
    BY <1>1
  <2> HIDE DEF P, own
  <2> QED
    BY <2>1, <2>2, SelectedElements
<1> HIDE DEF own
<1>3. /\ Readings!Coherent(own, case)
      /\ life.current = Readings!Only(Readings!Last(own).after)
      /\ life.lifecycleStatuses = Readings!LifecycleStatuses(own)
  BY DEF Readings!ReconstructCaseLifecycleFromEvents, own
<1>4. N > 0 /\ \A n \in 1..N : own[n].after # {}
  BY <1>2, <1>3 DEF Readings!Coherent, Readings!BelongsTo
<1>5. \A n \in 1..N : values[n] = {Status(n)}
  <2> TAKE n \in 1..N
  <2>1. \A x, y \in own[n].after : x = y
    BY <1>2 DEF SnapshotsAreOptional
  <2>2. Readings!Only(own[n].after) \in own[n].after
    BY <1>4 DEF Readings!Only
  <2> QED
    BY <2>1, <2>2 DEF Readings!StatusOf
<1>6. life.lifecycleStatuses = [i \in DOMAIN changes |-> Status(changes[i])]
  <2>1. ChangesIn(values, N)
        = {n \in DOMAIN own : n = 1 \/ Readings!StatusOf(own[n].after) # Readings!StatusOf(own[n - 1].after)}
    BY <1>2 DEF ChangesIn
  <2> QED
    BY <1>2, <1>3, <2>1, ReadingsSelectAlike DEF Readings!LifecycleStatuses
<1>7. /\ changes \in Seq(1..N) /\ Len(changes) > 0
      /\ values[changes[Len(changes)]] = values[N]
      /\ \A i \in 2..Len(changes) : values[changes[i]] # values[changes[i - 1]]
  <2> HIDE DEF values
  <2> QED
    BY <1>2, <1>4, ChangesTellTheValues
<1>8. /\ Len(changes) \in Nat /\ DOMAIN changes = 1..Len(changes)
      /\ \A i \in 1..Len(changes) : changes[i] \in 1..N
  <2> HIDE DEF changes
  <2> QED
    BY <1>7, LenProperties
<1>9. life.current.status = Status(N)
  BY <1>2, <1>3, <1>4 DEF Readings!Last
<1>10. Len(life.lifecycleStatuses) = Len(changes)
  <2> HIDE DEF changes
  <2> QED
    BY <1>6, <1>8
<1> HIDE DEF changes, values, Status
<1> DEFINE told == life.lifecycleStatuses
           M == Len(changes)
<1>11. \A i \in 1..M : told[i] = Status(changes[i]) /\ values[changes[i]] = {told[i]}
  BY <1>5, <1>6, <1>8
<1>12. M \in 1..M /\ values[N] = {life.current.status}
  BY <1>2, <1>4, <1>5, <1>7, <1>8, <1>9
<1>13. told[M] = life.current.status
  BY <1>7, <1>11, <1>12
<1>14. \A i \in 2..M : told[i] # told[i - 1]
  <2> TAKE i \in 2..M
  <2>1. i \in 1..M /\ i - 1 \in 1..M
    BY <1>8
  <2> QED
    BY <1>7, <1>11, <2>1
<1> QED
  BY <1>7, <1>10, <1>13, <1>14

\* A list of events from which the n-th is gone.
WithoutEvent(events, n) == [k \in 1..(Len(events) - 1) |-> events[IF k < n THEN k ELSE k + 1]]

(* The snapshots tell when an event between two others of its case is      *)
(* gone, even from a chain that was sealed anew, unless it changed nothing *)
(* or what it did was undone.  They do not tell that the first or the last *)
(* is gone: that is what the hashes are for.                               *)
THEOREM InnerGapsShow ==
    ASSUME NEW T, NEW own \in Seq(T), Len(own) > 1, NEW case, Readings!Coherent(own, case),
           NEW n \in 1..Len(own)
    PROVE  Readings!Coherent(WithoutEvent(own, n), case)
           <=> n \in {1, Len(own)} \/ own[n - 1].after = own[n + 1].before
<1> DEFINE N == Len(own)
           rest == WithoutEvent(own, n)
           Follows(events, k) == events[k].before = events[k - 1].after
<1>1. N \in Nat /\ N > 1 /\ DOMAIN own = 1..N /\ n \in 1..N
  BY LenProperties
<1> HIDE DEF N
<1>2. /\ rest \in Seq(T) /\ Len(rest) = N - 1 /\ DOMAIN rest = 1..(N - 1) /\ rest # <<>>
      /\ \A k \in 1..(N - 1) : rest[k] = own[IF k < n THEN k ELSE k + 1]
  <2>1. rest \in [1..(N - 1) -> T]
    BY <1>1 DEF WithoutEvent, N
  <2>2. rest \in Seq(T) /\ DOMAIN rest = 1..(N - 1)
    BY <1>1, <2>1
  <2>3. Len(rest) = N - 1
    <3> DEFINE m == Len(rest)
    <3>1. m \in Nat /\ 1..m = 1..(N - 1)
      BY <2>2, LenProperties
    <3> HIDE DEF m
    <3>2. m = N - 1
      BY <1>1, <3>1
    <3> QED
      BY <3>2 DEF m
  <2>4. rest # <<>>
    BY <1>1, <2>3
  <2> QED
    BY <2>2, <2>3, <2>4 DEF WithoutEvent, N
<1>3. /\ \A k \in 1..N : Readings!BelongsTo(own[k], case) /\ own[k].deal = own[1].deal
      /\ \A k \in 2..N : Follows(own, k)
  BY <1>1 DEF Readings!Coherent, N
<1> HIDE DEF rest
<1>4. \A k \in 1..(N - 1) : Readings!BelongsTo(rest[k], case) /\ rest[k].deal = rest[1].deal
  <2> TAKE k \in 1..(N - 1)
  <2>1. \A j \in 1..(N - 1) : \E i \in 1..N : rest[j] = own[i]
    BY <1>1, <1>2
  <2>2. 1 \in 1..(N - 1)
    BY <1>1
  <2> QED
    BY <1>3, <2>1, <2>2
<1>5. Readings!Coherent(rest, case) <=> \A k \in 2..(N - 1) : Follows(rest, k)
  <2>1. \A k \in 1..(N - 1) : k > 1 <=> k \in 2..(N - 1)
    BY <1>1
  <2>2. \A k \in 2..(N - 1) : k \in 1..(N - 1)
    BY <1>1
  <2> QED
    BY <1>2, <1>4, <2>1, <2>2 DEF Readings!Coherent
<1>6. ASSUME NEW k \in 2..(N - 1), k # n
      PROVE  Follows(rest, k)
  <2>1. k \in 1..(N - 1) /\ k - 1 \in 1..(N - 1) /\ k \in 2..N /\ k + 1 \in 2..N
    BY <1>1
  <2>2. CASE k < n
    BY <1>2, <1>3, <2>1, <2>2
  <2>3. CASE n < k
    <3>1. rest[k] = own[k + 1] /\ rest[k - 1] = own[k]
      BY <1>2, <2>1, <2>3
    <3>2. Follows(own, k + 1)
      BY <1>3, <2>1
    <3> QED
      BY <2>1, <3>1, <3>2
  <2> QED
    BY <1>6, <2>1, <2>2, <2>3
<1>7. ASSUME n \in 2..(N - 1)
      PROVE  Follows(rest, n) <=> own[n - 1].after = own[n + 1].before
  <2>1. rest[n] = own[n + 1] /\ rest[n - 1] = own[n - 1]
    BY <1>1, <1>2, <1>7
  <2> QED
    BY <2>1
<1>8. n \in 2..(N - 1) <=> n \notin {1, N}
  BY <1>1
<1> QED
  BY <1>5, <1>6, <1>7, <1>8 DEF rest, N
===============================================================================
