--------------------------- MODULE InferenceProxy ---------------------------
(***************************************************************************)
(* The inference proxy's decisions (apps/desktop-demo/src/lib/             *)
(* proxy-surface.ts): which model policy governs a captured call, what the *)
(* gate answers, which policies the proposer suggests.  Names are compared *)
(* after normalisation; Includes says which normalised name contains       *)
(* which, Length how long each is.  A policy for "*" normalises to the     *)
(* empty name, which every name contains.  Whether the intent of a call is *)
(* low-complexity is a field of the call.                                  *)
(***************************************************************************)
EXTENDS Naturals, Sequences, FiniteSets

CONSTANTS Names,       \* workstreams, objectives and the subjects of policies
          Includes,    \* <<a, b>>: the normalised a contains the normalised b
          Length,      \* of a normalised name
          Objectives,  \* of the company's mission
          None

ASSUME ProxyAssumptions ==
    /\ Objectives \subseteq Names
    /\ Length \in [Names -> Nat]
    /\ \A a \in Names : <<a, a>> \in Includes

\* From the cheapest to the most capable.
TierOrder == <<"haiku", "sonnet", "opus">>
Tiers == {TierOrder[i] : i \in 1..3}
Rank(tier) == CHOOSE i \in 1..3 : TierOrder[i] = tier
MostCapable(tiers) == CHOOSE t \in tiers : \A u \in tiers : Rank(u) <= Rank(t)

EitherIncludes(a, b) == <<a, b>> \in Includes \/ <<b, a>> \in Includes

MissionAligned(call) == \E o \in Objectives : EitherIncludes(call.workstream, o)

Matching(call, policies) ==
    {i \in DOMAIN policies :
        policies[i].status = "active" /\ EitherIncludes(call.workstream, policies[i].workstream)}

\* The most specific active policy; the sort is stable, so the earliest among equals.
MatchPolicy(call, policies) ==
    LET matching == Matching(call, policies)
    IN  IF matching = {} THEN None
        ELSE policies[CHOOSE i \in matching : \A j \in matching :
                 \/ Length[policies[j].workstream] < Length[policies[i].workstream]
                 \/ Length[policies[j].workstream] = Length[policies[i].workstream] /\ i <= j]

\* What the matched policy makes of the requested model.
Routed(model, policy) ==
    IF policy = None THEN [verdict |-> "allow", model |-> model]
    ELSE IF model \in policy.tiers THEN [verdict |-> "allow", model |-> model]
    ELSE IF policy.tiers = {} THEN [verdict |-> "deny", model |-> model]
    ELSE [verdict |-> "transform", model |-> MostCapable(policy.tiers)]

\* An off-mission call is denied whatever its policy allows.
EvaluateProxy(call, policies) ==
    IF MissionAligned(call) THEN Routed(call.model, MatchPolicy(call, policies))
    ELSE [verdict |-> "deny", model |-> call.model]

\* The evidence sealed for a verdict; two verdicts on one call have one id.
AuditInput(id, call, policies) ==
    [id |-> id, evaluation |-> EvaluateProxy(call, policies),
     matched |-> MatchPolicy(call, policies)]

Policy(id, workstream, tiers, status) ==
    [id |-> id, workstream |-> workstream, tiers |-> tiers, status |-> status]

\* A workstream's proposals of one kind have one id.
Proposed(kind, workstream, tiers) ==
    [kind |-> kind, policy |-> Policy(<<kind, workstream>>, workstream, tiers, "proposed")]

Group(calls, w) == {c \in {calls[id] : id \in DOMAIN calls} : c.workstream = w}

\* A mistake: only a policy of the very name counts.
GovernedByName(calls, w, policies) ==
    \E i \in DOMAIN policies : policies[i].status = "active" /\ policies[i].workstream = w

Governed(calls, w, policies) == \E c \in Group(calls, w) : Matching(c, policies) # {}

\* The proposer looks at the calls of one workstream together.  It proposes to hold
\* off-mission work, over and over, and to send ungoverned simple work to Haiku.
ProposePolicies(calls, policies) ==
    LET Streamed == {calls[id].workstream : id \in DOMAIN calls}
        Aligned == {w \in Streamed : \E c \in Group(calls, w) : MissionAligned(c)}
    IN  {Proposed("mission-alignment", w, {}) : w \in Streamed \ Aligned} \cup
        {Proposed("model-routing", w, {"haiku"}) : w \in
            {a \in Aligned : /\ ~Governed(calls, a, policies)
                             /\ \A c \in Group(calls, a) : c.low
                             /\ \E c \in Group(calls, a) : c.model # "haiku"}}

RatifyProposal(proposal) == [proposal.policy EXCEPT !.status = "active"]
=============================================================================
