------------------------- MODULE RequirementLifecycle -------------------------
(***************************************************************************)
(* What the requirement store promises of a requirement, whatever the      *)
(* texts, the amendments and the readers: it is proposed once, decided     *)
(* once, carries the approver of that decision for the rest of its life,   *)
(* and never leaves a terminal status.                                     *)
(***************************************************************************)
CONSTANTS Ids, Approvers, NoApprover

VARIABLE life   \* one record [id, status, approver] per known requirement

Known(id) == \E r \in life : r.id = id

Step(r, status, approver) ==
    life' = (life \ {r}) \cup {[r EXCEPT !.status = status, !.approver = approver]}

Init == life = {}

Propose(id) ==
    /\ ~Known(id)
    /\ life' = life \cup {[id |-> id, status |-> "proposed", approver |-> NoApprover]}

Approve(r, by) == r.status = "proposed" /\ Step(r, "active", by)

Reject(r) == r.status = "proposed" /\ Step(r, "rejected", r.approver)

Retire(r) == r.status = "active" /\ Step(r, "retired", r.approver)

Next ==
    \/ \E id \in Ids : Propose(id)
    \/ \E r \in life : (\E by \in Approvers : Approve(r, by)) \/ Reject(r) \/ Retire(r)

Spec == Init /\ [][Next]_life
===============================================================================
