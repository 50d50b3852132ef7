----------------------- MODULE MCRequirementGovernance -----------------------
(***************************************************************************)
(* A small instance: one deal, two sources that state one obligation, the   *)
(* same obligation entered by hand, an amendment that rewords it, and two  *)
(* subjects.                                                               *)
(***************************************************************************)
EXTENDS RequirementGovernance, MCSignalHarness, TLC

Residency == {"data", "residency", "must"}
Ownership == {"workstream", "owner", "should"}

Text(words) == [kind |-> "text", words |-> words]
Blank == [kind |-> "text", words |-> {}]
Line(words) == [kind |-> "line", words |-> words]

File(path, dir, ext, override, raw) ==
    [path |-> path, dir |-> dir, ext |-> ext, override |-> override, raw |-> raw]

Document(items) == [shape |-> "text", items |-> items, agentOutputId |-> None]

Contract == File("dpa", "sow", "md", None, Document(<<Text(Residency), Blank, Text({"minutes", "attached"})>>))
Proposal == File("proposal", "misc", "md", "proposal",
                 Document(<<Text(Residency), [kind |-> "heading", words |-> {"terms"}], Text({"price"})>>))
Readme == File("readme", "", "readme", None, Document(<<Text({"must"})>>))
Broken == File("thread", "slack", "slack", None, Document(<<Text(Residency)>>))

Manifest == [valid |-> TRUE, goal |-> "expansion", deal |-> "acme"]

MCFolders ==
    {[manifest |-> Manifest, files |-> <<Readme, Contract, Proposal, Broken>>],
     [manifest |-> Manifest, files |-> <<Readme>>]}

MCIngestOptions ==
    {[goal |-> None, deal |-> None, skipErrors |-> skip, fallbackFixture |-> TRUE] : skip \in BOOLEAN}

MCFixtureBundle ==
    [goal |-> "expansion", deal |-> "acme", sources |-> <<"dpa">>,
     chunks |-> <<[sourceId |-> "dpa", hash |-> Residency]>>]

MCNameWords ==
    [acme |-> {}, Security |-> {"security"}, Engineering |-> {"engineering"}, Product |-> {"product"},
     Unassigned |-> {"unassigned"}]
    @@ ("deal-proposal" :> {"deal", "proposal"}) @@ ("launch-plan" :> {"launch", "plan"})
    @@ ("owner-assignment" :> {"owner", "assignment"})
    @@ ("customer-facing-status-update" :> {"customer", "facing", "status", "update"})
    @@ ("send-update" :> {"send", "update"}) @@ ("gmail" :> {"gmail"})

MCAlike == {<<"database", "data">>, <<"data", "database">>, <<"owner", "owners">>, <<"owners", "owner">>}

Silent == [reportedStatus |-> "on-track", droppedRequirements |-> {}, summary |-> {"launch"},
           artifacts |-> {"ready"}]
Update == [tool |-> "gmail", action |-> "send-update", target |-> {},
           args |-> [status |-> "on-track", drops |-> {{"database", "residency"}}, overrides |-> {},
                     owners |-> {}, summary |-> {}]]

MCSubjects == {AgentOutputSubject(Silent), InterceptedActionSubject(Update)}

MCOperatorDrafts ==
    {[deal |-> "acme", text |-> Residency, ownerRole |-> "Security", severity |-> "hard",
      scope |-> {"launch-plan"}, evidenceRefs |-> {}, createdBy |-> "operator"]}

MCAmendments == {[text |-> Ownership, severity |-> "hard"], [text |-> {}]}

MCOwnerPanels == {<<"Product", "Product">>}
===============================================================================
