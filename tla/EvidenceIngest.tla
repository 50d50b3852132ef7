---------------------------- MODULE EvidenceIngest ----------------------------
(***************************************************************************)
(* `requirements ingest`: a folder of source files becomes one evidence    *)
(* bundle or an error, and the bundle becomes requirement drafts.  A file  *)
(* is read as a sequence of items (lines, messages, issues, cues) of a     *)
(* kind and a set of words; a text is the set of the words and phrases its *)
(* lower-cased form includes, and its hash is the text itself.             *)
(***************************************************************************)
EXTENDS Selection, FiniteSets

CONSTANTS None,          \* an absent optional value
          FixtureBundle  \* the pinned bundle of --fallback-fixture

SourceTypes == {"customer_call", "proposal", "sow", "slack", "email", "linear", "agent_output"}

DirSynonyms ==
    {[type |-> "customer_call", dirs |-> {"call", "calls", "customer_call", "customer_calls", "transcript",
                                          "transcripts", "meeting", "meetings"}],
     [type |-> "proposal", dirs |-> {"proposal", "proposals"}],
     [type |-> "sow", dirs |-> {"sow", "sows", "statement_of_work", "statements_of_work"}],
     [type |-> "email", dirs |-> {"email", "emails", "mail"}],
     [type |-> "slack", dirs |-> {"slack"}],
     [type |-> "linear", dirs |-> {"linear"}],
     [type |-> "agent_output", dirs |-> {"agent", "agents", "agent_output", "agent_outputs"}]}

TypeOfDir(dir) ==
    IF \E row \in DirSynonyms : dir \in row.dirs
    THEN (CHOOSE row \in DirSynonyms : dir \in row.dirs).type
    ELSE None

TypeOfExtension(ext) ==
    IF ext \in {"slack", "linear"} THEN ext
    ELSE IF ext = "agent" THEN "agent_output"
    ELSE IF ext = "vtt" THEN "customer_call"
    ELSE IF ext \in {"eml", "email", "mbox"} THEN "email"
    ELSE None

\* The manifest's type, else the folder's, else the extension's; None when the file is unclassified.
RouteSourceType(file) ==
    IF file.override # None THEN IF file.override \in SourceTypes THEN file.override ELSE None
    ELSE IF TypeOfDir(file.dir) # None THEN TypeOfDir(file.dir)
    ELSE TypeOfExtension(file.ext)

IsIgnored(file) == file.ext \in {"manifest", "dotfile", "readme", "license"}

\* The places of a set, in the order of the file.
Places(items, at) == Selected([k \in DOMAIN items |-> k], at)

OfKind(items, kind) == {k \in DOMAIN items : items[k].kind = kind}

\* The texts that start at some places and hold the words of the places of their body; no empty ones.
Texts(items, starts, Body(_)) ==
    LET texts == [n \in DOMAIN starts |-> UNION {items[k].words : k \in Body(starts[n])}]
    IN  Selected(texts, {n \in DOMAIN texts : texts[n] # {}})

Until(items, from, Ends(_)) ==
    {k \in DOMAIN items : k >= from /\ \A m \in from..k : ~Ends(m)}

\* A section is what stands below a heading; what stands above the first heading is in no section.
ChunkByHeadings(items) ==
    LET Heading(k) == items[k].kind = "heading"
    IN  Texts(items, Places(items, OfKind(items, "heading")), LAMBDA h : Until(items, h + 1, Heading))

ChunkByParagraphs(items) ==
    LET Blank(k) == items[k].words = {}
        Starts(k) == ~Blank(k) /\ (k = 1 \/ Blank(k - 1))
    IN  Texts(items, Places(items, {k \in DOMAIN items : Starts(k)}), LAMBDA s : Until(items, s, Blank))

WholeDocument(items) == <<UNION {items[k].words : k \in DOMAIN items}>>

LoadDocument(raw) ==
    LET headed == \E k \in DOMAIN raw.items : raw.items[k].kind = "heading"
        chunks == IF headed THEN ChunkByHeadings(raw.items) ELSE ChunkByParagraphs(raw.items)
    IN  IF \A k \in DOMAIN raw.items : raw.items[k].words = {} THEN <<>>
        ELSE IF chunks = <<>> THEN WholeDocument(raw.items) ELSE chunks

Itemwise(raw, kind) ==
    Texts(raw.items, Places(raw.items, OfKind(raw.items, kind)), LAMBDA k : {k})

\* Timed cues, or bracketed lines when there is no cue at all.
LoadTranscript(raw) ==
    IF Itemwise(raw, "cue") # <<>> THEN Itemwise(raw, "cue") ELSE Itemwise(raw, "bracketed")

\* One text per message of the thread; separators part the messages.
LoadEmail(raw) ==
    LET Separator(k) == raw.items[k].kind = "separator"
        Starts(k) == k = 1 \/ Separator(k)
        starts == Places(raw.items, {k \in DOMAIN raw.items : Starts(k)})
    IN  Texts(raw.items, starts, LAMBDA s : {s} \cup Until(raw.items, s + 1, Separator))

LoadSlack(raw) == IF raw.shape = "list" THEN Itemwise(raw, "message") ELSE <<>>

LoadLinear(raw) == IF raw.shape = "list" THEN Itemwise(raw, "issue") ELSE <<>>

LoadAgentOutput(raw) ==
    IF raw.shape = "object" /\ raw.agentOutputId # None THEN Itemwise(raw, "line") ELSE <<>>

\* The texts of a file; every loader refuses a file it finds no text in.
Load(file) ==
    CASE RouteSourceType(file) = "customer_call" -> LoadTranscript(file.raw)
      [] RouteSourceType(file) \in {"proposal", "sow"} -> LoadDocument(file.raw)
      [] RouteSourceType(file) = "email" -> LoadEmail(file.raw)
      [] RouteSourceType(file) = "slack" -> LoadSlack(file.raw)
      [] RouteSourceType(file) = "linear" -> LoadLinear(file.raw)
      [] RouteSourceType(file) = "agent_output" -> LoadAgentOutput(file.raw)
      [] OTHER -> <<>>

Candidates(files) == {i \in DOMAIN files : ~IsIgnored(files[i])}
Loaded(files) == Selected(files, {i \in Candidates(files) : Load(files[i]) # <<>>})
Failures(files) == Selected(files, {i \in Candidates(files) : Load(files[i]) = <<>>})

\* The chunks of the loaded files, each committed to the text it quotes.
ChunksOf(files) ==
    [i \in DOMAIN files |->
        [n \in DOMAIN Load(files[i]) |-> [sourceId |-> files[i].path, hash |-> Load(files[i])[n]]]]

Flatten(seqs) ==
    LET upTo[n \in 0..Len(seqs)] == IF n = 0 THEN <<>> ELSE upTo[n - 1] \o seqs[n]
    IN  upTo[Len(seqs)]

AgentOutputs(files) ==
    Selected(files, {i \in DOMAIN files : RouteSourceType(files[i]) = "agent_output"})

\* The bundle's contract: no two agent outputs of one id (the other ids are derived, and distinct).
BundleValid(files) ==
    \A i, j \in DOMAIN AgentOutputs(files) :
        AgentOutputs(files)[i].raw.agentOutputId = AgentOutputs(files)[j].raw.agentOutputId => i = j

Given(flag, declared) == IF flag # None THEN flag ELSE declared

\* The bundle of a folder, or None and the command fails.
IngestFolder(folder, opts) ==
    LET goal == Given(opts.goal, folder.manifest.goal)
        deal == Given(opts.deal, folder.manifest.deal)
        loaded == Loaded(folder.files)
    IN  IF \/ ~folder.manifest.valid
           \/ goal = None /\ deal = None
           \/ Failures(folder.files) # <<>> /\ ~opts.skipErrors
        THEN None
        ELSE IF loaded = <<>> THEN IF opts.fallbackFixture /\ ~opts.skipErrors THEN FixtureBundle ELSE None
        ELSE IF ~BundleValid(loaded) THEN None
        ELSE [goal |-> goal, deal |-> deal, sources |-> [i \in DOMAIN loaded |-> loaded[i].path],
              chunks |-> Flatten(ChunksOf(loaded))]

(* --- drafting requirements from a bundle --- *)

HardModals == {"must", "shall", "required", "requires", "mandatory", "obligation", "obligated",
               "contractual", "solely within", "only within", "may not", "shall not", "must not",
               "prohibited"}
SoftModals == {"should", "recommended", "encouraged", "preferred", "nice to have", "may"}

Severity(words) ==
    IF words \cap HardModals # {} THEN "hard" ELSE IF words \cap SoftModals # {} THEN "soft" ELSE None

ScopeRules ==
    {[tokens |-> {"residency", "resident", "data center", "data centre", "eea", "gdpr", "privacy",
                  "personal data"},
      surfaces |-> {"deal-proposal", "launch-plan", "customer-facing-status-update"}],
     [tokens |-> {"owner", "workstream", "accountable", "responsible"}, surfaces |-> {"owner-assignment"}],
     [tokens |-> {"launch", "go-live", "go live", "deploy", "production"}, surfaces |-> {"launch-plan"}],
     [tokens |-> {"sign", "countersign", "dpa", "agreement", "contract"},
      surfaces |-> {"launch-plan", "owner-assignment"}],
     [tokens |-> {"status", "customer-facing", "report", "update"},
      surfaces |-> {"customer-facing-status-update"}],
     [tokens |-> {"pricing", "commercial", "proposal", "sow"}, surfaces |-> {"deal-proposal"}]}

Scope(words) ==
    LET hit == UNION {rule.surfaces : rule \in {s \in ScopeRules : s.tokens \cap words # {}}}
    IN  IF hit # {} THEN hit ELSE {"deal-proposal"}

OwnerRules ==
    <<[tokens |-> {"residency", "data center", "data centre", "encryption", "security", "gdpr",
                   "personal data", "privacy"},
       role |-> "Security"],
      [tokens |-> {"dpa", "countersign", "agreement", "contract", "legal", "liability", "indemn.",
                   "indemnity"},
       role |-> "Legal"],
      [tokens |-> {"co-marketing", "comarketing", "press release", "marketing", "brand"},
       role |-> "Marketing"],
      [tokens |-> {"workstream", "deploy", "infrastructure", "engineering", "technical", "go-live"},
       role |-> "Engineering"],
      [tokens |-> {"pricing", "commercial", "revenue", "proposal"}, role |-> "Product"]>>

\* The first rule that applies names the role.
OwnerRole(words) ==
    LET applying == Selected(OwnerRules, {k \in DOMAIN OwnerRules : OwnerRules[k].tokens \cap words # {}})
    IN  IF applying # <<>> THEN applying[1].role ELSE "Unassigned"

\* A mistake: the quote is taken without comparing it to the hash.
GroundedUnchecked(chunk, quote) == quote # {} /\ Severity(quote) # None

\* A quote grounds a candidate when it states an obligation and still hashes to its chunk.
Grounded(chunk, quote) == quote # {} /\ Severity(quote) # None /\ quote = chunk.hash

\* The drafts of a bundle in the order of its chunk ids, one per statement; resolve gives the quotes.
Proposals(bundle, resolve) ==
    LET grounded == {k \in DOMAIN bundle.chunks : Grounded(bundle.chunks[k], resolve[k])}
        fresh == Places(bundle.chunks, {k \in grounded : \A j \in grounded : j < k => resolve[j] # resolve[k]})
    IN  [n \in DOMAIN fresh |->
            LET quote == resolve[fresh[n]]
            IN  [deal |-> bundle.deal, text |-> quote, ownerRole |-> OwnerRole(quote),
                 severity |-> Severity(quote), scope |-> Scope(quote),
                 evidenceRefs |-> {bundle.chunks[fresh[n]].sourceId}, createdBy |-> "proposal"]]
===============================================================================
