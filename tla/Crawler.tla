------------------------------- MODULE Crawler -------------------------------
(***************************************************************************)
(* `crawl` drafts a contract for every table of a schema into a review     *)
(* area, file by file, and writes crawl_report.yaml last. A contract that  *)
(* the registry already has is written as it is. Curators edit the area,   *)
(* crawls stop half-way, and `validate-drafts` judges what it finds.       *)
(***************************************************************************)
EXTENDS Integers, FiniteSets

CONSTANTS
  Tables,        \* physical tables, in the order of their names
  DraftIds,      \* dataset ids
  DraftFiles,    \* file names under datasets/
  TableId,       \* _table_identity: layer prefix and stem
  FileName,      \* _file_name: the id with other characters made _
  Registered,    \* ids in the registry a crawl may be given
  NoContract

VARIABLES
  schema,      \* the tables of the source
  comparing,   \* a registry was given
  crawl,       \* where generate_registry is
  undrafted,   \* tables it has still to write
  used,        \* used_names
  area,        \* area[f]: the contract in file f of the review area
  made,        \* datasets/ is there: the area is not empty
  report,      \* the reviews of crawl_report.yaml, {} before it is there
  touched,     \* history: files curators have edited since the area was empty
  verdict      \* the outcome of the last validate-drafts

crawlerVars == <<schema, comparing, crawl, undrafted, used, area, made, report, touched, verdict>>

\* body: the registry's own, a draft of the crawler, or a curator's; refs: its
\* metric, entity and dimension references exist.
Contracts == [id : DraftIds, body : {"registered", "draft", "curated"}, refs : BOOLEAN]
Reviews == [id : DraftIds, status : {"existing_contract_preserved", "new_uncertified_draft"}]

ASSUME CrawlerConstants ==
  /\ Tables \subseteq Nat /\ IsFiniteSet(Tables)
  /\ TableId \in [Tables -> DraftIds] /\ FileName \in [DraftIds -> DraftFiles]
  /\ Registered \subseteq DraftIds
  /\ NoContract \notin Contracts

CrawlerTypeOK ==
  /\ schema \in SUBSET Tables /\ comparing \in BOOLEAN
  /\ crawl \in {"none", "drafting", "writing", "reporting"}
  /\ undrafted \in SUBSET Tables /\ used \in SUBSET DraftFiles
  /\ area \in [DraftFiles -> Contracts \cup {NoContract}] /\ made \in BOOLEAN
  /\ report \in SUBSET Reviews /\ touched \in SUBSET DraftFiles
  /\ verdict \in {"none", "valid", "invalid"}

FilesIn(a) == {f \in DraftFiles : a[f] # NoContract}

CrawlerInit ==
  /\ schema = {} /\ comparing = FALSE
  /\ crawl = "none"
  /\ undrafted = {} /\ used = {}
  /\ area = [f \in DraftFiles |-> NoContract] /\ made = FALSE
  /\ report = {} /\ touched = {}
  /\ verdict = "none"

-----------------------------------------------------------------------------
StartCrawlAnywhere ==   \* a slip: the area is not looked at
  /\ crawl = "none"
  /\ schema' \in (SUBSET Tables) \ {{}} /\ comparing' \in BOOLEAN
  /\ crawl' = "drafting"
  /\ undrafted' = schema' /\ used' = {} /\ touched' = {}
  /\ verdict' = "none"
  /\ UNCHANGED <<area, made, report>>

\* The command refuses an area that is not empty; a schema without tables is
\* not looked at.
StartCrawl ==
  /\ crawl = "none" /\ ~made
  /\ schema' \in (SUBSET Tables) \ {{}} /\ comparing' \in BOOLEAN
  /\ crawl' = "drafting"
  /\ undrafted' = schema' /\ used' = {} /\ touched' = {}
  /\ verdict' = "none"
  /\ UNCHANGED <<area, made, report>>

SameIdTwice == \E t, u \in schema : t # u /\ TableId[t] = TableId[u]

\* All tables are read and drafted before any file is written.
DraftTables ==
  /\ crawl = "drafting"
  /\ IF SameIdTwice THEN crawl' = "none" /\ UNCHANGED made ELSE crawl' = "writing" /\ made' = TRUE
  /\ UNCHANGED <<schema, comparing, undrafted, used, area, report, touched, verdict>>

ContractFor(id) ==
  IF comparing /\ id \in Registered
  THEN [id |-> id, body |-> "registered", refs |-> TRUE]
  ELSE [id |-> id, body |-> "draft", refs |-> TRUE]

NextTable == CHOOSE t \in undrafted : \A u \in undrafted : t <= u

NameNeverTaken(file) == FALSE   \* a slip: the check is missing

\* A file name met before raises, in the middle of the loop.
NameTaken(file) == file \in used

WriteDraft ==
  /\ crawl = "writing" /\ undrafted # {}
  /\ LET id == TableId[NextTable] IN
     IF NameTaken(FileName[id])
     THEN crawl' = "none" /\ UNCHANGED <<undrafted, used, area>>
     ELSE /\ undrafted' = undrafted \ {NextTable}
          /\ used' = used \cup {FileName[id]}
          /\ area' = [area EXCEPT ![FileName[id]] = ContractFor(id)]
          /\ crawl' = IF undrafted = {NextTable} THEN "reporting" ELSE "writing"
  /\ UNCHANGED <<schema, comparing, made, report, touched, verdict>>

ReviewOf(id) ==
  [id |-> id, status |-> IF comparing /\ id \in Registered
                         THEN "existing_contract_preserved" ELSE "new_uncertified_draft"]

WriteReport ==
  /\ crawl = "reporting"
  /\ report' = {ReviewOf(TableId[t]) : t \in schema}
  /\ crawl' = "none"
  /\ UNCHANGED <<schema, comparing, undrafted, used, area, made, touched, verdict>>

\* The process dies, a table cannot be profiled or a file not be written.
StopCrawl ==
  /\ crawl # "none"
  /\ crawl' = "none"
  /\ UNCHANGED <<schema, comparing, undrafted, used, area, made, report, touched, verdict>>

-----------------------------------------------------------------------------
\* A curator fills a contract in, gives it another id, or leaves a reference
\* to something the registry lacks; the crawl may still be running.
EditDraft ==
  /\ \E f \in FilesIn(area), id \in DraftIds, refs \in BOOLEAN :
       /\ area' = [area EXCEPT ![f] = [id |-> id, body |-> "curated", refs |-> refs]]
       /\ touched' = touched \cup {f}
  /\ verdict' = "none"
  /\ UNCHANGED <<schema, comparing, crawl, undrafted, used, made, report>>

\* Somebody clears the area for another crawl.
ClearArea ==
  /\ crawl = "none" /\ made
  /\ made' = FALSE
  /\ area' = [f \in DraftFiles |-> NoContract]
  /\ report' = {} /\ touched' = {} /\ verdict' = "none"
  /\ UNCHANGED <<schema, comparing, crawl, undrafted, used>>

\* validate_crawler_drafts: at least one file, no id twice, and the registry
\* with the drafts in place of their namesakes validates. The report is not
\* looked at.
DraftsValid ==
  /\ FilesIn(area) # {}
  /\ \A f, g \in FilesIn(area) : area[f].id = area[g].id => f = g
  /\ \A f \in FilesIn(area) : area[f].refs

ValidateDrafts ==
  /\ verdict' = IF DraftsValid THEN "valid" ELSE "invalid"
  /\ UNCHANGED <<schema, comparing, crawl, undrafted, used, area, made, report, touched>>

CrawlerNext ==
  \/ StartCrawl \/ DraftTables \/ WriteDraft \/ WriteReport \/ StopCrawl
  \/ EditDraft \/ ClearArea \/ ValidateDrafts

CrawlerSpec == CrawlerInit /\ [][CrawlerNext]_crawlerVars

-----------------------------------------------------------------------------
Holds(f, id) == f \in touched \/ area[f] = ContractFor(id)

(* Once there is a report, the area has a file for every table of the       *)
(* schema, which holds the registry's contract where there is one and an    *)
(* uncertified draft where there is none, unless a curator has edited it;   *)
(* and there is no other file.                                              *)
ReviewAreaComplete ==
  report # {} =>
    /\ \A t \in schema :
         /\ ReviewOf(TableId[t]) \in report
         /\ Holds(FileName[TableId[t]], TableId[t])
    /\ Cardinality(FilesIn(area)) = Cardinality(schema)

(* No crawl writes over a contract that a curator has edited, in an earlier *)
(* crawl's area or in its own.                                              *)
CuratedSurvives ==
  [][\A f \in FilesIn(area) : area[f].body = "curated" /\ area'[f] # area[f] =>
        area'[f] = NoContract \/ area'[f].body = "curated"]_crawlerVars
=============================================================================
