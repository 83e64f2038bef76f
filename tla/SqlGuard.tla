------------------------------- MODULE SqlGuard -------------------------------
(***************************************************************************)
(* What stands between the text of a spec and the tables it may read:       *)
(* render turns templates into qualified names, validate_select looks at    *)
(* the tables and CTE names of the syntax tree without regard to scope, and *)
(* DuckDB then binds each name in its scope. A query is a tree of numbered  *)
(* blocks; block 1 is the outermost, every other one is a CTE or a subquery *)
(* of a block before it.                                                    *)
(***************************************************************************)
EXTENDS Integers, FiniteSets

CONSTANTS
  Blocks,      \* 1..n
  Names,       \* identifiers as written
  Folded,      \* Folded[x]: the identifier DuckDB compares, without case
  Catalog,     \* folded names that bind without a qualifier: system views
  Relations,   \* tables of the warehouse
  Declared,    \* those the spec declares as inputs
  Texts,       \* the queries that are offered: see TextType
  NoText

\* A reference: a template, a qualified name as written, or a bare name.
References == [by : {"template", "qualified"}, to : Relations] \cup [by : {"bare"}, to : Names]

\* plain: one SELECT without table functions and recursive CTEs. within[b] is
\* the block that b is part of and cte[b] its name there, "" for a subquery.
TextType ==
  [plain : BOOLEAN, within : [Blocks -> Blocks], cte : [Blocks -> Names \cup {""}],
   reads : [Blocks -> SUBSET References]]

ASSUME GuardConstants ==
  /\ Blocks \subseteq Nat /\ 1 \in Blocks
  /\ Folded \in [Names -> Names] /\ Catalog \subseteq Names
  /\ Declared \subseteq Relations
  /\ Texts \subseteq TextType /\ NoText \notin Texts

VARIABLES text, guarded   \* the query, and how far it has come

guardVars == <<text, guarded>>

GuardTypeOK ==
  /\ text \in Texts \cup {NoText}
  /\ guarded \in {"none", "offered", "rendered", "accepted", "refused", "executed", "unbound"}

GuardInit == text = NoText /\ guarded = "none"

OfferText ==
  /\ guarded = "none"
  /\ text' \in Texts
  /\ guarded' = "offered"

Ctes == {b \in Blocks : text.cte[b] # ""}
AllReferences == UNION {text.reads[b] : b \in Blocks}

-----------------------------------------------------------------------------
\* render: a template of an undeclared input is an error.
Renders == \A r \in AllReferences : r.by = "template" => r.to \in Declared

Render ==
  /\ guarded = "offered"
  /\ guarded' = IF Renders THEN "rendered" ELSE "refused"
  /\ UNCHANGED text

CteNames == {Folded[text.cte[b]] : b \in Ctes}

NothingShadows == FALSE   \* a slip: the check is missing

\* _resolves: a CTE may not have the name of anything that binds anyhow.
Shadowing == CteNames \cap Catalog # {}

\* The qualified names, and the bare ones that no CTE has in any scope.
Undeclared ==
  {r \in AllReferences :
     IF r.by = "bare" THEN Folded[r.to] \notin CteNames ELSE r.to \notin Declared}

ValidateSelect ==
  /\ guarded = "rendered"
  /\ guarded' = IF text.plain /\ ~Shadowing /\ Undeclared = {} THEN "accepted" ELSE "refused"
  /\ UNCHANGED text

-----------------------------------------------------------------------------
\* DuckDB: a bare name is the CTE of that name in the nearest enclosing
\* block, among the CTEs of one block only an earlier one; failing that, what
\* the catalog has.
Encloses(a, b) ==
  a = b \/ text.within[b] = a \/ (\E m \in Blocks : text.within[b] = m /\ text.within[m] = a)

Visible(c, b) ==
  /\ c \in Ctes /\ Encloses(text.within[c], b)
  /\ \A sibling \in Ctes :
       text.within[sibling] = text.within[c] /\ Encloses(sibling, b) => c < sibling

BindsToCte(b, r) == r.by = "bare" /\ \E c \in Ctes : Visible(c, b) /\ Folded[text.cte[c]] = Folded[r.to]

\* Everything outside the query that executing it reads, and what binds to nothing.
ReadsOutside ==
  {r \in AllReferences : \E b \in Blocks : r \in text.reads[b] /\ ~BindsToCte(b, r)}
BindsToNothing == {r \in ReadsOutside : r.by = "bare" /\ Folded[r.to] \notin Catalog}

Bind ==
  /\ guarded = "accepted"
  /\ guarded' = IF BindsToNothing = {} THEN "executed" ELSE "unbound"
  /\ UNCHANGED text

GuardNext == OfferText \/ Render \/ ValidateSelect \/ Bind
GuardSpec == GuardInit /\ [][GuardNext]_guardVars

-----------------------------------------------------------------------------
(* A statement that is executed reads the declared inputs and its own CTEs, *)
(* though the guard does not look at scopes (sql.py: "an unqualified name   *)
(* can only ever mean a CTE, whatever its scope or declaration order").     *)
ExecutedReadsDeclared ==
  guarded = "executed" =>
    text.plain /\ \A r \in ReadsOutside : r.by # "bare" /\ r.to \in Declared
=============================================================================
