-------------------------------- MODULE Seed --------------------------------
(***************************************************************************)
(* gordap-seed: it fills the seven tables with the synthetic corpus of     *)
(* internal/synth, one CopyFrom per batch and no transaction around them.  *)
(* A run can be stopped between any two statements (a lost connection, a   *)
(* kill), and is then started again, with or without -truncate and with    *)
(* another -n.                                                             *)
(*                                                                         *)
(* A row stands for the index synth makes it from; the IDN fixtures are    *)
(* the domains with negative rows.                                         *)
(***************************************************************************)
EXTENDS Integers, FiniteSets, Sequences

CONSTANTS
  Sizes,     \* the values of -n
  Batch,     \* -batch
  Fixtures,  \* the number of IDNFixtures
  MaxRuns    \* bound on the runs of the seeder

ASSUME SeedAssumption ==
  /\ Sizes \subseteq Nat \ {0} /\ Batch \in Nat \ {0}
  /\ Fixtures \in Nat /\ MaxRuns \in Nat

VARIABLES
  db,      \* the rows of each table
  seeder,  \* the current run: what it does next, its flags, its exit
  before,  \* what the database held when the run began
  runs     \* the number of runs so far

seedVars == <<db, seeder, before, runs>>

Table ==
  {"entities", "nameservers", "entity_emails", "entity_phones",
   "domains", "domain_nameservers", "domain_contacts"}

\* synth.NameserverForDomain and synth.EntityForDomain
NameserverForDomain(i) == i \div 10
EntityForDomain(i) == i

\* The rows that schema.sql makes row i of table t refer to.
References(t, i) ==
  CASE t \in {"entity_emails", "entity_phones"} -> {<<"entities", i>>}
    [] t = "domain_nameservers" -> {<<"domains", i>>, <<"nameservers", NameserverForDomain(i)>>}
    [] t = "domain_contacts" -> {<<"domains", i>>, <<"entities", EntityForDomain(i)>>}
    [] OTHER -> {}

\* The primary and foreign keys let rows be added to t.
Admits(t, rows) ==
  /\ rows \cap db[t] = {}
  /\ \A i \in rows : \A ref \in References(t, i) : ref[2] \in db[ref[1]]

\* The tables that TRUNCATE TABLE t CASCADE empties; domains refer to entities by their
\* registrar_handle, which the seeder leaves null.
Cascade(t) ==
  {t} \cup CASE t = "domains" -> {"domain_nameservers", "domain_contacts"}
             [] t = "nameservers" -> {"domain_nameservers"}
             [] t = "entities" -> Table \ {"nameservers"}
             [] OTHER -> {}

\* Mutant: entities are truncated first.
TruncateEntitiesFirst ==
  <<"entities", "domain_contacts", "domain_nameservers", "entity_emails", "entity_phones",
    "domains", "nameservers">>

\* truncateTables, one statement per table
TruncateOrder ==
  <<"domain_contacts", "domain_nameservers", "entity_emails", "entity_phones",
    "domains", "nameservers", "entities">>

\* The calls of flush for n rows of t: full batches, then what is left of them.
Batches(t, n) ==
  [b \in 1..((n + Batch - 1) \div Batch) |->
     [table |-> t, rows |-> {i \in 0..(n - 1) : i \div Batch = b - 1}]]

\* seedDomains: the domains, then the IDN fixtures
DomainBatches(n) ==
  Batches("domains", n) \o <<[table |-> "domains", rows |-> (-Fixtures)..(-1)]>>

\* seedDomainNameservers and seedDomainContacts
JoinBatches(n) == Batches("domain_nameservers", n) \o Batches("domain_contacts", n)

\* Mutant: the joins come before the domains.
PlanJoinsEarly(n) ==
  Batches("entities", n) \o Batches("nameservers", (n + 9) \div 10)
  \o Batches("entity_emails", n) \o Batches("entity_phones", n)
  \o JoinBatches(n) \o DomainBatches(n)

\* main: the seven seed functions in the order of their references
Plan(n) ==
  Batches("entities", n) \o Batches("nameservers", (n + 9) \div 10)
  \o Batches("entity_emails", n) \o Batches("entity_phones", n)
  \o DomainBatches(n) \o JoinBatches(n)

Empty == [t \in Table |-> {}]

SeedInit ==
  /\ db = Empty /\ before = Empty /\ runs = 0
  /\ seeder = [pc |-> "none", at |-> 0, n |-> 0, truncate |-> FALSE]

StartSeeder(n, truncate) ==
  /\ seeder.pc \notin {"truncate", "insert"} /\ runs < MaxRuns
  /\ seeder' = [pc |-> IF truncate THEN "truncate" ELSE "insert", at |-> 1,
                n |-> n, truncate |-> truncate]
  /\ before' = db /\ runs' = runs + 1
  /\ UNCHANGED db

TruncateNext ==
  /\ seeder.pc = "truncate"
  /\ db' = [t \in Table |-> IF t \in Cascade(TruncateOrder[seeder.at]) THEN {} ELSE db[t]]
  /\ seeder' = IF seeder.at < Len(TruncateOrder)
               THEN [seeder EXCEPT !.at = @ + 1] ELSE [seeder EXCEPT !.pc = "insert", !.at = 1]
  /\ UNCHANGED <<before, runs>>

\* CopyFrom adds a batch whole ...
Flush ==
  LET batch == Plan(seeder.n)[seeder.at]
  IN  /\ seeder.pc = "insert" /\ Admits(batch.table, batch.rows)
      /\ db' = [db EXCEPT ![batch.table] = @ \cup batch.rows]
      /\ seeder' = IF seeder.at < Len(Plan(seeder.n))
                   THEN [seeder EXCEPT !.at = @ + 1] ELSE [seeder EXCEPT !.pc = "complete"]
      /\ UNCHANGED <<before, runs>>

\* ... or, on a constraint, not at all, and the run ends.
FlushRejected ==
  LET batch == Plan(seeder.n)[seeder.at]
  IN  /\ seeder.pc = "insert" /\ ~Admits(batch.table, batch.rows)
      /\ seeder' = [seeder EXCEPT !.pc = "rejected"]
      /\ UNCHANGED <<db, before, runs>>

\* The database or the seeder goes away between two statements.
Interrupt ==
  /\ seeder.pc \in {"truncate", "insert"}
  /\ seeder' = [seeder EXCEPT !.pc = "interrupted"]
  /\ UNCHANGED <<db, before, runs>>

SeedNext ==
  \/ \E n \in Sizes, truncate \in BOOLEAN : StartSeeder(n, truncate)
  \/ TruncateNext \/ Flush \/ FlushRejected \/ Interrupt

----------------------------------------------------------------------------

\* What memory.SeedSynthetic puts in the in-memory store for n: a nameserver for every
\* ten domains, each domain with the references it carries inline, and the fixtures.
SeedSynthetic(n) ==
  [entities |-> 0..(n - 1), nameservers |-> 0..((n + 9) \div 10 - 1),
   domains |-> (-Fixtures)..(n - 1)]

\* Seeding is idempotent with -truncate: whatever stopped runs left, of this size or of
\* another, no batch of a truncating run breaks a key; and a run that says "seed
\* complete" leaves just the corpus of its size, the one the in-memory store gets too,
\* each domain and each contact with its joined rows.
SeedsWhole ==
  /\ seeder.pc = "rejected" => ~seeder.truncate
  /\ seeder.pc = "complete" =>
       /\ \A t \in {"entities", "nameservers", "domains"} : db[t] = SeedSynthetic(seeder.n)[t]
       /\ \A t \in Table \ {"nameservers", "domains"} : db[t] = 0..(seeder.n - 1)

\* Without -truncate a run on a database that is not empty changes nothing of it: its
\* first insert fails on the primary key, also after a truncating run that was stopped
\* halfway, since entities are the first inserted and the last truncated.
PlainRerunChangesNothing == ~seeder.truncate /\ before # Empty => db = before

----------------------------------------------------------------------------
(***************************************************************************)
(* The inductive invariant.                                                *)
(***************************************************************************)
\* What the first k batches of a plan put in the tables.
Filled(plan, k) ==
  [t \in Table |-> UNION {plan[j].rows : j \in {j \in 1..k : plan[j].table = t}}]

SeedTypeOK ==
  /\ db \in [Table -> SUBSET Int] /\ before \in [Table -> SUBSET Int] /\ runs \in Nat
  /\ seeder \in [pc : {"none", "truncate", "insert", "complete", "rejected", "interrupted"},
                  at : Nat, n : Nat, truncate : BOOLEAN]
  /\ seeder.pc # "none" => seeder.n \in Sizes

\* The first entity is there whenever anything is; a truncating run has emptied the tables
\* it has come by; an inserting one has added just its batches so far, or nothing yet to
\* what it found.
SeedInv ==
  /\ SeedTypeOK
  /\ db # Empty => 0 \in db["entities"]
  /\ seeder.pc = "truncate" => /\ seeder.truncate /\ seeder.at \in 1..Len(TruncateOrder)
                               /\ \A j \in 1..(seeder.at - 1) : db[TruncateOrder[j]] = {}
  /\ seeder.pc = "insert" =>
       /\ seeder.at \in 1..Len(Plan(seeder.n))
       /\ \/ db = Filled(Plan(seeder.n), seeder.at - 1)
          \/ seeder.at = 1 /\ ~seeder.truncate /\ db = before
  /\ seeder.pc = "complete" => db = Filled(Plan(seeder.n), Len(Plan(seeder.n)))
  /\ seeder.pc = "rejected" => ~seeder.truncate
  /\ ~seeder.truncate /\ before # Empty =>
       /\ db = before
       /\ seeder.pc = "insert" => seeder.at = 1
       /\ seeder.pc # "complete"
=============================================================================
