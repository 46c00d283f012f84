------------------------------ MODULE Contacts -----------------------------
(***************************************************************************)
(* Contacts, from the database to the response: the statements that read   *)
(* them (pkg/rdap/storage/postgres, storage/memory), the redaction by tier *)
(* (pkg/rdap/mapper/redact.go) and the mapping to cards and redaction      *)
(* markers (pkg/rdap/mapper/mapper.go), while the registry changes them.   *)
(*                                                                         *)
(* A contact is a sequence of versions.  A version says what kind of       *)
(* contact it is and which fields are filled in; the contents of a field   *)
(* are identified by the version they were read from.                      *)
(***************************************************************************)
EXTENDS Integers, Sequences, FiniteSets

CONSTANTS
  Handle,        \* the contacts, all of them contacts of one domain
  Shape,         \* the versions considered
  MaxUpdates     \* bound on the changes during a request

Field == {"name", "org", "title", "emails", "phones", "country", "postal"}

Level == {"anonymous", "authenticated", "privileged"}

Backend == {"memory", "postgres"}

\* A contact that is not (or no longer) there.
Gone == [kind |-> "gone", has |-> {}]

ASSUME ShapeAssumption ==
  /\ Shape \subseteq [kind : {"org", "individual"}, has : SUBSET Field]
  /\ MaxUpdates \in Nat

VARIABLES
  storage,   \* which data source is configured
  updates,   \* how often contacts have changed
  versions,  \* of each contact, the versions it has had; the last is stored
  route,     \* "entity", "domain" or "search"
  handle,    \* the entity asked for
  level,     \* Options.Level
  stage,     \* where the request is
  arrived,   \* history: how many versions each contact had when it came
  read,      \* contact |-> version of the row, the emails and the phones read
  outcome,   \* the status of the response
  shown,     \* the response: [handle, field, version] of what the cards show,
  cards,     \* the contacts that have a card,
  redacted   \* and the kinds of field it is marked to have lost

contactVars == <<storage, updates, versions, route, handle, level, stage, arrived, read,
                 outcome, shown, cards, redacted>>

----------------------------------------------------------------------------
Latest(h) == Len(versions[h])

At(h, n) == versions[h][n]

Exists(h) == At(h, Latest(h)) # Gone

\* Contact.Address is set when a column of the address is.
HasAddress(has) == has \cap {"country", "postal"} # {}

\* Mutant: the second branch copies the whole address, as the first one does.
VisibleWholeAddress(lvl, isOrg) ==
  IF lvl = "privileged" THEN Field
  ELSE IF lvl = "authenticated"
  THEN {"org", "emails", "phones", "country", "postal"} \cup (IF isOrg THEN {"name"} ELSE {})
  ELSE {"org", "country"} \cup (IF isOrg THEN {"postal"} ELSE {})

\* The fields RedactContact copies into the view, branch by branch.
Visible(lvl, isOrg) ==
  IF lvl = "privileged" THEN Field
  ELSE IF lvl = "authenticated"
  THEN {"org", "emails", "phones", "country"} \cup (IF isOrg THEN {"name", "postal"} ELSE {})
  ELSE {"org", "country"} \cup (IF isOrg THEN {"postal"} ELSE {})

Marked(lvl, isOrg) ==
  IF lvl = "privileged" \/ isOrg THEN {}
  ELSE IF lvl = "authenticated" THEN {"name", "title"}
  ELSE {"name", "title", "emails", "phones"}

\* Mutant: the title is dropped without a mark.
RedactContactSilent(kind, has, lvl) ==
  LET isOrg == kind = "org" IN
  [shows |-> has \cap Visible(lvl, isOrg),
   address |-> HasAddress(has),
   marks |-> (has \cap (Marked(lvl, isOrg) \ {"title"})) \cup
             (IF lvl # "privileged" /\ ~isOrg /\ HasAddress(has) THEN {"address"} ELSE {})]

\* The view of a contact: the fields it shows, whether it has an address at all,
\* and the marks for what a natural person's contact has lost.
RedactContact(kind, has, lvl) ==
  LET isOrg == kind = "org" IN
  [shows |-> has \cap Visible(lvl, isOrg),
   address |-> HasAddress(has),
   marks |-> (has \cap Marked(lvl, isOrg)) \cup
             (IF lvl # "privileged" /\ ~isOrg /\ HasAddress(has) THEN {"address"} ELSE {})]

Empty(view) == view.shows = {} /\ ~view.address

----------------------------------------------------------------------------
NotRead == [row |-> 0, emails |-> 0, phones |-> 0]

ContactsInit ==
  /\ storage \in Backend
  /\ updates = 0
  /\ versions \in [Handle -> {<<s>> : s \in Shape \cup {Gone}}]
  /\ route \in {"entity", "domain", "search"}
  /\ handle \in Handle
  /\ level \in Level
  /\ stage = "row"
  /\ arrived = [h \in Handle |-> Latest(h)]
  /\ read = [h \in Handle |-> NotRead]
  /\ outcome = 0
  /\ shown = {}
  /\ cards = {}
  /\ redacted = {}

asked == <<storage, route, handle, level, arrived>>
stored == <<versions, updates>>
response == <<shown, cards, redacted>>

Conclude(code) ==
  /\ stage' = "done"
  /\ outcome' = code

\* Everything of a contact, as it is stored.
Snapshot(h) == [row |-> Latest(h), emails |-> Latest(h), phones |-> Latest(h)]

\* Postgres GetDomain, the statement of SearchEntities, and every operation of
\* the in-memory store: one snapshot.
ReadAtOnce ==
  /\ stage = "row" /\ (route # "entity" \/ storage = "memory")
  /\ LET wanted == {h \in IF route = "entity" THEN {handle} ELSE Handle : Exists(h)} IN
     \/ /\ route # "entity" \/ wanted # {}
        /\ read' = [h \in Handle |-> IF h \in wanted THEN Snapshot(h) ELSE NotRead]
        /\ stage' = "map" /\ outcome' = outcome
     \/ /\ route = "entity" /\ wanted = {}
        /\ read' = read
        /\ Conclude(404)
  /\ UNCHANGED <<stored, asked, response>>

\* Postgres GetEntity: the row ...
ReadRow ==
  /\ stage = "row" /\ route = "entity" /\ storage = "postgres"
  /\ IF Exists(handle)
     THEN /\ read' = [read EXCEPT ![handle].row = Latest(handle)]
          /\ stage' = "emails" /\ outcome' = outcome
     ELSE /\ read' = read
          /\ Conclude(404)
  /\ UNCHANGED <<stored, asked, response>>

\* Mutant: the emails come from a copy that lags behind.
ReadEmailsLagging ==
  /\ stage = "emails"
  /\ read' = [read EXCEPT ![handle].emails = arrived[handle]]
  /\ stage' = "phones"
  /\ UNCHANGED <<stored, asked, outcome, response>>

\* ... and, in attachChannels, the emails and then the phones.
ReadEmails ==
  /\ stage = "emails"
  /\ read' = [read EXCEPT ![handle].emails = Latest(handle)]
  /\ stage' = "phones"
  /\ UNCHANGED <<stored, asked, outcome, response>>

ReadPhones ==
  /\ stage = "phones"
  /\ read' = [read EXCEPT ![handle].phones = Latest(handle)]
  /\ stage' = "map"
  /\ UNCHANGED <<stored, asked, outcome, response>>

\* A statement fails: statusFor, writeSearchErr.
ReadFails ==
  /\ storage = "postgres" /\ stage \in {"row", "emails", "phones"}
  /\ Conclude(500)
  /\ UNCHANGED <<stored, asked, read, response>>

----------------------------------------------------------------------------
Read(h) == read[h].row # 0

Kind(h) == At(h, read[h].row).kind

\* The version a field was read from.
Source(h, f) ==
  IF f = "emails" THEN read[h].emails ELSE IF f = "phones" THEN read[h].phones ELSE read[h].row

\* The contact as the mapper gets it: put together from what was read.
Has(h) == {f \in Field : f \in At(h, Source(h, f)).has}

ViewOf(h, lvl) == RedactContact(Kind(h), Has(h), lvl)

Shown(lvl) ==
  UNION {{[handle |-> h, field |-> f, version |-> Source(h, f)] : f \in ViewOf(h, lvl).shows} :
         h \in {g \in Handle : Read(g)}}

\* EntityTopLevel and Domain gather the marks, Entity (in a search) does not.
Marks(lvl) ==
  IF route = "search" THEN {} ELSE UNION {ViewOf(h, lvl).marks : h \in {g \in Handle : Read(g)}}

\* mapper.Domain, EntityTopLevel and Entity: redact, build the cards, gather the
\* marks without duplicates.
Map ==
  /\ stage = "map"
  /\ shown' = Shown(level)
  /\ cards' = {h \in Handle : Read(h) /\ ~Empty(ViewOf(h, level))}
  /\ redacted' = Marks(level)
  /\ Conclude(200)
  /\ UNCHANGED <<stored, asked, read>>

\* The registry changes or deletes a contact, all its tables in one transaction;
\* the in-memory store has no operation that deletes one.
Update(h, s) ==
  /\ stage # "done"
  /\ s = Gone => storage = "postgres"
  /\ updates < MaxUpdates
  /\ updates' = updates + 1
  /\ versions' = [versions EXCEPT ![h] = Append(@, s)]
  /\ UNCHANGED <<asked, stage, read, outcome, response>>

ContactsNext ==
  \/ ReadAtOnce \/ ReadRow \/ ReadEmails \/ ReadPhones \/ ReadFails \/ Map
  \/ \E h \in Handle, s \in Shape \cup {Gone} : Update(h, s)

ContactsSpec == ContactsInit /\ [][ContactsNext]_contactVars

----------------------------------------------------------------------------
\* Types: a response is empty unless its status is 200.
ContactsTypeOK ==
  /\ storage \in Backend /\ route \in {"entity", "domain", "search"}
  /\ handle \in Handle /\ level \in Level
  /\ versions \in [Handle -> Seq(Shape \cup {Gone})]
  /\ updates \in 0..MaxUpdates
  /\ stage \in {"row", "emails", "phones", "map", "done"}
  /\ outcome \in {0, 200, 404, 500}
  /\ arrived \in [Handle -> Nat]
  /\ read \in [Handle -> [row : Nat, emails : Nat, phones : Nat]]
  /\ shown \subseteq [handle : Handle, field : Field, version : Nat]
  /\ cards \subseteq Handle
  /\ redacted \subseteq Field \cup {"address"}
  /\ outcome # 200 => shown = {} /\ cards = {} /\ redacted = {}

\* The policy in the comment on RedactContact: what each tier may be shown of anyone.
Policy == [anonymous     |-> {"org", "country"},
           authenticated |-> {"org", "country", "emails", "phones"},
           privileged    |-> Field]

\* What a tier may not see of a natural person.
PersonalTo(lvl) == Field \ Policy[lvl]

\* Nothing personal is shown beyond the caller's tier: what the response shows
\* comes from a version in which the contact was an organisation, or may be seen
\* of persons; also when the contact changed its kind between the statements of
\* GetEntity (postgres.go) that read it.
PersonsProtected ==
  \A x \in shown : At(x.handle, x.version).kind = "individual" => x.field \notin PersonalTo(level)

\* Every field of a natural person that was read and is not shown is marked as
\* redacted, and no field that is marked is shown of a person (RedactContact,
\* buildRedacted); searches for entities carry no marks.
PersonsMarked ==
  outcome = 200 /\ route # "search" =>
    \A h \in Handle : Read(h) /\ Kind(h) = "individual" =>
      \A f \in Has(h) \ {"country"} :
        LET mark == IF f = "postal" THEN "address" ELSE f IN
        mark \in redacted <=> ~\E x \in shown : x.handle = h /\ x.field = f

\* A higher tier sees all that a lower one sees, in the same state of the request.
TiersNest ==
  stage = "map" => Shown("anonymous") \subseteq Shown("authenticated")
             /\ Shown("authenticated") \subseteq Shown("privileged")

\* What a response shows was stored at some moment of the request, and the
\* channels of an entity are no older than its row: GetEntity may put together
\* several versions, but only in their order.
FromTheRequestsTime ==
  \A x \in shown :
    /\ arrived[x.handle] <= x.version /\ x.version <= Latest(x.handle)
    /\ read[x.handle].row <= x.version

\* A contact that is read at once is shown as it was: lookups of domains and
\* searches never mix two versions.
OneVersionOutsideEntities ==
  route # "entity" => \A x, y \in shown : x.handle = y.handle => x.version = y.version
----------------------------------------------------------------------------
(* The inductive invariant behind these properties.                        *)

\* How the versions that were read of a contact lie to each other and in the
\* time of the request.
InOrder(h) ==
  /\ arrived[h] \in 1..Latest(h)
  /\ stage = "row" => ~Read(h)
  /\ Read(h) => /\ read[h].row \in arrived[h]..Latest(h)
                /\ stage = "phones" => read[h].emails \in read[h].row..Latest(h)
                /\ stage = "map" \/ outcome = 200 => /\ read[h].emails \in read[h].row..Latest(h)
                                                /\ read[h].phones \in read[h].row..Latest(h)
                /\ IF route = "entity" THEN h = handle
                                       ELSE read[h].emails = read[h].row /\ read[h].phones = read[h].row

\* Reads and responses together (postgres.go:425, mapper.go:51): versions are read
\* in order, by one statement outside entity lookups, and a response is exactly
\* what the mapper makes of what was read.
ContactsInv ==
  /\ ContactsTypeOK
  /\ \A h \in Handle : InOrder(h)
  /\ stage # "done" => outcome = 0
  /\ stage \in {"emails", "phones"} => route = "entity"
  /\ outcome = 200 => shown = Shown(level) /\ redacted = Marks(level)
============================================================================
