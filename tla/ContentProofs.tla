--------------------------- MODULE ContentProofs ---------------------------
(***************************************************************************)
(* What clients are shown and what they find: proofs about the contacts in *)
(* a response, the patterns of searches and the walks through their pages. *)
(***************************************************************************)
EXTENDS Search, Contacts, FiniteSetTheorems, WellFoundedInduction, TLAPS

\* A leaf that names no prover is tried with SMT, if need be again with more time, then with Zenon.
USE SMT, SMTT(10), SMTT(30), Zenon

(***************************************************************************)
(* Contacts, for any contacts, any versions of them and any number of      *)
(* changes: what is shown of persons, what is marked, and from which       *)
(* versions it comes.                                                      *)
(***************************************************************************)

\* RedactContact shows a field if the contact has it and the tier may see it of a
\* contact of its kind.
LEMMA ViewShows ==
  ASSUME NEW h, NEW lvl
  PROVE  /\ Kind(h) = "org" => ViewOf(h, lvl).shows = Has(h) \cap Visible(lvl, TRUE)
         /\ Kind(h) # "org" => ViewOf(h, lvl).shows = Has(h) \cap Visible(lvl, FALSE)
BY Zenon DEF ViewOf, RedactContact

\* What Shown holds, element by element.
LEMMA ShownMember ==
  ASSUME NEW lvl, NEW x
  PROVE  x \in Shown(lvl) <=>
           \E h \in Handle, f \in Field :
             /\ f \in ViewOf(h, lvl).shows /\ Read(h)
             /\ x = [handle |-> h, field |-> f, version |-> Source(h, f)]
<1>1. ASSUME NEW h PROVE ViewOf(h, lvl).shows \subseteq Field
  BY Zenon DEF ViewOf, RedactContact, Has
<1> QED BY <1>1 DEF Shown

\* The tiers of RedactContact are a chain.
LEMMA VisibleGrows ==
  ASSUME NEW isOrg
  PROVE  /\ Visible("anonymous", isOrg) \subseteq Visible("authenticated", isOrg)
         /\ Visible("authenticated", isOrg) \subseteq Visible("privileged", isOrg)
BY Zenon DEF Visible, Field

\* A higher tier sees what a lower one sees (RedactContact).
THEOREM TiersTheorem == ContactsSpec => []TiersNest
<1>1. TiersNest
  <2>1. ASSUME NEW h
        PROVE  /\ ViewOf(h, "anonymous").shows \subseteq ViewOf(h, "authenticated").shows
               /\ ViewOf(h, "authenticated").shows \subseteq ViewOf(h, "privileged").shows
    <3>1. CASE Kind(h) = "org"
      BY <3>1, ViewShows, VisibleGrows, ZenonT(30)
    <3>2. CASE Kind(h) # "org"
      BY <3>2, ViewShows, VisibleGrows, ZenonT(30)
    <3> QED BY <3>1, <3>2, ZenonT(30)
  <2> QED BY <2>1, ShownMember DEF TiersNest
<1> QED BY <1>1, PTL

----------------------------------------------------------------------------
\* Types are kept by a step that keeps the types of what it changes.
LEMMA TypesKept ==
  ASSUME ContactsTypeOK,
         storage' = storage, route' = route, handle' = handle, level' = level, arrived' = arrived,
         versions' \in [Handle -> Seq(Shape \cup {Gone})],
         updates' \in 0..MaxUpdates,
         stage' \in {"row", "emails", "phones", "map", "done"},
         outcome' \in {0, 200, 404, 500},
         read' \in [Handle -> [row : Nat, emails : Nat, phones : Nat]],
         shown' \subseteq [handle : Handle, field : Field, version : Nat],
         cards' \subseteq Handle,
         redacted' \subseteq Field \cup {"address"},
         outcome' # 200 => shown' = {} /\ cards' = {} /\ redacted' = {}
  PROVE  ContactsTypeOK'
<1>1. /\ storage' \in Backend /\ route' \in {"entity", "domain", "search"}
      /\ handle' \in Handle /\ level' \in Level
      /\ arrived' \in [Handle -> Nat]
  BY DEF ContactsTypeOK
<1>2. (outcome # 200 => shown = {} /\ cards = {} /\ redacted = {})'
  OBVIOUS
<1> QED BY <1>1, <1>2, ZenonT(30) DEF ContactsTypeOK

\* What the invariant says of types and of a request that is not answered.
LEMMA Types == ContactsInv => ContactsTypeOK /\ (outcome # 200 => shown = {} /\ cards = {} /\ redacted = {})
BY DEF ContactsInv, ContactsTypeOK

\* A step that changes nothing keeps the invariant.
LEMMA Unchanged ==
  ASSUME ContactsInv,
         arrived' = arrived, versions' = versions, updates' = updates, read' = read,
         route' = route, handle' = handle, level' = level, storage' = storage,
         shown' = shown, cards' = cards, redacted' = redacted,
         stage' = stage, outcome' = outcome
  PROVE  ContactsInv'
<1>1. ContactsTypeOK'
  <2>1. /\ versions' \in [Handle -> Seq(Shape \cup {Gone})] /\ updates' \in 0..MaxUpdates
        /\ outcome' \in {0, 200, 404, 500} /\ stage' \in {"row", "emails", "phones", "map", "done"}
        /\ read' \in [Handle -> [row : Nat, emails : Nat, phones : Nat]]
    BY Types DEF ContactsTypeOK
  <2>2. /\ shown' \subseteq [handle : Handle, field : Field, version : Nat]
        /\ cards' \subseteq Handle /\ redacted' \subseteq Field \cup {"address"}
    BY Types DEF ContactsTypeOK
  <2> QED BY <2>1, <2>2, Types, TypesKept
<1>2. ASSUME NEW h \in Handle PROVE InOrder(h)'
  BY DEF ContactsInv, InOrder, Latest, Read
<1>3. Shown(level)' = Shown(level)
  BY DEF Shown, ViewOf, Kind, Has, Source, At, Read
<1>4. Marks(level)' = Marks(level)
  BY DEF Marks, ViewOf, Kind, Has, Source, At, Read
<1> QED BY <1>1, <1>2, <1>3, <1>4, Zenon DEF ContactsInv

\* The first state satisfies the invariant.
LEMMA InitInv == ContactsInit => ContactsInv
<1> SUFFICES ASSUME ContactsInit PROVE ContactsInv
  BY Zenon
<1> USE DEF ContactsInit, NotRead
<1>1. PICK v \in [Handle -> {<<s>> : s \in Shape \cup {Gone}}] : versions = v
  BY Zenon
<1>2. \A h \in Handle : versions[h] \in Seq(Shape \cup {Gone}) /\ Len(versions[h]) = 1
  <2> TAKE h \in Handle
  <2>1. PICK s \in Shape \cup {Gone} : versions[h] = <<s>>
    BY <1>1, Zenon
  <2> QED BY <2>1
<1>3. versions \in [Handle -> Seq(Shape \cup {Gone})]
  BY <1>1, <1>2, Zenon
<1>4. ContactsTypeOK
  BY <1>2, <1>3, ShapeAssumption DEF ContactsTypeOK, Backend, Level, Latest
<1>5. ASSUME NEW h \in Handle PROVE InOrder(h)
  <2>1. Latest(h) = 1 /\ arrived[h] = 1 /\ read[h].row = 0
    BY <1>2, Zenon DEF Latest
  <2> QED BY <2>1 DEF InOrder, Read
<1> QED BY <1>4, <1>5 DEF ContactsInv

\* A change appends a version and leaves the others as they are.
LEMMA UpdateInv ==
  ASSUME ContactsInv, NEW h \in Handle, NEW s \in Shape \cup {Gone}, Update(h, s)
  PROVE  ContactsInv'
<1>1. /\ stage' = stage /\ stage # "done" /\ outcome' = outcome /\ read' = read /\ arrived' = arrived
      /\ route' = route /\ handle' = handle /\ level' = level /\ storage' = storage
      /\ shown' = shown /\ cards' = cards /\ redacted' = redacted
      /\ updates < MaxUpdates /\ updates' = updates + 1
      /\ versions' = [versions EXCEPT ![h] = Append(@, s)]
  BY Zenon DEF Update, asked, response
<1>2. outcome = 0
  BY <1>1, Zenon DEF ContactsInv
<1>3. /\ versions' \in [Handle -> Seq(Shape \cup {Gone})]
      /\ \A g \in Handle : Latest(g) \in Nat /\ Latest(g)' \in Nat /\ Latest(g) <= Latest(g)'
  <2>1. versions \in [Handle -> Seq(Shape \cup {Gone})]
    BY Zenon DEF ContactsInv, ContactsTypeOK
  <2>2. ASSUME NEW g \in Handle
        PROVE  /\ versions'[g] \in Seq(Shape \cup {Gone})
               /\ Len(versions[g]) \in Nat /\ Len(versions'[g]) \in Nat
               /\ Len(versions[g]) <= Len(versions'[g])
    <3>1. versions[g] \in Seq(Shape \cup {Gone}) /\ Len(versions[g]) \in Nat
      BY <2>1
    <3>2. versions'[g] = versions[g] \/ versions'[g] = Append(versions[g], s)
      BY <1>1, <2>1, Zenon
    <3> QED BY <3>1, <3>2
  <2>3. versions' = [g \in Handle |-> versions'[g]]
    BY <1>1, <2>1, Zenon
  <2> QED BY <2>2, <2>3, Zenon DEF Latest
<1>4. ContactsTypeOK'
  <2>1. updates' \in 0..MaxUpdates
    BY <1>1, ShapeAssumption DEF ContactsInv, ContactsTypeOK
  <2>2. ContactsTypeOK /\ (outcome' # 200 => shown' = {} /\ cards' = {} /\ redacted' = {})
    BY <1>1, <1>2, Types, Zenon
  <2>3. /\ stage' \in {"row", "emails", "phones", "map", "done"} /\ outcome' \in {0, 200, 404, 500}
        /\ read' \in [Handle -> [row : Nat, emails : Nat, phones : Nat]]
        /\ shown' \subseteq [handle : Handle, field : Field, version : Nat]
        /\ cards' \subseteq Handle /\ redacted' \subseteq Field \cup {"address"}
    BY <1>1, <2>2, ZenonT(30) DEF ContactsTypeOK
  <2> QED BY <1>1, <1>3, <2>1, <2>2, <2>3, TypesKept, ZenonT(30)
<1>5. ASSUME NEW g \in Handle PROVE InOrder(g)'
  <2>1. InOrder(g) /\ arrived[g] \in Nat /\ read[g] \in [row : Nat, emails : Nat, phones : Nat]
    BY DEF ContactsInv, ContactsTypeOK
  <2> QED BY <1>1, <1>2, <1>3, <2>1 DEF InOrder, Read
<1> QED BY <1>1, <1>2, <1>4, <1>5 DEF ContactsInv

\* One statement reads every contact as it is.
LEMMA ReadAtOnceInv ==
  ASSUME ContactsInv, ReadAtOnce
  PROVE  ContactsInv'
<1>1. /\ stage = "row" /\ arrived' = arrived /\ versions' = versions /\ updates' = updates
      /\ route' = route /\ handle' = handle /\ level' = level /\ storage' = storage
      /\ shown' = shown /\ cards' = cards /\ redacted' = redacted
  BY Zenon DEF ReadAtOnce, asked, stored, response
<1>2. outcome = 0
  BY <1>1, Zenon DEF ContactsInv
<1>3. \A h \in Handle : /\ Latest(h) \in Nat /\ Latest(h)' = Latest(h) /\ InOrder(h)
                        /\ arrived[h] \in 1..Latest(h)
                        /\ read[h] \in [row : Nat, emails : Nat, phones : Nat]
                        /\ read[h].row = 0
  BY <1>1 DEF ContactsInv, ContactsTypeOK, Latest, InOrder, Read
<1>4. CASE stage' = "map" /\ outcome' = outcome
  <2> DEFINE wanted == {h \in IF route = "entity" THEN {handle} ELSE Handle : Exists(h)}
  <2>1. read' = [h \in Handle |-> IF h \in wanted THEN Snapshot(h) ELSE NotRead]
    BY <1>4, Zenon DEF ReadAtOnce, Conclude
  <2>2. \A h \in Handle : \/ read'[h] = [row |-> Latest(h), emails |-> Latest(h), phones |-> Latest(h)]
                             /\ (route = "entity" => h = handle)
                          \/ read'[h] = [row |-> 0, emails |-> 0, phones |-> 0]
    BY <2>1, Zenon DEF Snapshot, NotRead
  <2>3. read' \in [Handle -> [row : Nat, emails : Nat, phones : Nat]]
    BY <2>1, <1>3, Zenon DEF Snapshot, NotRead
  <2>4. ContactsTypeOK'
    BY <1>1, <1>2, <1>4, <2>3, Zenon DEF ContactsInv, ContactsTypeOK
  <2>5. ASSUME NEW h \in Handle PROVE InOrder(h)'
    <3>1. Latest(h) \in Nat /\ Latest(h)' = Latest(h) /\ arrived[h] \in 1..Latest(h) /\ arrived' = arrived
      BY <1>1, <1>3, Zenon
    <3>2. CASE read'[h] = [row |-> Latest(h), emails |-> Latest(h), phones |-> Latest(h)]
               /\ (route = "entity" => h = handle)
      <4>1. read'[h].row = Latest(h) /\ read'[h].emails = Latest(h) /\ read'[h].phones = Latest(h)
        BY <3>2
      <4> QED BY <1>1, <1>4, <3>1, <3>2, <4>1 DEF InOrder, Read
    <3>3. CASE read'[h] = [row |-> 0, emails |-> 0, phones |-> 0]
      <4>1. read'[h].row = 0
        BY <3>3
      <4> QED BY <1>4, <3>1, <4>1, Zenon DEF InOrder, Read
    <3> QED BY <2>2, <3>2, <3>3, Zenon
  <2> QED BY <1>1, <1>2, <1>4, <2>4, <2>5 DEF ContactsInv
<1>5. CASE stage' = "done" /\ outcome' = 404 /\ read' = read
  <2>1. ContactsTypeOK'
    <3>1. ContactsTypeOK /\ shown' = {} /\ cards' = {} /\ redacted' = {} /\ outcome' \in {0, 200, 404, 500}
      BY <1>1, <1>2, <1>5, Types
    <3>2. stage' \in {"row", "emails", "phones", "map", "done"}
      BY <1>5, Zenon
    <3> QED BY <1>1, <1>5, <3>1, <3>2, TypesKept, ZenonT(30) DEF ContactsTypeOK
  <2>2. ASSUME NEW h \in Handle PROVE InOrder(h)'
    BY <1>1, <1>2, <1>3, <1>5, Zenon DEF InOrder, Read
  <2> QED BY <1>1, <1>5, <2>1, <2>2 DEF ContactsInv
<1> QED BY <1>4, <1>5, Zenon DEF ReadAtOnce, Conclude

\* Replacing a part of what was read keeps its type.
LEMMA PartsTyped ==
  ASSUME NEW f \in [Handle -> [row : Nat, emails : Nat, phones : Nat]], NEW h \in Handle, NEW n \in Nat
  PROVE  /\ [f EXCEPT ![h].row = n] \in [Handle -> [row : Nat, emails : Nat, phones : Nat]]
         /\ [f EXCEPT ![h].emails = n] \in [Handle -> [row : Nat, emails : Nat, phones : Nat]]
         /\ [f EXCEPT ![h].phones = n] \in [Handle -> [row : Nat, emails : Nat, phones : Nat]]
<1>1. /\ [f[h] EXCEPT !.row = n] \in [row : Nat, emails : Nat, phones : Nat]
      /\ [f[h] EXCEPT !.emails = n] \in [row : Nat, emails : Nat, phones : Nat]
      /\ [f[h] EXCEPT !.phones = n] \in [row : Nat, emails : Nat, phones : Nat]
  BY Zenon
<1> QED BY <1>1, Zenon

\* A step that reads one of the parts of an entity's contact.
LEMMA ReadPartInv ==
  ASSUME ContactsInv, ReadRow \/ ReadEmails \/ ReadPhones
  PROVE  ContactsInv'
<1>1. /\ arrived' = arrived /\ versions' = versions /\ updates' = updates
      /\ route' = route /\ handle' = handle /\ level' = level /\ storage' = storage
      /\ shown' = shown /\ cards' = cards /\ redacted' = redacted
      /\ stage \in {"row", "emails", "phones"}
  BY Zenon DEF ReadRow, ReadEmails, ReadPhones, asked, stored, response
<1>2. outcome = 0 /\ ContactsTypeOK /\ route = "entity" /\ shown = {} /\ cards = {} /\ redacted = {}
  <2>1. outcome = 0 /\ ContactsTypeOK
    BY <1>1, Zenon DEF ContactsInv
  <2>2. route = "entity"
    BY <1>1, Zenon DEF ContactsInv, ReadRow, ReadEmails, ReadPhones
  <2> QED BY <2>1, <2>2, Types
<1>3. /\ handle \in Handle
      /\ \A h \in Handle : /\ Latest(h) \in Nat /\ Latest(h)' = Latest(h) /\ InOrder(h)
                           /\ arrived[h] \in Nat
                           /\ read[h] \in [row : Nat, emails : Nat, phones : Nat]
  BY <1>1, <1>2 DEF ContactsInv, ContactsTypeOK, Latest
<1>4. ASSUME read' \in [Handle -> [row : Nat, emails : Nat, phones : Nat]],
             stage' \in {"row", "emails", "phones", "map", "done"}, outcome' \in {0, 404},
             stage' # "done" => outcome' = 0,
             \A h \in Handle : InOrder(h)'
      PROVE  ContactsInv'
  <2>1. ContactsTypeOK'
    <3>1. /\ versions' \in [Handle -> Seq(Shape \cup {Gone})] /\ updates' \in 0..MaxUpdates
          /\ outcome' \in {0, 200, 404, 500}
      BY <1>1, <1>2, <1>4, ZenonT(30) DEF ContactsTypeOK
    <3> QED BY <1>1, <1>2, <1>4, <3>1, TypesKept
  <2> QED BY <1>1, <1>2, <1>4, <2>1 DEF ContactsInv
<1>5. CASE ReadRow
  <2>1. CASE Exists(handle)
    <3>1. read' = [read EXCEPT ![handle].row = Latest(handle)] /\ stage = "row" /\ stage' = "emails" /\ outcome' = 0
      BY <1>2, <1>5, <2>1, Zenon DEF ReadRow
    <3>2. read' \in [Handle -> [row : Nat, emails : Nat, phones : Nat]]
      <4>1. read \in [Handle -> [row : Nat, emails : Nat, phones : Nat]] /\ handle \in Handle /\ Latest(handle) \in Nat
        BY <1>2, <1>3 DEF ContactsTypeOK
      <4> QED BY <3>1, <4>1, PartsTyped, Zenon
    <3>3. ASSUME NEW h \in Handle PROVE InOrder(h)'
      <4>1. read[h].row = 0 /\ arrived[h] \in 1..Latest(h)
        BY <1>3, <3>1, Zenon DEF InOrder, Read
      <4>2. IF h = handle THEN read'[h].row = Latest(h) ELSE read'[h].row = 0
        BY <1>2, <1>3, <3>1, <4>1 DEF ContactsTypeOK
      <4> QED BY <1>1, <1>2, <1>3, <3>1, <4>1, <4>2 DEF InOrder, Read
    <3> QED BY <1>4, <3>1, <3>2, <3>3, Zenon
  <2>2. CASE ~Exists(handle)
    <3>1. read' = read /\ stage = "row" /\ stage' = "done" /\ outcome' = 404
      BY <1>5, <2>2 DEF ReadRow, Conclude
    <3>2. ASSUME NEW h \in Handle PROVE InOrder(h)'
      BY <1>1, <1>2, <1>3, <3>1, Zenon DEF InOrder, Read
    <3> QED BY <1>2, <1>4, <3>1, <3>2 DEF ContactsTypeOK
  <2> QED BY <2>1, <2>2, Zenon
<1>6. CASE ReadEmails
  <2>1. read' = [read EXCEPT ![handle].emails = Latest(handle)] /\ stage = "emails" /\ stage' = "phones" /\ outcome' = 0
    BY <1>2, <1>6, Zenon DEF ReadEmails
  <2>2. read' \in [Handle -> [row : Nat, emails : Nat, phones : Nat]]
    <3>1. read \in [Handle -> [row : Nat, emails : Nat, phones : Nat]] /\ handle \in Handle /\ Latest(handle) \in Nat
      BY <1>2, <1>3, Zenon DEF ContactsTypeOK
    <3> QED BY <2>1, <3>1, PartsTyped, Zenon
  <2>3. ASSUME NEW h \in Handle PROVE InOrder(h)'
    <3>1. read'[h].row = read[h].row /\ (h = handle => read'[h].emails = Latest(h))
      BY <1>2, <1>3, <2>1 DEF ContactsTypeOK
    <3>2. /\ arrived[h] \in 1..Latest(h)
          /\ read[h].row # 0 => read[h].row \in arrived[h]..Latest(h) /\ h = handle
      BY <1>2, <1>3, Zenon DEF InOrder, Read
    <3> QED BY <1>1, <1>2, <1>3, <2>1, <3>1, <3>2 DEF InOrder, Read
  <2> QED BY <1>4, <2>1, <2>2, <2>3, Zenon
<1>7. CASE ReadPhones
  <2>1. read' = [read EXCEPT ![handle].phones = Latest(handle)] /\ stage = "phones" /\ stage' = "map" /\ outcome' = 0
    BY <1>2, <1>7, Zenon DEF ReadPhones
  <2>2. read' \in [Handle -> [row : Nat, emails : Nat, phones : Nat]]
    <3>1. read \in [Handle -> [row : Nat, emails : Nat, phones : Nat]] /\ handle \in Handle /\ Latest(handle) \in Nat
      BY <1>2, <1>3, Zenon DEF ContactsTypeOK
    <3> QED BY <2>1, <3>1, PartsTyped, Zenon
  <2>3. ASSUME NEW h \in Handle PROVE InOrder(h)'
    <3>1. /\ read'[h].row = read[h].row /\ read'[h].emails = read[h].emails
          /\ h = handle => read'[h].phones = Latest(h)
      BY <1>2, <1>3, <2>1 DEF ContactsTypeOK
    <3>2. /\ arrived[h] \in 1..Latest(h)
          /\ read[h].row # 0 => /\ read[h].row \in arrived[h]..Latest(h) /\ h = handle
                                /\ read[h].emails \in read[h].row..Latest(h)
      BY <1>2, <1>3, <2>1, Zenon DEF InOrder, Read
    <3> QED BY <1>1, <1>2, <1>3, <2>1, <3>1, <3>2 DEF InOrder, Read
  <2> QED BY <1>4, <2>1, <2>2, <2>3, Zenon
<1> QED BY <1>5, <1>6, <1>7, Zenon

\* A failed statement ends the request without a response.
LEMMA ReadFailsInv ==
  ASSUME ContactsInv, ReadFails
  PROVE  ContactsInv'
<1>1. /\ arrived' = arrived /\ versions' = versions /\ updates' = updates /\ read' = read
      /\ route' = route /\ handle' = handle /\ level' = level /\ storage' = storage
      /\ shown' = shown /\ cards' = cards /\ redacted' = redacted
      /\ stage \in {"row", "emails", "phones"} /\ stage' = "done" /\ outcome' = 500
  BY Zenon DEF ReadFails, Conclude, asked, stored, response
<1>2. outcome = 0 /\ ContactsTypeOK /\ shown = {} /\ cards = {} /\ redacted = {}
  BY <1>1, Types DEF ContactsInv
<1>3. ContactsTypeOK'
  <2>1. /\ versions' \in [Handle -> Seq(Shape \cup {Gone})] /\ updates' \in 0..MaxUpdates
        /\ outcome' \in {0, 200, 404, 500} /\ stage' \in {"row", "emails", "phones", "map", "done"}
        /\ read' \in [Handle -> [row : Nat, emails : Nat, phones : Nat]]
    BY <1>1, <1>2 DEF ContactsTypeOK
  <2> QED BY <1>1, <1>2, <2>1, TypesKept, Zenon
<1>4. ASSUME NEW h \in Handle PROVE InOrder(h)'
  <2>1. InOrder(h) /\ Latest(h)' = Latest(h)
    BY <1>1, Zenon DEF ContactsInv, Latest
  <2> QED BY <1>1, <2>1 DEF InOrder, Read
<1> QED BY <1>1, <1>3, <1>4 DEF ContactsInv

\* The mapper answers with what was read.
LEMMA MapInv ==
  ASSUME ContactsInv, Map
  PROVE  ContactsInv'
<1>1. /\ arrived' = arrived /\ versions' = versions /\ updates' = updates /\ read' = read
      /\ route' = route /\ handle' = handle /\ level' = level /\ storage' = storage
      /\ shown' = Shown(level) /\ cards' \subseteq Handle /\ redacted' = Marks(level)
      /\ stage = "map" /\ stage' = "done" /\ outcome' = 200
  BY Zenon DEF Map, Conclude, asked, stored
<1>2. ContactsTypeOK /\ level \in Level /\ \A h \in Handle : InOrder(h)
  BY Zenon DEF ContactsInv, ContactsTypeOK
<1>3. ASSUME NEW h
      PROVE  /\ Read(h)' = Read(h) /\ Kind(h)' = Kind(h) /\ Has(h)' = Has(h)
             /\ \A f : Source(h, f)' = Source(h, f)
  <2>1. \A f : Source(h, f)' = Source(h, f)
    BY <1>1, Zenon DEF Source
  <2>2. Has(h)' = Has(h)
    BY <1>1, <2>1 DEF Has, At, Field
  <2> QED BY <1>1, <2>1, <2>2, Zenon DEF Read, Kind, At
<1>4. ASSUME NEW h PROVE ViewOf(h, level)' = ViewOf(h, level)
  BY <1>1, <1>3, Zenon DEF ViewOf
<1>5. Shown(level)' = Shown(level)
  BY <1>3, <1>4 DEF Shown
<1>6. Marks(level)' = Marks(level)
  BY <1>1, <1>3, <1>4, Zenon DEF Marks
<1>7. shown' \subseteq [handle : Handle, field : Field, version : Nat]
  <2> SUFFICES ASSUME NEW x \in Shown(level)
               PROVE  x \in [handle : Handle, field : Field, version : Nat]
    BY <1>1, Zenon
  <2>1. PICK h \in Handle, f \in Field :
          f \in ViewOf(h, level).shows /\ Read(h) /\ x = [handle |-> h, field |-> f, version |-> Source(h, f)]
    BY ShownMember
  <2>2. Source(h, f) \in Nat
    BY <1>2 DEF Source, ContactsTypeOK
  <2> QED BY <2>1, <2>2, Zenon
<1>8. redacted' \subseteq Field \cup {"address"}
  <2>1. ASSUME NEW h PROVE ViewOf(h, level).marks \subseteq Field \cup {"address"}
    BY Zenon DEF ViewOf, RedactContact, Has
  <2> QED BY <1>1, <2>1, Zenon DEF Marks
<1>9. ContactsTypeOK'
  <2>1. /\ versions' \in [Handle -> Seq(Shape \cup {Gone})] /\ updates' \in 0..MaxUpdates
        /\ outcome' \in {0, 200, 404, 500} /\ stage' \in {"row", "emails", "phones", "map", "done"}
        /\ read' \in [Handle -> [row : Nat, emails : Nat, phones : Nat]]
    BY <1>1, <1>2 DEF ContactsTypeOK
  <2> QED BY <1>1, <1>2, <1>7, <1>8, <2>1, TypesKept
<1>10. ASSUME NEW h \in Handle PROVE InOrder(h)'
  <2>1. InOrder(h) /\ Latest(h)' = Latest(h) /\ Read(h)' = Read(h)
    BY <1>1, <1>2, <1>3, Zenon DEF Latest
  <2> QED BY <1>1, <2>1, Zenon DEF InOrder
<1> QED BY <1>1, <1>5, <1>6, <1>9, <1>10, Zenon DEF ContactsInv

\* Versions are read in order, by one statement outside entity lookups, and a
\* response is exactly what the mapper makes of what was read (GetEntity,
\* attachChannels, RedactContact): inductive for any contacts and changes.
THEOREM ContactsInvariance == ContactsSpec => []ContactsInv
<1>1. ASSUME ContactsInv, [ContactsNext]_contactVars PROVE ContactsInv'
  <2>1. CASE UNCHANGED contactVars
    <3>1. /\ arrived' = arrived /\ versions' = versions /\ updates' = updates /\ read' = read
          /\ route' = route /\ handle' = handle /\ level' = level /\ storage' = storage
          /\ shown' = shown /\ cards' = cards /\ redacted' = redacted
          /\ stage' = stage /\ outcome' = outcome
      BY <2>1, Zenon DEF contactVars
    <3> QED BY <1>1, <3>1, Unchanged, Zenon
  <2>2. CASE \E h \in Handle, s \in Shape \cup {Gone} : Update(h, s)
    BY <1>1, <2>2, UpdateInv, Zenon
  <2> QED BY <1>1, <2>1, <2>2, ReadAtOnceInv, ReadPartInv, ReadFailsInv, MapInv, Zenon DEF ContactsNext
<1> QED BY <1>1, InitInv, PTL DEF ContactsSpec

----------------------------------------------------------------------------
\* Nothing personal is shown beyond the caller's tier, torn reads of GetEntity
\* included.
THEOREM ProtectionTheorem == ContactsSpec => []PersonsProtected
<1>1. ContactsInv => PersonsProtected
  <2> SUFFICES ASSUME ContactsInv, NEW x \in shown, At(x.handle, x.version).kind = "individual"
               PROVE  x.field \notin PersonalTo(level)
    BY Zenon DEF PersonsProtected
  <2>1. shown = Shown(level) /\ level \in Level
    BY Types DEF ContactsInv, ContactsTypeOK
  <2>2. PICK h \in Handle, f \in Field :
          f \in ViewOf(h, level).shows /\ Read(h) /\ x = [handle |-> h, field |-> f, version |-> Source(h, f)]
    BY <2>1, ShownMember
  <2>3. CASE Kind(h) # "org"
    <3>1. f \in Visible(level, FALSE)
      BY <2>2, <2>3, ViewShows, Zenon
    <3> QED BY <2>1, <2>2, <3>1, SMT DEF Visible, PersonalTo, Policy, Level
  <2>4. CASE Kind(h) = "org"
    <3>1. f \in Visible(level, TRUE)
      BY <2>2, <2>4, ViewShows, Zenon
    <3>2. f \in {"emails", "phones"}
      BY <2>2, <2>4, Zenon DEF Source, Kind
    <3> QED BY <2>1, <2>2, <3>1, <3>2, SMT DEF Visible, PersonalTo, Policy, Level
  <2> QED BY <2>3, <2>4, Zenon
<1> QED BY <1>1, ContactsInvariance, PTL

\* What is shown was stored during the request, and the channels of an entity are
\* no older than its row (GetEntity).
THEOREM TimeTheorem == ContactsSpec => []FromTheRequestsTime
<1>1. ContactsInv => FromTheRequestsTime
  <2> SUFFICES ASSUME ContactsInv, NEW x \in shown
               PROVE  /\ arrived[x.handle] <= x.version /\ x.version <= Latest(x.handle)
                      /\ read[x.handle].row <= x.version
    BY Zenon DEF FromTheRequestsTime
  <2>1. outcome = 200 /\ shown = Shown(level)
    BY Types, Zenon DEF ContactsInv
  <2>2. PICK h \in Handle, f \in Field :
          f \in ViewOf(h, level).shows /\ Read(h) /\ x = [handle |-> h, field |-> f, version |-> Source(h, f)]
    BY <2>1, ShownMember
  <2>3. /\ InOrder(h) /\ Latest(h) \in Nat /\ arrived[h] \in Nat
        /\ read[h].row \in Nat /\ read[h].emails \in Nat /\ read[h].phones \in Nat
    BY DEF ContactsInv, ContactsTypeOK, Latest
  <2>4. Source(h, f) \in read[h].row..Latest(h) /\ arrived[h] <= read[h].row
    BY <2>1, <2>2, <2>3 DEF InOrder, Source
  <2> QED BY <2>2, <2>3, <2>4
<1> QED BY <1>1, ContactsInvariance, PTL

\* Lookups of domains and searches never mix two versions of a contact (one
\* statement: GetDomain, SearchEntities).
THEOREM OneVersionTheorem == ContactsSpec => []OneVersionOutsideEntities
<1>1. ContactsInv => OneVersionOutsideEntities
  <2> SUFFICES ASSUME ContactsInv, route # "entity", NEW x \in shown, NEW y \in shown, x.handle = y.handle
               PROVE  x.version = y.version
    BY Zenon DEF OneVersionOutsideEntities
  <2>1. ASSUME NEW z \in shown PROVE z.version = read[z.handle].row
    <3>1. shown = Shown(level)
      BY Types, Zenon DEF ContactsInv
    <3>2. PICK h \in Handle, f \in Field :
            f \in ViewOf(h, level).shows /\ Read(h) /\ z = [handle |-> h, field |-> f, version |-> Source(h, f)]
      BY <3>1, ShownMember
    <3>3. read[h].emails = read[h].row /\ read[h].phones = read[h].row
      BY <3>2, Zenon DEF ContactsInv, InOrder
    <3> QED BY <3>2, <3>3, Zenon DEF Source
  <2> QED BY <2>1, Zenon
<1> QED BY <1>1, ContactsInvariance, PTL

\* What the marks of a contact are (RedactContact).
LEMMA ViewMarks ==
  ASSUME NEW h, NEW lvl
  PROVE  /\ Kind(h) = "org" \/ lvl = "privileged" => ViewOf(h, lvl).marks = {}
         /\ Kind(h) # "org" => ViewOf(h, lvl).marks =
              (Has(h) \cap Marked(lvl, FALSE)) \cup
              (IF lvl # "privileged" /\ HasAddress(Has(h)) THEN {"address"} ELSE {})
BY Zenon DEF ViewOf, RedactContact, Marked

\* A person's fields are either shown or marked, never both and never neither
\* (RedactContact, buildRedacted).
THEOREM MarksTheorem == ContactsSpec => []PersonsMarked
<1>1. ContactsInv => PersonsMarked
  <2> SUFFICES ASSUME ContactsInv, outcome = 200, route # "search",
                      NEW h \in Handle, Read(h), Kind(h) = "individual",
                      NEW f \in Has(h) \ {"country"}
               PROVE  (IF f = "postal" THEN "address" ELSE f) \in redacted
                        <=> ~\E x \in shown : x.handle = h /\ x.field = f
    BY DEF PersonsMarked
  <2> DEFINE mark == IF f = "postal" THEN "address" ELSE f
  <2>1. /\ shown = Shown(level) /\ redacted = Marks(level)
        /\ level \in {"anonymous", "authenticated", "privileged"} /\ f \in Field
    BY DEF ContactsInv, ContactsTypeOK, Level, Has
  <2>2. (\E x \in shown : x.handle = h /\ x.field = f) <=> f \in Visible(level, FALSE)
    <3>1. f \in ViewOf(h, level).shows <=> f \in Visible(level, FALSE)
      BY ViewShows, Zenon
    <3>2. ASSUME f \in ViewOf(h, level).shows PROVE \E x \in shown : x.handle = h /\ x.field = f
      <4> DEFINE x == [handle |-> h, field |-> f, version |-> Source(h, f)]
      <4>1. x \in shown
        BY <2>1, <3>2, ShownMember, Zenon
      <4> QED BY <4>1, Zenon
    <3>3. ASSUME NEW x \in shown, x.handle = h, x.field = f PROVE f \in ViewOf(h, level).shows
      <4>1. PICK g \in Handle, e \in Field :
              e \in ViewOf(g, level).shows /\ Read(g) /\ x = [handle |-> g, field |-> e, version |-> Source(g, e)]
        BY <2>1, ShownMember
      <4> QED BY <3>3, <4>1, Zenon
    <3> QED BY <3>1, <3>2, <3>3, Zenon
  <2>3. redacted = UNION {ViewOf(g, level).marks : g \in {k \in Handle : Read(k)}}
    BY <2>1, Zenon DEF Marks
  <2>4. ASSUME f \notin Visible(level, FALSE) PROVE mark \in redacted
    <3>1. level # "privileged"
      BY <2>1, <2>4, Zenon DEF Visible
    <3>2. CASE f = "postal"
      <4>1. HasAddress(Has(h))
        BY <3>2, Zenon DEF HasAddress
      <4>2. "address" \in ViewOf(h, level).marks
        BY <3>1, <4>1, ViewMarks, Zenon
      <4> QED BY <2>3, <3>2, <4>2, Zenon
    <3>3. CASE f # "postal"
      <4>1. f \in Marked(level, FALSE)
        BY <2>1, <2>4, <3>1, <3>3, Zenon DEF Visible, Marked, Field
      <4> QED BY <2>3, <3>3, <4>1, ViewMarks, ZenonT(30)
    <3> QED BY <3>2, <3>3, Zenon
  <2>5. ASSUME mark \in redacted PROVE f \notin Visible(level, FALSE)
    <3>1. PICK g \in Handle : mark \in ViewOf(g, level).marks
      BY <2>3, <2>5, Zenon
    <3>2. level # "privileged" /\ (mark \in Marked(level, FALSE) \/ mark = "address")
      BY <3>1, ViewMarks, Zenon
    <3> QED BY <2>1, <3>2, Zenon DEF Visible, Marked, Field
  <2> HIDE DEF mark
  <2>6. mark \in redacted <=> ~\E x \in shown : x.handle = h /\ x.field = f
    BY <2>2, <2>4, <2>5, Zenon
  <2> QED BY <2>6, Zenon DEF mark
<1> QED BY <1>1, ContactsInvariance, PTL

----------------------------------------------------------------------------
\* A set of numbers has a least one.
LEMMA LeastNumber ==
  ASSUME NEW T \in SUBSET Nat, T # {}
  PROVE  \E x \in T : \A y \in T : x <= y
<1> DEFINE R == OpToRel(<, Nat)
<1>1. IsWellFoundedOn(R, Nat)
  BY NatLessThanWellFounded, Zenon
<1>2. \A x, y \in Nat : x < y => <<x, y>> \in R
  BY Zenon DEF OpToRel
<1> HIDE DEF R
<1>3. \E x \in T : \A y \in T : ~(<<y, x>> \in R)
  BY <1>1, WFMin, Zenon
<1>4. PICK x \in T : \A y \in T : ~(<<y, x>> \in R)
  BY <1>3, Zenon
<1>5. ASSUME NEW y \in T PROVE x <= y
  <2>1. x \in Nat /\ y \in Nat
    BY Zenon
  <2>2. ~(y < x)
    BY <1>2, <1>4, <2>1, Zenon
  <2> QED BY <2>1, <2>2
<1> QED BY <1>5, Zenon

\* Sequences of the same elements are the same.
LEMMA SameSequence ==
  ASSUME NEW S, NEW s \in Seq(S), NEW t \in Seq(S),
         Len(s) = Len(t), \A i \in 1..Len(s) : s[i] = t[i]
  PROVE  s = t
OBVIOUS

\* The length and the elements of a sequence.
LEMMA Sequence ==
  ASSUME NEW S, NEW s \in Seq(S)
  PROVE  /\ Len(s) \in Nat /\ DOMAIN s = 1..Len(s) /\ \A i \in 1..Len(s) : s[i] \in S
         /\ Len(s) = 0 <=> s = <<>>
OBVIOUS

\* The length and the elements of a part of a sequence.
LEMMA Part ==
  ASSUME NEW S, NEW s \in Seq(S), NEW m \in 1..(Len(s) + 1), NEW n \in (m - 1)..Len(s)
  PROVE  /\ SubSeq(s, m, n) \in Seq(S) /\ Len(SubSeq(s, m, n)) = n - m + 1
         /\ \A i \in 1..(n - m + 1) : SubSeq(s, m, n)[i] = s[m + i - 1]
OBVIOUS

\* A sequence without its first element.
LEMMA Rest ==
  ASSUME NEW S, NEW s \in Seq(S), s # <<>>
  PROVE  /\ Tail(s) \in Seq(S) /\ Len(Tail(s)) = Len(s) - 1
         /\ \A i \in 1..(Len(s) - 1) : Tail(s)[i] = s[i + 1]
OBVIOUS

\* What LIKE's recursion computes from the elements before the m-th.
NextMatched(g, haystack, like, m) ==
  IF m = 0 THEN {0} ELSE Advance(haystack, like[m], g[m - 1])
IsMatched(g, haystack, like) == g = [m \in 0..Len(like) |-> NextMatched(g, haystack, like, m)]

\* LIKE walks the pattern from its first element to its last.
LEMMA LikeWalks ==
  ASSUME NEW haystack, NEW like, Len(like) \in Nat
  PROVE  \E g : /\ g[0] = {0}
                /\ \A m \in 1..Len(like) : g[m] = Advance(haystack, like[m], g[m - 1])
                /\ Like(haystack, like) <=> Len(haystack) \in g[Len(like)]
<1> DEFINE M == Len(like)
           N(g, m) == NextMatched(g, haystack, like, m)
           Upto(g, n) == \A i \in 0..n : g[i] = N(g, i)
           T == {n \in Nat : ~\E g : Upto(g, n)}
<1>0. /\ \A g : N(g, 0) = {0}
      /\ \A g, m : m # 0 => N(g, m) = Advance(haystack, like[m], g[m - 1])
  BY Zenon DEF NextMatched
<1> HIDE DEF N
<1>1. T = {}
  <2> SUFFICES ASSUME T # {} PROVE FALSE
    BY Zenon
  <2>1. PICK n \in T : \A m \in T : n <= m
    <3>1. T \in SUBSET Nat
      BY Zenon
    <3> HIDE DEF T
    <3> QED BY <3>1, LeastNumber, Zenon
  <2>2. n \in Nat /\ ~\E g : Upto(g, n)
    BY Zenon
  <2>3. n # 0
    <3> SUFFICES ASSUME n = 0 PROVE FALSE
      BY Zenon
    <3>1. Upto([i \in 0..0 |-> {0}], 0)
      BY <1>0
    <3> QED BY <2>2, <3>1, Zenon
  <2>4. PICK h : Upto(h, n - 1)
    <3>1. n - 1 \in Nat /\ ~(n <= n - 1)
      BY <2>2, <2>3
    <3>2. n - 1 \notin T
      <4> HIDE DEF T
      <4> QED BY <2>1, <3>1, Zenon
    <3> QED BY <3>1, <3>2, Zenon
  <2> DEFINE g == [i \in 0..n |-> IF i = n THEN Advance(haystack, like[n], h[n - 1]) ELSE h[i]]
  <2>5. ASSUME NEW i \in 0..n PROVE g[i] = N(g, i)
    <3>1. CASE i = n
      <4>1. g[n] = Advance(haystack, like[n], h[n - 1]) /\ g[n - 1] = h[n - 1]
        BY <2>2, <2>3
      <4> HIDE DEF g
      <4> QED BY <1>0, <2>3, <3>1, <4>1, Zenon
    <3>2. CASE i # n
      <4>1. i \in 0..(n - 1) /\ g[i] = h[i] /\ (i # 0 => g[i - 1] = h[i - 1])
        BY <2>2, <3>2
      <4>2. h[i] = N(h, i)
        BY <2>4, <4>1, Zenon
      <4> HIDE DEF g
      <4>3. N(g, i) = N(h, i)
        <5>1. CASE i = 0
          BY <1>0, <5>1, Zenon
        <5>2. CASE i # 0
          <6>1. g[i - 1] = h[i - 1]
            BY <4>1, <5>2, Zenon
          <6>2. Advance(haystack, like[i], g[i - 1]) = Advance(haystack, like[i], h[i - 1])
            BY <6>1, Zenon
          <6>3. /\ N(g, i) = Advance(haystack, like[i], g[i - 1])
                /\ N(h, i) = Advance(haystack, like[i], h[i - 1])
            BY <1>0, <5>2, Zenon
          <6> QED BY <6>2, <6>3, Zenon
        <5> QED BY <5>1, <5>2, Zenon
      <4> QED BY <4>1, <4>2, <4>3, Zenon
    <3> QED BY <3>1, <3>2, Zenon
  <2> HIDE DEF g
  <2> QED BY <2>2, <2>5, Zenon
<1>2. PICK f : Upto(f, M)
  BY <1>1, Zenon
<1> DEFINE e == [m \in 0..M |-> f[m]]
<1>3. \A m \in 0..M : e[m] = N(e, m)
  <2> SUFFICES ASSUME NEW m \in 0..M PROVE e[m] = N(e, m)
    BY Zenon
  <2>1. e[m] = f[m] /\ (m # 0 => e[m - 1] = f[m - 1])
    OBVIOUS
  <2>2. f[m] = N(f, m)
    BY <1>2, Zenon
  <2> HIDE DEF e
  <2>3. N(e, m) = N(f, m)
    <3>1. CASE m = 0
      BY <1>0, <3>1, Zenon
    <3>2. CASE m # 0
      <4>1. e[m - 1] = f[m - 1]
        BY <2>1, <3>2, Zenon
      <4>2. Advance(haystack, like[m], e[m - 1]) = Advance(haystack, like[m], f[m - 1])
        BY <4>1, Zenon
      <4>3. /\ N(e, m) = Advance(haystack, like[m], e[m - 1])
            /\ N(f, m) = Advance(haystack, like[m], f[m - 1])
        BY <1>0, <3>2, Zenon
      <4> QED BY <4>2, <4>3, Zenon
    <3> QED BY <3>1, <3>2, Zenon
  <2> QED BY <2>1, <2>2, <2>3, Zenon
<1>4. e = [m \in 0..M |-> e[m]]
  BY Zenon
<1>5. IsMatched(e, haystack, like)
  <2> HIDE DEF e
  <2>1. [m \in 0..M |-> e[m]] = [m \in 0..M |-> N(e, m)]
    BY <1>3, Zenon
  <2> QED BY <1>4, <2>1, Zenon DEF IsMatched, N
<1> DEFINE g == CHOOSE x : IsMatched(x, haystack, like)
<1>6. IsMatched(g, haystack, like)
  BY <1>5, Zenon
<1>7. Like(haystack, like) <=> Len(haystack) \in g[M]
  BY Zenon DEF Like, IsMatched, NextMatched
<1> HIDE DEF g
<1>8. \A m \in 0..M : g[m] = N(g, m)
  BY <1>6, Zenon DEF IsMatched, N
<1>9. g[0] = {0} /\ \A m \in 1..M : g[m] = Advance(haystack, like[m], g[m - 1])
  <2>1. 0 \in 0..M /\ \A m \in 1..M : m \in 0..M /\ m # 0
    OBVIOUS
  <2> HIDE DEF M
  <2> QED BY <1>0, <1>8, <2>1, Zenon
<1> QED BY <1>7, <1>9, Zenon

\* L steps from the a-th on, each over the literal that c has at its place.
IsRun(g, h, N, a, c, L) ==
  /\ g[a] \subseteq 0..N
  /\ \A j \in 1..L : \A n : n \in g[a + j] <=> n \in 1..N /\ n - 1 \in g[a + j - 1] /\ h[n] = c[j]

\* Where the run leads.
RunLeads(g, h, N, a, c, L) ==
  \A n : n \in g[a + L] <=>
    n \in 0..N /\ n >= L /\ n - L \in g[a] /\ \A i \in 1..L : h[n - L + i] = c[i]

\* A run of literal elements leads to the prefixes that end with it.
LEMMA RunMatches ==
  ASSUME NEW N \in Nat, NEW h, NEW g, NEW a \in Nat, NEW L \in Nat, NEW c, IsRun(g, h, N, a, c, L)
  PROVE  RunLeads(g, h, N, a, c, L)
<1> DEFINE Ends(n, j) == n \in 0..N /\ n >= j /\ n - j \in g[a] /\ \A i \in 1..j : h[n - j + i] = c[i]
           T == {j \in 0..L : ~\A n : n \in g[a + j] <=> Ends(n, j)}
<1>0. /\ g[a] \subseteq 0..N
      /\ \A j \in 1..L : \A n : n \in g[a + j] <=> n \in 1..N /\ n - 1 \in g[a + j - 1] /\ h[n] = c[j]
  BY Zenon DEF IsRun
<1> SUFFICES ASSUME ~RunLeads(g, h, N, a, c, L) PROVE FALSE
  BY Zenon
<1>7. T # {}
  <2>1. L \in 0..L
    OBVIOUS
  <2>2. ~\A n : n \in g[a + L] <=> Ends(n, L)
    BY Zenon DEF RunLeads
  <2> QED BY <2>1, <2>2, Zenon
<1>1. PICK j \in T : \A k \in T : j <= k
  <2>1. T \in SUBSET Nat
    OBVIOUS
  <2> HIDE DEF T
  <2> QED BY <1>7, <2>1, LeastNumber, Zenon
<1>2. j \in 0..L /\ ~\A n : n \in g[a + j] <=> Ends(n, j)
  BY Zenon
<1>3. j # 0
  <2>1. ASSUME j = 0 PROVE \A n : n \in g[a + j] <=> Ends(n, j)
    <3>1. a + j = a /\ \A n \in 0..N : n - j = n
      BY <2>1
    <3> QED BY <1>0, <2>1, <3>1
  <2> QED BY <1>2, <2>1, Zenon
<1>4. \A n : n \in g[a + (j - 1)] <=> Ends(n, j - 1)
  <2>1. j - 1 \in 0..L /\ ~(j <= j - 1)
    BY <1>2, <1>3
  <2>2. j - 1 \notin T
    <3> HIDE DEF T
    <3> QED BY <1>1, <2>1, Zenon
  <2> QED BY <2>1, <2>2, Zenon
<1>5. \A n : n \in g[a + j] <=> n \in 1..N /\ n - 1 \in g[a + (j - 1)] /\ h[n] = c[j]
  <2>1. j \in 1..L /\ a + j - 1 = a + (j - 1)
    BY <1>2, <1>3
  <2> QED BY <1>0, <2>1, Zenon
<1>6. ASSUME NEW n PROVE n \in g[a + j] <=> Ends(n, j)
  <2>1. ASSUME n \in g[a + j] PROVE Ends(n, j)
    <3>1. n \in 1..N /\ Ends(n - 1, j - 1) /\ h[n] = c[j]
      BY <1>4, <1>5, <2>1, Zenon
    <3>2. n >= j /\ n - j \in g[a] /\ n \in 0..N
      <4>1. (n - 1) - (j - 1) = n - j
        BY <1>2, <3>1
      <4> QED BY <1>2, <3>1, <4>1
    <3>3. ASSUME NEW i \in 1..j PROVE h[n - j + i] = c[i]
      <4>1. CASE i = j
        <5>1. n - j + i = n
          BY <1>2, <3>1, <4>1
        <5> QED BY <3>1, <4>1, <5>1, Zenon
      <4>2. CASE i # j
        <5>1. i \in 1..(j - 1) /\ (n - 1) - (j - 1) + i = n - j + i
          BY <1>2, <3>1, <4>2
        <5> QED BY <3>1, <5>1, Zenon
      <4> QED BY <4>1, <4>2, Zenon
    <3> QED BY <3>2, <3>3, Zenon
  <2>2. ASSUME Ends(n, j) PROVE n \in g[a + j]
    <3>1. n \in 1..N /\ n - 1 \in 0..N /\ n - 1 >= j - 1 /\ (n - 1) - (j - 1) = n - j
      BY <1>2, <1>3, <2>2
    <3>2. h[n] = c[j]
      <4>1. j \in 1..j /\ n - j + j = n
        BY <1>2, <1>3, <3>1
      <4> QED BY <2>2, <4>1, Zenon
    <3>3. ASSUME NEW i \in 1..(j - 1) PROVE h[(n - 1) - (j - 1) + i] = c[i]
      <4>1. i \in 1..j /\ (n - 1) - (j - 1) + i = n - j + i
        BY <1>2, <3>1
      <4> QED BY <2>2, <4>1, Zenon
    <3>4. Ends(n - 1, j - 1)
      BY <2>2, <3>1, <3>3, Zenon
    <3> QED BY <1>4, <1>5, <3>1, <3>2, <3>4, Zenon
  <2> QED BY <2>1, <2>2, Zenon
<1> QED BY <1>2, <1>6, Zenon

----------------------------------------------------------------------------

\* The elements of the pattern that ilikePattern makes.
LEMMA Ilike ==
  ASSUME NEW S, NEW p \in Seq(S)
  PROVE  LET q == IlikePattern(p)
         IN  /\ Len(q) = Len(p)
             /\ \A i \in 1..Len(p) : (q[i].any <=> p[i] = "*") /\ (p[i] # "*" => q[i].char = p[i])
<1> DEFINE q == IlikePattern(p)
<1>1. DOMAIN p = 1..Len(p) /\ Len(p) \in Nat
  OBVIOUS
<1>2. DOMAIN q = 1..Len(p) /\ q = [i \in 1..Len(p) |-> q[i]]
  BY <1>1, Zenon DEF IlikePattern
<1>3. \A i \in 1..Len(p) : (q[i].any <=> p[i] = "*") /\ (p[i] # "*" => q[i].char = p[i])
  <2> SUFFICES ASSUME NEW i \in 1..Len(p)
               PROVE  (q[i].any <=> p[i] = "*") /\ (p[i] # "*" => q[i].char = p[i])
    BY Zenon
  <2>1. CASE p[i] = "*"
    <3>1. q[i] = [any |-> TRUE, char |-> ""]
      BY <1>1, <2>1, Zenon DEF IlikePattern
    <3>2. [any |-> TRUE, char |-> ""].any
      BY Zenon
    <3>3. q[i].any
      BY <3>1, <3>2, Zenon
    <3> QED BY <2>1, <3>3, Zenon
  <2>2. CASE p[i] # "*"
    <3>1. q[i] = [any |-> FALSE, char |-> p[i]]
      BY <1>1, <2>2, Zenon DEF IlikePattern
    <3> QED BY <2>2, <3>1
  <2> QED BY <2>1, <2>2, Zenon
<1>4. Len(q) = Len(p)
  <2> HIDE DEF q
  <2>1. q \in Seq({q[i] : i \in 1..Len(p)})
    BY <1>1, <1>2
  <2> QED BY <1>1, <1>2, <2>1
<1> QED BY <1>3, <1>4, Zenon

\* A string ends with another one at a position.
EndsAt(h, c, n) == n \in 0..Len(h) /\ n >= Len(c) /\ \A i \in 1..Len(c) : h[n - Len(c) + i] = c[i]

\* The operators of package strings that MatchPattern uses, by where a string ends
\* with another one.
LEMMA PrefixIs ==
  ASSUME NEW S, NEW c \in Seq(S), NEW t \in Seq(S)
  PROVE  IsPrefixOf(c, t) <=> EndsAt(t, c, Len(c))
<1>1. CASE Len(c) <= Len(t)
  <2> DEFINE s == SubSeq(t, 1, Len(c))
  <2>1. s \in Seq(S) /\ Len(s) = Len(c) /\ \A i \in 1..Len(c) : s[i] = t[i]
    BY <1>1
  <2>2. s = c <=> \A i \in 1..Len(c) : s[i] = c[i]
    <3> HIDE DEF s
    <3> QED BY <2>1, SameSequence, Zenon
  <2>3. IsPrefixOf(c, t) <=> s = c
    BY <1>1, Zenon DEF IsPrefixOf
  <2> HIDE DEF s
  <2>4. EndsAt(t, c, Len(c)) <=> \A i \in 1..Len(c) : t[i] = c[i]
    <3>1. Len(c) \in 0..Len(t) /\ Len(c) >= Len(c) /\ \A i \in 1..Len(c) : Len(c) - Len(c) + i = i
      BY <1>1
    <3> QED BY <3>1, Zenon DEF EndsAt
  <2> QED BY <2>1, <2>2, <2>3, <2>4, Zenon
<1>2. CASE ~(Len(c) <= Len(t))
  BY <1>2 DEF IsPrefixOf, EndsAt
<1> QED BY <1>1, <1>2, Zenon

LEMMA SuffixIs ==
  ASSUME NEW S, NEW c \in Seq(S), NEW t \in Seq(S)
  PROVE  IsSuffixOf(c, t) <=> EndsAt(t, c, Len(t))
<1>1. CASE Len(c) <= Len(t)
  <2> DEFINE m == Len(t) - Len(c) + 1
             s == SubSeq(t, m, Len(t))
  <2>1. m \in 1..(Len(t) + 1) /\ Len(t) \in (m - 1)..Len(t) /\ Len(t) - m + 1 = Len(c)
    BY <1>1
  <2>2. \A i \in 1..Len(c) : m + i - 1 = Len(t) - Len(c) + i
    BY <1>1
  <2>3. IsSuffixOf(c, t) <=> s = c
    BY <1>1, Zenon DEF IsSuffixOf
  <2> HIDE DEF m
  <2>4. s \in Seq(S) /\ Len(s) = Len(t) - m + 1 /\ \A i \in 1..(Len(t) - m + 1) : s[i] = t[m + i - 1]
    BY <2>1, Part, Zenon
  <2> HIDE DEF s
  <2>5. s = c <=> \A i \in 1..Len(c) : s[i] = c[i]
    BY <2>1, <2>4, SameSequence, Zenon
  <2>6. \A i \in 1..Len(c) : s[i] = t[Len(t) - Len(c) + i]
    BY <2>1, <2>2, <2>4, Zenon
  <2>7. Len(t) \in 0..Len(t) /\ Len(t) >= Len(c)
    BY <1>1
  <2> QED BY <2>3, <2>5, <2>6, <2>7, Zenon DEF EndsAt
<1>2. CASE ~(Len(c) <= Len(t))
  BY <1>2, Zenon DEF IsSuffixOf, EndsAt
<1> QED BY <1>1, <1>2, Zenon

LEMMA InfixIs ==
  ASSUME NEW S, NEW c \in Seq(S), NEW t \in Seq(S)
  PROVE  IsInfixOf(c, t) <=> \E n : EndsAt(t, c, n)
<1>0. Len(t) \in Nat /\ Len(c) \in Nat
  OBVIOUS
<1>1. ASSUME NEW k \in 0..Len(t)
      PROVE  IsPrefixOf(c, SubSeq(t, k + 1, Len(t))) <=> EndsAt(t, c, k + Len(c))
  <2> DEFINE s == SubSeq(t, k + 1, Len(t))
  <2>1. s \in Seq(S) /\ Len(s) = Len(t) - k /\ \A i \in 1..(Len(t) - k) : s[i] = t[k + i]
    OBVIOUS
  <2> HIDE DEF s
  <2>2. IsPrefixOf(c, s) <=> EndsAt(s, c, Len(c))
    BY <2>1, PrefixIs, Zenon
  <2>3. EndsAt(s, c, Len(c)) <=> (Len(c) <= Len(t) - k /\ \A i \in 1..Len(c) : s[i] = c[i])
    <3>1. Len(c) \in 0..Len(s) <=> Len(c) <= Len(t) - k
      BY <1>0, <2>1
    <3>2. \A i \in 1..Len(c) : Len(c) - Len(c) + i = i
      BY <1>0
    <3>3. Len(c) >= Len(c)
      BY <1>0
    <3> QED BY <3>1, <3>2, <3>3, Zenon DEF EndsAt
  <2>4. EndsAt(t, c, k + Len(c)) <=> (Len(c) <= Len(t) - k /\ \A i \in 1..Len(c) : t[k + i] = c[i])
    <3>1. k + Len(c) \in 0..Len(t) <=> Len(c) <= Len(t) - k
      BY <1>0
    <3>2. \A i \in 1..Len(c) : k + Len(c) - Len(c) + i = k + i
      BY <1>0
    <3>3. k + Len(c) >= Len(c)
      BY <1>0
    <3> QED BY <3>1, <3>2, <3>3 DEF EndsAt
  <2>5. ASSUME Len(c) <= Len(t) - k PROVE \A i \in 1..Len(c) : s[i] = t[k + i]
    BY <1>0, <2>1, <2>5
  <2> QED BY <2>2, <2>3, <2>4, <2>5, Zenon DEF s
<1>2. ASSUME NEW n, EndsAt(t, c, n)
      PROVE  \E k \in 0..Len(t) : IsPrefixOf(c, SubSeq(t, k + 1, Len(t)))
  <2>1. n - Len(c) \in 0..Len(t) /\ n - Len(c) + Len(c) = n
    BY <1>0, <1>2 DEF EndsAt
  <2> QED BY <1>1, <1>2, <2>1, Zenon
<1> QED BY <1>1, <1>2, Zenon DEF IsInfixOf

----------------------------------------------------------------------------
\* What LIKE does with the pattern that ilikePattern makes: a wildcard leads to every
\* longer prefix, a literal to the next one if that ends with it.
IsWalk(g, h, p) ==
  /\ g[0] = {0}
  /\ \A m \in 1..Len(p) : p[m] = "*" =>
       \A n : n \in g[m] <=> n \in 0..Len(h) /\ \E k \in g[m - 1] : k <= n
  /\ \A m \in 1..Len(p) : p[m] # "*" =>
       \A n : n \in g[m] <=> n \in 1..Len(h) /\ n - 1 \in g[m - 1] /\ h[n] = p[m]

\* The two indexes' common pattern is walked like that.
LEMMA PatternWalks ==
  ASSUME NEW S, NEW h \in Seq(S), NEW p \in Seq(S)
  PROVE  \E g : IsWalk(g, h, p) /\ (Like(h, IlikePattern(p)) <=> Len(h) \in g[Len(p)])
<1> DEFINE q == IlikePattern(p)
<1>1. /\ Len(q) = Len(p) /\ Len(p) \in Nat
      /\ \A i \in 1..Len(p) : (q[i].any <=> p[i] = "*") /\ (p[i] # "*" => q[i].char = p[i])
  BY Ilike
<1> HIDE DEF q
<1>2. PICK g : /\ g[0] = {0}
               /\ \A m \in 1..Len(q) : g[m] = Advance(h, q[m], g[m - 1])
               /\ Like(h, q) <=> Len(h) \in g[Len(q)]
  BY <1>1, LikeWalks, Zenon
<1>3. ASSUME NEW m \in 1..Len(p), p[m] = "*", NEW n
      PROVE  n \in g[m] <=> n \in 0..Len(h) /\ \E k \in g[m - 1] : k <= n
  <2>1. g[m] = Advance(h, q[m], g[m - 1]) /\ q[m].any
    BY <1>1, <1>2, <1>3, Zenon
  <2>2. Advance(h, q[m], g[m - 1]) = {x \in 0..Len(h) : \E k \in g[m - 1] : k <= x}
    BY <2>1, Zenon DEF Advance
  <2> QED BY <2>1, <2>2, Zenon
<1>4. ASSUME NEW m \in 1..Len(p), p[m] # "*", NEW n
      PROVE  n \in g[m] <=> n \in 1..Len(h) /\ n - 1 \in g[m - 1] /\ h[n] = p[m]
  <2>1. g[m] = Advance(h, q[m], g[m - 1]) /\ ~q[m].any /\ q[m].char = p[m]
    BY <1>1, <1>2, <1>4, Zenon
  <2>2. Advance(h, q[m], g[m - 1]) = {x \in 1..Len(h) : x - 1 \in g[m - 1] /\ h[x] = q[m].char}
    BY <2>1, Zenon DEF Advance
  <2> QED BY <2>1, <2>2, Zenon
<1>5. Like(h, IlikePattern(p)) <=> Len(h) \in g[Len(p)]
  BY <1>1, <1>2, Zenon DEF q
<1>6. IsWalk(g, h, p)
  BY <1>2, <1>3, <1>4, Zenon DEF IsWalk
<1> QED BY <1>5, <1>6, Zenon

\* The pattern has the literals of c after its a-th character.
LiteralsAt(p, a, c) ==
  /\ a \in Nat /\ a + Len(c) <= Len(p)
  /\ \A j \in 1..Len(c) : c[j] = p[a + j] /\ p[a + j] # "*"

\* A run of literals in the pattern leads to the prefixes that end with it.
LEMMA WalkRuns ==
  ASSUME NEW S, NEW h \in Seq(S), NEW p \in Seq(S), NEW c \in Seq(S), NEW g, IsWalk(g, h, p),
         NEW a, LiteralsAt(p, a, c), g[a] \subseteq 0..Len(h)
  PROVE  \A n : n \in g[a + Len(c)] <=> EndsAt(h, c, n) /\ n - Len(c) \in g[a]
<1> DEFINE L == Len(c)
           N == Len(h)
<1>1. L \in Nat /\ N \in Nat /\ Len(p) \in Nat /\ a \in Nat /\ a + L <= Len(p)
  BY DEF LiteralsAt
<1>2. ASSUME NEW j \in 1..L
      PROVE  \A n : n \in g[a + j] <=> n \in 1..N /\ n - 1 \in g[a + j - 1] /\ h[n] = c[j]
  <2>1. a + j \in 1..Len(p)
    BY <1>1
  <2>2. c[j] = p[a + j] /\ p[a + j] # "*"
    BY Zenon DEF LiteralsAt
  <2> DEFINE m == a + j
  <2>3. m \in 1..Len(p) /\ c[j] = p[m] /\ p[m] # "*"
    BY <2>1, <2>2, Zenon
  <2> HIDE DEF m
  <2>4. \A n : n \in g[m] <=> n \in 1..N /\ n - 1 \in g[m - 1] /\ h[n] = c[j]
    BY <2>3, Zenon DEF IsWalk
  <2>5. m - 1 = a + j - 1
    BY <1>1 DEF m
  <2> QED BY <2>4, <2>5, Zenon DEF m
<1>3. RunLeads(g, h, N, a, c, L)
  <2>1. IsRun(g, h, N, a, c, L)
    BY <1>2, Zenon DEF IsRun
  <2> HIDE DEF L, N
  <2>2. N \in Nat /\ a \in Nat /\ L \in Nat
    BY <1>1, Zenon
  <2> QED BY <2>1, <2>2, RunMatches, Zenon
<1> QED BY <1>3, Zenon DEF EndsAt, RunLeads

\* The literal core of a pattern with a wildcard at its beginning, its end or both.
LEMMA CoreAfter ==
  ASSUME NEW S, NEW p \in Seq(S), p # <<>>
  PROVE  /\ Tail(p) \in Seq(S) /\ Len(Tail(p)) = Len(p) - 1
         /\ \A i \in 1..(Len(p) - 1) : Tail(p)[i] = p[1 + i]
<1>1. Len(p) \in Nat \ {0}
  BY Sequence, Zenon
<1> QED BY <1>1, Rest

LEMMA CoreBefore ==
  ASSUME NEW S, NEW p \in Seq(S), p # <<>>
  PROVE  LET c == SubSeq(p, 1, Len(p) - 1)
         IN  c \in Seq(S) /\ Len(c) = Len(p) - 1 /\ \A i \in 1..(Len(p) - 1) : c[i] = p[i]
<1>1. Len(p) \in Nat \ {0}
  BY Sequence, Zenon
<1>2. 1 \in 1..(Len(p) + 1) /\ Len(p) - 1 \in (1 - 1)..Len(p) /\ Len(p) - 1 - 1 + 1 = Len(p) - 1
  BY <1>1
<1>3. \A i \in 1..(Len(p) - 1) : 1 + i - 1 = i
  BY <1>1
<1> QED BY <1>2, <1>3, Part

LEMMA CoreBetween ==
  ASSUME NEW S, NEW p \in Seq(S), Len(p) >= 2
  PROVE  LET c == SubSeq(Tail(p), 1, Len(Tail(p)) - 1)
         IN  c \in Seq(S) /\ Len(c) = Len(p) - 2 /\ \A i \in 1..(Len(p) - 2) : c[i] = p[1 + i]
<1> DEFINE t == Tail(p)
<1>1. p # <<>>
  OBVIOUS
<1>2. t \in Seq(S) /\ Len(t) = Len(p) - 1 /\ \A i \in 1..(Len(p) - 1) : t[i] = p[1 + i]
  BY <1>1, CoreAfter, Zenon
<1> HIDE DEF t
<1>3. t # <<>>
  BY <1>2
<1> DEFINE c == SubSeq(t, 1, Len(t) - 1)
<1>4. c \in Seq(S) /\ Len(c) = Len(t) - 1 /\ \A i \in 1..(Len(t) - 1) : c[i] = t[i]
  BY <1>2, <1>3, CoreBefore, Zenon
<1> HIDE DEF c
<1>5. c \in Seq(S) /\ Len(c) = Len(p) - 2 /\ \A i \in 1..(Len(p) - 2) : c[i] = p[1 + i]
  BY <1>2, <1>4
<1> QED BY <1>5, Zenon DEF c, t

\* A pattern with wildcards at its edges only means the same to the in-memory index
\* and to PostgreSQL.
LEMMA PatternsAgree ==
  ASSUME NEW S, NEW h \in Seq(S), NEW p \in Seq(S), p # <<>>, IsEdged(p)
  PROVE  MatchPattern(h, p) <=> Like(h, IlikePattern(p))
<1> DEFINE N == Len(h)
           M == Len(p)
<1>1. N \in Nat /\ M \in Nat /\ M >= 1
  BY Sequence
<1>2. \A i \in 2..(M - 1) : p[i] # "*"
  BY Zenon DEF IsEdged
<1>3. PICK g : IsWalk(g, h, p) /\ (Like(h, IlikePattern(p)) <=> N \in g[M])
  BY PatternWalks, Zenon
<1>10. g[0] = {0} /\ g[0] \subseteq 0..N
  BY <1>1, <1>3 DEF IsWalk
<1>4. ASSUME p[1] = "*" PROVE g[1] = 0..N
  <2>1. \A n : n \in g[1] <=> n \in 0..N /\ \E k \in g[1 - 1] : k <= n
    <3>1. 1 \in 1..M
      BY <1>1
    <3> QED BY <1>3, <1>4, <3>1, Zenon DEF IsWalk
  <2>2. \A n \in 0..N : \E k \in g[1 - 1] : k <= n
    <3>1. g[1 - 1] = {0}
      BY <1>10
    <3> QED BY <1>1, <3>1
  <2>3. \A n : n \in g[1] <=> n \in 0..N
    BY <2>1, <2>2, Zenon
  <2> QED BY <2>3, Zenon
<1>5. ASSUME p[M] = "*" PROVE N \in g[M] <=> \E k \in g[M - 1] : k <= N
  <2>1. N \in 0..N /\ M \in 1..M
    BY <1>1
  <2> QED BY <1>3, <1>5, <2>1, Zenon DEF IsWalk
<1>6. CASE p[1] # "*" /\ p[M] # "*"
  <2>1. \A j \in 1..M : p[0 + j] = p[j] /\ p[0 + j] # "*"
    BY <1>1, <1>2, <1>6
  <2>2. \A n : n \in g[0 + M] <=> EndsAt(h, p, n) /\ n - M \in g[0]
    <3>1. LiteralsAt(p, 0, p)
      BY <1>1, <2>1 DEF LiteralsAt
    <3> QED BY <1>3, <1>10, <3>1, WalkRuns, Zenon
  <2>3. N \in g[M] <=> EndsAt(h, p, N) /\ N = M
    <3>1. 0 + M = M /\ (N - M \in g[0] <=> N = M)
      BY <1>1, <1>10
    <3> QED BY <2>2, <3>1, Zenon
  <2>4. h = p <=> EndsAt(h, p, N) /\ N = M
    <3>1. h = p <=> N = M /\ \A i \in 1..M : h[i] = p[i]
      BY SameSequence, Zenon
    <3>2. ASSUME N = M PROVE EndsAt(h, p, N) <=> \A i \in 1..M : h[i] = p[i]
      <4>1. N \in 0..Len(h) /\ N >= Len(p) /\ \A i \in 1..M : N - Len(p) + i = i
        BY <1>1, <3>2
      <4> QED BY <4>1, Zenon DEF EndsAt
    <3> QED BY <3>1, <3>2, Zenon
  <2>5. MatchPattern(h, p) <=> h = p
    BY <1>6, Zenon DEF MatchPattern
  <2> QED BY <1>3, <2>3, <2>4, <2>5, Zenon
<1>7. CASE p[1] = "*" /\ p[M] # "*"
  <2> DEFINE c == Tail(p)
  <2>1. c \in Seq(S) /\ Len(c) = M - 1 /\ \A i \in 1..(M - 1) : c[i] = p[1 + i]
    BY CoreAfter, Zenon
  <2>2. MatchPattern(h, p) <=> IsSuffixOf(c, h)
    BY <1>7, Zenon DEF MatchPattern
  <2> HIDE DEF c
  <2>3. g[1] = 0..N /\ g[1] \subseteq 0..N
    BY <1>4, <1>7, Zenon
  <2>4. Len(c) \in Nat /\ 1 + Len(c) = M /\ 1 + Len(c) <= M
    BY <1>1, <2>1
  <2>5. \A j \in 1..Len(c) : c[j] = p[1 + j] /\ p[1 + j] # "*"
    BY <1>1, <1>2, <1>7, <2>1
  <2>6. \A n : n \in g[1 + Len(c)] <=> EndsAt(h, c, n) /\ n - Len(c) \in g[1]
    <3>1. LiteralsAt(p, 1, c)
      BY <2>4, <2>5, Zenon DEF LiteralsAt
    <3> QED BY <1>3, <2>1, <2>3, <3>1, WalkRuns, Zenon
  <2>7. N \in g[M] <=> EndsAt(h, c, N)
    <3>1. EndsAt(h, c, N) => N - Len(c) \in g[1]
      BY <1>1, <2>3, <2>4 DEF EndsAt
    <3> QED BY <2>4, <2>6, <3>1, Zenon
  <2>8. IsSuffixOf(c, h) <=> EndsAt(h, c, N)
    BY <2>1, SuffixIs, Zenon
  <2> QED BY <1>3, <2>2, <2>7, <2>8, Zenon
<1>8. CASE p[1] # "*" /\ p[M] = "*"
  <2> DEFINE c == SubSeq(p, 1, M - 1)
  <2>1. c \in Seq(S) /\ Len(c) = M - 1 /\ \A i \in 1..(M - 1) : c[i] = p[i]
    BY CoreBefore, Zenon
  <2>2. MatchPattern(h, p) <=> IsPrefixOf(c, h)
    BY <1>8, Zenon DEF MatchPattern
  <2> HIDE DEF c
  <2>3. Len(c) \in Nat /\ 0 + Len(c) = M - 1 /\ 0 + Len(c) <= M
    BY <1>1, <2>1
  <2>4. \A j \in 1..Len(c) : c[j] = p[0 + j] /\ p[0 + j] # "*"
    BY <1>1, <1>2, <1>8, <2>1
  <2>5. \A n : n \in g[0 + Len(c)] <=> EndsAt(h, c, n) /\ n - Len(c) \in g[0]
    <3>1. LiteralsAt(p, 0, c)
      BY <2>3, <2>4, Zenon DEF LiteralsAt
    <3> QED BY <1>3, <1>10, <2>1, <3>1, WalkRuns, Zenon
  <2>6. ASSUME NEW k PROVE k \in g[M - 1] <=> k = Len(c) /\ EndsAt(h, c, Len(c))
    <3>1. EndsAt(h, c, k) => (k - Len(c) \in g[0] <=> k = Len(c))
      BY <1>1, <1>10, <2>3 DEF EndsAt
    <3>2. k = Len(c) => k - Len(c) \in g[0]
      BY <1>10, <2>3
    <3> QED BY <2>3, <2>5, <3>1, <3>2, Zenon
  <2>7. N \in g[M] <=> EndsAt(h, c, Len(c))
    <3>1. EndsAt(h, c, Len(c)) => Len(c) <= N
      BY <1>1 DEF EndsAt
    <3> QED BY <1>5, <1>8, <2>6, <3>1, Zenon
  <2>8. IsPrefixOf(c, h) <=> EndsAt(h, c, Len(c))
    BY <2>1, PrefixIs, Zenon
  <2> QED BY <1>3, <2>2, <2>7, <2>8, Zenon
<1>9. CASE p[1] = "*" /\ p[M] = "*" /\ M >= 2
  <2> DEFINE c == SubSeq(Tail(p), 1, Len(Tail(p)) - 1)
  <2>1. c \in Seq(S) /\ Len(c) = M - 2 /\ \A i \in 1..(M - 2) : c[i] = p[1 + i]
    BY <1>9, CoreBetween, Zenon
  <2>2. MatchPattern(h, p) <=> IsInfixOf(c, h)
    <3>1. Tail(p) # <<>>
      <4>1. Len(Tail(p)) = M - 1
        BY CoreAfter, Zenon
      <4>2. Len(Tail(p)) # 0
        BY <1>1, <1>9, <4>1
      <4>3. Len(<<>>) = 0
        BY Zenon
      <4> QED BY <4>2, <4>3, Zenon
    <3> QED BY <1>9, <3>1, Zenon DEF MatchPattern
  <2> HIDE DEF c
  <2>3. g[1] = 0..N /\ g[1] \subseteq 0..N
    BY <1>4, <1>9, Zenon
  <2>4. Len(c) \in Nat /\ 1 + Len(c) = M - 1 /\ 1 + Len(c) <= M
    BY <1>1, <1>9, <2>1
  <2>5. \A j \in 1..Len(c) : c[j] = p[1 + j] /\ p[1 + j] # "*"
    BY <1>1, <1>2, <2>1
  <2>6. \A n : n \in g[1 + Len(c)] <=> EndsAt(h, c, n) /\ n - Len(c) \in g[1]
    <3>1. LiteralsAt(p, 1, c)
      BY <2>4, <2>5, Zenon DEF LiteralsAt
    <3> QED BY <1>3, <2>1, <2>3, <3>1, WalkRuns, Zenon
  <2>7. \A k : k \in g[M - 1] <=> EndsAt(h, c, k)
    <3>1. \A k : EndsAt(h, c, k) => k - Len(c) \in g[1]
      BY <1>1, <2>3, <2>4 DEF EndsAt
    <3> QED BY <2>4, <2>6, <3>1, Zenon
  <2>8. N \in g[M] <=> \E k : EndsAt(h, c, k)
    <3>1. \A k : EndsAt(h, c, k) => k <= N
      BY <1>1 DEF EndsAt
    <3> QED BY <1>5, <1>9, <2>7, <3>1, Zenon
  <2>9. IsInfixOf(c, h) <=> \E k : EndsAt(h, c, k)
    BY <2>1, InfixIs, Zenon
  <2> QED BY <1>3, <2>2, <2>8, <2>9, Zenon
<1>11. CASE p[1] = "*" /\ M = 1
  <2>1. N \in g[M]
    BY <1>1, <1>4, <1>11
  <2>2. IsInfixOf(<<>>, h)
    <3> DEFINE c == <<>>
    <3>1. c \in Seq(S) /\ Len(c) = 0
      OBVIOUS
    <3> HIDE DEF c
    <3>2. EndsAt(h, c, 0)
      BY <1>1, <3>1 DEF EndsAt
    <3>3. IsInfixOf(c, h)
      BY <3>1, <3>2, InfixIs, Zenon
    <3> QED BY <3>3, Zenon DEF c
  <2>3. Tail(p) = <<>>
    <3>1. Tail(p) \in Seq(S) /\ Len(Tail(p)) = 0
      BY <1>11, CoreAfter
    <3> QED BY <3>1, Sequence, Zenon
  <2>4. MatchPattern(h, p)
    BY <1>11, <2>2, <2>3, Zenon DEF MatchPattern
  <2> QED BY <1>3, <2>1, <2>4, Zenon
<1>12. M = 1 => (p[1] = "*" <=> p[M] = "*")
  BY Zenon
<1> QED BY <1>1, <1>6, <1>7, <1>8, <1>9, <1>11, <1>12

----------------------------------------------------------------------------
(***************************************************************************)
(* Search: walks are complete and free of repetitions, for every registry, *)
(* every search and every page size, and the two indexes agree on patterns. *)
(***************************************************************************)

\* A larger finite set has at least as many elements: ranks grow when matches
\* are inserted and shrink when they are removed.
LEMMA CardinalityGrows ==
  ASSUME NEW T, IsFiniteSet(T), NEW S \in SUBSET T
  PROVE  /\ IsFiniteSet(S)
         /\ Cardinality(S) \in Nat /\ Cardinality(T) \in Nat
         /\ Cardinality(S) <= Cardinality(T)
BY FS_Subset, FS_CardinalityType, Zenon

\* What stands before a match does not contain it, so its rank is below the
\* total (SELECT count(star), len(all)).
LEMMA RankBelowTotal ==
  ASSUME NEW T, IsFiniteSet(T), NEW x \in T, NEW S \in SUBSET (T \ {x})
  PROVE  Cardinality(S) < Cardinality(T)
<1>1. Cardinality(T \ {x}) = Cardinality(T) - 1 /\ IsFiniteSet(T \ {x})
  BY FS_RemoveElement, Zenon
<1>2. Cardinality(S) <= Cardinality(T \ {x})
  BY <1>1, CardinalityGrows, ZenonT(30)
<1> QED
  BY <1>1, <1>2, FS_CardinalityType, FS_Subset

\* ClampLimit gives every page room for at least one row.
LEMMA LimitPositive ==
  ASSUME ask \in Asks
  PROVE  Limit \in Nat \ {0}
BY SearchAssumption DEF Limit, ClampLimit

\* Ranks and totals of the stored rows are numbers, a stored match ranks below
\* the total.
LEMMA Ranks ==
  ASSUME rows \subseteq Row
  PROVE  /\ IsFiniteSet(Found) /\ Total \in Nat
         /\ \A x \in Row : Rank(x) \in Nat
         /\ \A x \in Found : Rank(x) < Total
<1>1. IsFiniteSet(Found)
  BY FS_Subset, SearchAssumption, Zenon DEF Found
<1>2. Total \in Nat
  BY <1>1, FS_CardinalityType, Zenon DEF Total
<1>3. ASSUME NEW x \in Row PROVE Rank(x) \in Nat
  <2>1. {s \in Found : s < x} \subseteq Found
    BY Zenon
  <2> QED BY <1>1, <2>1, CardinalityGrows, Zenon DEF Rank
<1>4. ASSUME NEW x \in Found PROVE Rank(x) < Total
  <2>1. x \in Nat
    BY SearchAssumption, Zenon DEF Found
  <2>2. {s \in Found : s < x} \in SUBSET (Found \ {x})
    BY <2>1
  <2> QED BY <1>1, <2>2, RankBelowTotal, Zenon DEF Rank, Total
<1> QED BY <1>1, <1>2, <1>3, <1>4, Zenon

----------------------------------------------------------------------------
\* While the data and the search stay as they are, so do matches, ranks, totals
\* and the page size.
LEMMA SameData ==
  ASSUME UNCHANGED data
  PROVE  /\ Limit' = Limit /\ Total' = Total
         /\ \A x : Matches(x)' <=> Matches(x)
         /\ \A x : Rank(x)' = Rank(x)
<1>1. backend' = backend /\ rows' = rows /\ ask' = ask
  BY Zenon DEF data
<1>2. \A x : Matches(x)' <=> Matches(x)
  BY <1>1, ZenonT(30) DEF Matches, MemoryMatches, PostgresMatches
<1>3. Found' = Found
  BY <1>1, <1>2, Zenon DEF Found
<1>4. Limit' = Limit
  BY <1>1, Zenon DEF Limit
<1> QED BY <1>2, <1>3, <1>4, Zenon DEF Total, Rank

\* Inserting a row raises the ranks of the rows after it, if it matches, and no
\* others.
LEMMA InsertRaises ==
  ASSUME TypeOK, NEW r \in Row, Insert(r)
  PROVE  /\ Limit' = Limit
         /\ \A x : Matches(x)' <=> Matches(x)
         /\ \A x \in Row : Rank(x) \in Nat /\ Rank(x)' \in Nat /\ Rank(x) <= Rank(x)'
         /\ \A x \in Row : ~(r < x /\ Matches(r)) => Rank(x)' = Rank(x)
<1>1. /\ backend' = backend /\ ask' = ask /\ rows' = rows \cup {r}
      /\ rows \subseteq Row /\ rows' \subseteq Row
  BY DEF Insert, TypeOK
<1>2. \A x : Matches(x)' <=> Matches(x)
  BY <1>1, ZenonT(30) DEF Matches, MemoryMatches, PostgresMatches
<1>3. IsFiniteSet(rows')
  BY <1>1, FS_Subset, SearchAssumption, Zenon
<1>4. Found' = {x \in rows \cup {r} : Matches(x)}
  BY <1>1, <1>2, Zenon DEF Found
<1>5. IsFiniteSet(Found')
  BY <1>1, <1>3, FS_Subset, Zenon DEF Found
<1>6. ASSUME NEW x \in Row
      PROVE  /\ Rank(x) \in Nat /\ Rank(x)' \in Nat /\ Rank(x) <= Rank(x)'
             /\ ~(r < x /\ Matches(r)) => Rank(x)' = Rank(x)
  <2> DEFINE B == {s \in Found : s < x}
             C == {s \in Found' : s < x}
  <2>1. Rank(x) = Cardinality(B) /\ Rank(x)' = Cardinality(C)
    BY Zenon DEF Rank
  <2>2. IsFiniteSet(C)
    BY <1>5, FS_Subset, Zenon
  <2>3. B \in SUBSET C
    BY <1>4, Zenon DEF Found
  <2>4. ~(r < x /\ Matches(r)) => C = B
    BY <1>4, Zenon DEF Found
  <2> HIDE DEF B, C
  <2> QED BY <2>1, <2>2, <2>3, <2>4, CardinalityGrows, Zenon
<1>7. Limit' = Limit
  BY <1>1, Zenon DEF Limit
<1> QED BY <1>2, <1>6, <1>7, Zenon

\* Removing a row lowers the ranks of the rows after it, if it matched, and no
\* others; the total does not grow.
LEMMA RemoveLowers ==
  ASSUME TypeOK, NEW r \in Row, Remove(r)
  PROVE  /\ Limit' = Limit
         /\ \A x : Matches(x)' <=> Matches(x)
         /\ \A x \in Row : Rank(x) \in Nat /\ Rank(x)' \in Nat /\ Rank(x)' <= Rank(x)
         /\ \A x \in Row : ~(r < x /\ Matches(r)) => Rank(x)' = Rank(x)
         /\ Total \in Nat /\ Total' \in Nat /\ Total' <= Total
<1>1. /\ backend' = backend /\ ask' = ask /\ rows' = rows \ {r}
      /\ rows \subseteq Row /\ rows' \subseteq Row
  BY DEF Remove, TypeOK
<1>2. \A x : Matches(x)' <=> Matches(x)
  BY <1>1, ZenonT(30) DEF Matches, MemoryMatches, PostgresMatches
<1>4. Found' = {x \in rows \ {r} : Matches(x)}
  BY <1>1, <1>2, Zenon DEF Found
<1>5. IsFiniteSet(Found)
  BY <1>1, FS_Subset, SearchAssumption, Zenon DEF Found
<1>6. ASSUME NEW x \in Row
      PROVE  /\ Rank(x) \in Nat /\ Rank(x)' \in Nat /\ Rank(x)' <= Rank(x)
             /\ ~(r < x /\ Matches(r)) => Rank(x)' = Rank(x)
  <2> DEFINE B == {s \in Found : s < x}
             C == {s \in Found' : s < x}
  <2>1. Rank(x) = Cardinality(B) /\ Rank(x)' = Cardinality(C)
    BY Zenon DEF Rank
  <2>2. IsFiniteSet(B)
    BY <1>5, FS_Subset, Zenon
  <2>3. C \in SUBSET B
    BY <1>4, Zenon DEF Found
  <2>4. ~(r < x /\ Matches(r)) => C = B
    BY <1>4, Zenon DEF Found
  <2> HIDE DEF B, C
  <2> QED BY <2>1, <2>2, <2>3, <2>4, CardinalityGrows, Zenon
<1>7. Limit' = Limit
  BY <1>1, Zenon DEF Limit
<1>8. Found' \in SUBSET Found
  BY <1>4, Zenon DEF Found
<1>9. Total \in Nat /\ Total' \in Nat /\ Total' <= Total
  BY <1>5, <1>8, CardinalityGrows, Zenon DEF Total
<1> QED BY <1>2, <1>6, <1>7, <1>9, Zenon

----------------------------------------------------------------------------
\* Every page is a set of rows and every total a number (paginate, count).
LEMMA WindowType ==
  ASSUME TypeOK
  PROVE  Window \subseteq Row /\ Total \in Nat
BY Ranks DEF TypeOK, Window, Found

\* Every step keeps the types.
LEMMA TypeStep ==
  ASSUME TypeOK, [Next]_vars
  PROVE  TypeOK'
<1>1. Window \subseteq Row /\ Total \in Nat /\ Limit \in Nat
  BY WindowType, LimitPositive DEF TypeOK
<1>2. CASE Refuse
  BY <1>2 DEF Refuse, GiveUp, Verdict, TypeOK, data, history
<1>3. CASE Scan
  BY <1>1, <1>3 DEF Scan, TypeOK, data, history
<1>4. CASE CountDomains
  BY <1>1, <1>4 DEF CountDomains, TypeOK, data, history
<1>5. CASE SelectDomains
  BY <1>1, <1>5 DEF SelectDomains, TypeOK, data, history
<1>6. CASE SelectCounting
  BY <1>1, <1>6 DEF SelectCounting, TypeOK, data, history
<1>7. CASE QueryFails
  BY <1>7 DEF QueryFails, GiveUp, TypeOK, data, history
<1>8. CASE Respond
  <2>1. \A next \in NextOffset : next \in Nat
    BY <1>1 DEF NextOffset, TypeOK
  <2> QED BY <1>8, <2>1 DEF Respond, TypeOK, data, history
<1>9. ASSUME NEW r \in Row, Insert(r) PROVE TypeOK'
  BY <1>9, SearchAssumption DEF Insert, TypeOK
<1>10. ASSUME NEW r \in Row, Remove(r) PROVE TypeOK'
  BY <1>10, SearchAssumption DEF Remove, TypeOK
<1>11. CASE UNCHANGED vars
  BY <1>11 DEF vars, TypeOK
<1> QED BY <1>2, <1>3, <1>4, <1>5, <1>6, <1>7, <1>8, <1>9, <1>10, <1>11, Zenon DEF Next, Serve

\* A walk starts well typed.
LEMMA TypeInit ==
  ASSUME Init
  PROVE  TypeOK
<1>1. MaxChanges \in Nat
  BY SearchAssumption, Zenon
<1>2. changes \in 0..MaxChanges /\ offset \in Nat /\ total \in Nat
  BY <1>1 DEF Init
<1>3. rows \subseteq Row /\ stable = rows /\ slipped \in BOOLEAN
  BY Zenon DEF Init
<1> QED BY <1>2, <1>3, Zenon DEF Init, TypeOK

\* Types: whatever the handlers, the indexes and the registry do.
THEOREM TypeCorrect == Spec => []TypeOK
<1>1. Init => TypeOK
  BY TypeInit, Zenon
<1>2. ASSUME TypeOK, [Next]_vars PROVE TypeOK'
  BY <1>2, TypeStep, Zenon
<1> QED BY <1>1, <1>2, PTL DEF Spec


----------------------------------------------------------------------------
\* Reading a page (paginate, SELECT ... LIMIT OFFSET): the rows in the window are
\* new, and a match that is owed and not among them lies beyond it, below the
\* total.
LEMMA ReadPage ==
  ASSUME WalkInv, pc \in {"request", "select"}
  PROVE  /\ \A x \in Window : ~InsertedBefore(x) => Rank(x) < offset + Limit /\ x \notin delivered
         /\ \A x \in stable : Owed(x) /\ x \notin Window =>
              offset + Limit <= Rank(x) /\ offset + Limit < Total
<1>1. /\ offset \in Nat /\ Limit \in Nat /\ Total \in Nat /\ rows \subseteq Row
      /\ stable \subseteq rows
      /\ \A x \in Row : Rank(x) \in Nat
      /\ \A x \in Found : Rank(x) < Total
  BY Ranks, LimitPositive DEF WalkInv, TypeOK
<1>2. ASSUME NEW x \in Window, ~InsertedBefore(x)
      PROVE  Rank(x) < offset + Limit /\ x \notin delivered
  <2>1. x \in Row /\ offset <= Rank(x) /\ Rank(x) < offset + Limit
    BY <1>1, Zenon DEF Window, Found
  <2>2. x \in delivered => Rank(x) < offset
    BY <1>2, Zenon DEF WalkInv, AlreadyBehind
  <2> QED BY <1>1, <2>1, <2>2
<1>3. ASSUME NEW x \in stable, Owed(x), x \notin Window
      PROVE  offset + Limit <= Rank(x) /\ offset + Limit < Total
  <2>1. x \in Found /\ x \in Row
    BY <1>1, <1>3, Zenon DEF Owed, Found
  <2>2. offset <= Rank(x)
    BY <1>3, Zenon DEF WalkInv, StillAhead
  <2>3. ~(Rank(x) < offset + Limit)
    BY <1>3, <2>1, <2>2, Zenon DEF Window
  <2> QED BY <1>1, <2>1, <2>3
<1> QED BY <1>2, <1>3, Zenon

\* If some match ranks at the offset or after it, a page read there is not empty
\* (the rows of count(star) OVER carry the total only when there are rows).
LEMMA WindowInhabited ==
  ASSUME TypeOK, NEW x \in Found, offset <= Rank(x)
  PROVE  Window # {}
<1>1. /\ IsFiniteSet(Found) /\ Found \subseteq Nat /\ Found \subseteq Row /\ offset \in Nat
      /\ Limit \in Nat \ {0} /\ \A s \in Found : Rank(s) \in Nat
  BY Ranks, LimitPositive, SearchAssumption, ZenonT(30) DEF TypeOK, Found
<1> DEFINE Late == {s \in Found : offset <= Rank(s)}
<1>2. Late # {} /\ Late \in SUBSET Nat
  BY <1>1, Zenon
<1>3. PICK y \in Late : \A s \in Late : y <= s
  BY <1>2, LeastNumber, Zenon
<1>4. Rank(y) <= offset
  <2> SUFFICES ASSUME ~(Rank(y) <= offset) PROVE FALSE
    BY Zenon
  <2> DEFINE B == {s \in Found : s < y}
             D == {y - s : s \in B}
  <2>1. B \in SUBSET Found /\ IsFiniteSet(B) /\ Rank(y) = Cardinality(B)
    BY <1>1, FS_Subset, Zenon DEF Rank
  <2>2. B # {}
    BY <1>1, <2>1, FS_EmptySet
  <2>11. y \in Nat /\ \A s \in B : s \in Nat /\ y - s \in Nat /\ s < y /\ s \in Found
    BY <1>1
  <2>12. \A s \in Found : s < y => s \in B
    BY Zenon
  <2> HIDE DEF B
  <2>3. D # {} /\ D \in SUBSET Nat
    BY <2>2, <2>11, Zenon
  <2>4. PICK d \in D : \A e \in D : d <= e
    BY <2>3, LeastNumber, Zenon
  <2>5. PICK z \in B : d = y - z
    BY <2>4, Zenon
  <2>6. \A s \in B : s <= z
    <3> SUFFICES ASSUME NEW s \in B PROVE s <= z
      BY Zenon
    <3>1. y - z <= y - s
      BY <2>4, <2>5, Zenon
    <3> QED BY <2>11, <3>1
  <2>7. {s \in Found : s < z} = B \ {z}
    <3>1. ASSUME NEW s \in Found, s < z PROVE s \in B /\ s # z
      BY <1>1, <2>11, <2>12, <3>1
    <3>2. ASSUME NEW s \in B, s # z PROVE s \in Found /\ s < z
      BY <2>11, <2>6, <3>2
    <3> QED BY <3>1, <3>2, Zenon
  <2>8. Cardinality(B \ {z}) = Cardinality(B) - 1
    BY <2>1, FS_RemoveElement, Zenon
  <2>9. Rank(z) = Rank(y) - 1
    BY <2>1, <2>7, <2>8, Zenon DEF Rank
  <2>10. z \in Late
    BY <1>1, <2>11, <2>5, <2>9
  <2> QED BY <1>3, <2>11, <2>5, <2>10
<1>5. y \in Window
  BY <1>1, <1>3, <1>4 DEF Window
<1> QED BY <1>5, Zenon

\* What the histories say of a row does not change in a step that leaves them and
\* the data alone.
LEMMA SameHistory ==
  ASSUME UNCHANGED <<data, history>>
  PROVE  /\ \A x : RemovedBefore(x)' <=> RemovedBefore(x)
         /\ \A x : InsertedBefore(x)' <=> InsertedBefore(x)
         /\ stable' = stable /\ slipped' = slipped
<1>1. /\ removed' = removed /\ inserted' = inserted /\ stable' = stable /\ slipped' = slipped
      /\ UNCHANGED data
  BY Zenon DEF history
<1>2. \A x : Matches(x)' <=> Matches(x)
  BY <1>1, SameData, Zenon
<1> QED BY <1>1, <1>2, Zenon DEF RemovedBefore, InsertedBefore

\* A refused or failed request ends the walk without a claim of completeness.
LEMMA RefusedStep ==
  ASSUME WalkInv, Refuse \/ QueryFails
  PROVE  WalkComplete' /\ RepeatedOnlyAfterInsertion' /\ StillAhead' /\ AlreadyBehind'
         /\ CountCovers' /\ PageFits'
<1>1. pc' = "refused" /\ repeated' = repeated /\ UNCHANGED <<data, history>>
  BY DEF Refuse, QueryFails, GiveUp
<1>2. \A x : InsertedBefore(x)' <=> InsertedBefore(x)
  BY <1>1, SameHistory, Zenon
<1>3. RepeatedOnlyAfterInsertion'
  BY <1>1, <1>2, Zenon DEF WalkInv, RepeatedOnlyAfterInsertion
<1> QED BY <1>1, <1>3, Zenon DEF WalkComplete, StillAhead, AlreadyBehind, CountCovers, PageFits

\* The count of SearchDomains covers what is stored.
LEMMA CountStep ==
  ASSUME WalkInv, CountDomains
  PROVE  WalkComplete' /\ RepeatedOnlyAfterInsertion' /\ StillAhead' /\ AlreadyBehind'
         /\ CountCovers' /\ PageFits'
<1>1. /\ pc = "request" /\ pc' = "select" /\ total' = Total /\ repeated' = repeated
      /\ offset' = offset /\ delivered' = delivered /\ UNCHANGED <<data, history>>
  BY Zenon DEF CountDomains, Admitted
<1>2. /\ Total' = Total /\ stable' = stable /\ slipped' = slipped
      /\ \A x : /\ Rank(x)' = Rank(x) /\ (Matches(x)' <=> Matches(x))
                /\ (InsertedBefore(x)' <=> InsertedBefore(x))
                /\ (RemovedBefore(x)' <=> RemovedBefore(x))
  BY <1>1, SameHistory, SameData, Zenon
<1>3. Total \in Nat
  BY Ranks DEF WalkInv, TypeOK
<1>4. RepeatedOnlyAfterInsertion'
  BY <1>1, <1>2, Zenon DEF WalkInv, RepeatedOnlyAfterInsertion
<1>5. StillAhead'
  BY <1>1, <1>2, Zenon DEF WalkInv, StillAhead, Owed
<1>6. AlreadyBehind'
  BY <1>1, <1>2, Zenon DEF WalkInv, AlreadyBehind
<1>7. CountCovers'
  BY <1>1, <1>2, <1>3 DEF CountCovers
<1> QED BY <1>1, <1>4, <1>5, <1>6, <1>7, Zenon DEF WalkComplete, PageFits

\* A page read from one snapshot, or after a count that covers it, fits.
LEMMA ReadStep ==
  ASSUME WalkInv, Scan \/ SelectDomains \/ SelectCounting
  PROVE  WalkComplete' /\ RepeatedOnlyAfterInsertion' /\ StillAhead' /\ AlreadyBehind'
         /\ CountCovers' /\ PageFits'
<1>1. /\ pc \in {"request", "select"} /\ pc' = "respond" /\ page' = Window /\ repeated' = repeated
      /\ offset' = offset /\ delivered' = delivered /\ UNCHANGED <<data, history>>
  BY Zenon DEF Scan, SelectDomains, SelectCounting, Admitted
<1>2. /\ Limit' = Limit /\ stable' = stable /\ slipped' = slipped
      /\ \A x : /\ Rank(x)' = Rank(x) /\ (Matches(x)' <=> Matches(x))
                /\ (InsertedBefore(x)' <=> InsertedBefore(x))
                /\ (RemovedBefore(x)' <=> RemovedBefore(x))
  BY <1>1, SameHistory, SameData, Zenon
<1>3. /\ \A x \in Window : ~InsertedBefore(x) => Rank(x) < offset + Limit /\ x \notin delivered
      /\ \A x \in stable : Owed(x) /\ x \notin Window =>
           offset + Limit <= Rank(x) /\ offset + Limit < Total
  BY <1>1, ReadPage, Zenon
<1>4. RepeatedOnlyAfterInsertion'
  BY <1>1, <1>2, Zenon DEF WalkInv, RepeatedOnlyAfterInsertion
<1>5. AlreadyBehind'
  BY <1>1, <1>2, Zenon DEF WalkInv, AlreadyBehind
<1>6. \A x : Owed(x)' <=> Owed(x)
  BY <1>1, <1>2, Zenon DEF Owed
<1>7. ASSUME NEW x \in stable, Owed(x), x \notin Window
      PROVE  offset + Limit < total'
  <2>1. /\ offset \in Nat /\ Limit \in Nat /\ Total \in Nat /\ total \in Nat
        /\ offset + Limit <= Rank(x) /\ offset + Limit < Total
    BY <1>3, <1>7, Ranks, LimitPositive DEF WalkInv, TypeOK
  <2>2. CASE Scan
    BY <2>1, <2>2, Zenon DEF Scan
  <2>3. CASE SelectDomains
    <3>1. total' = total /\ pc = "select"
      BY <2>3, Zenon DEF SelectDomains
    <3>2. ~slipped
      BY <1>7, Zenon DEF Owed
    <3> QED BY <2>1, <3>1, <3>2 DEF WalkInv, CountCovers
  <2>4. CASE SelectCounting
    <3>1. x \in Found /\ Rank(x) \in Nat
      BY <1>7, Ranks DEF WalkInv, TypeOK, Owed, Found
    <3>2. Window # {}
      BY <2>1, <3>1, WindowInhabited DEF WalkInv
    <3> QED BY <2>1, <2>4, <3>2, Zenon DEF SelectCounting
  <2> QED BY <2>2, <2>3, <2>4, Zenon
<1>8. PageFits'
  BY <1>1, <1>2, <1>3, <1>6, <1>7, Zenon DEF PageFits
<1> QED BY <1>1, <1>4, <1>5, <1>8, Zenon DEF WalkComplete, StillAhead, CountCovers

\* A response hands over the page and a cursor to all that is owed beyond it; the
\* walk is complete when there is no cursor (pagingMeta).
LEMMA RespondStep ==
  ASSUME WalkInv, Respond
  PROVE  WalkComplete' /\ RepeatedOnlyAfterInsertion' /\ StillAhead' /\ AlreadyBehind'
         /\ CountCovers' /\ PageFits'
<1>1. /\ pc = "respond" /\ delivered' = delivered \cup page
      /\ repeated' = repeated \cup (delivered \cap page)
      /\ UNCHANGED <<data, history>> /\ pc' \in {"request", "done"}
  BY Zenon DEF Respond
<1>2. /\ stable' = stable /\ slipped' = slipped
      /\ \A x : /\ Rank(x)' = Rank(x) /\ (Matches(x)' <=> Matches(x))
                /\ (InsertedBefore(x)' <=> InsertedBefore(x))
                /\ (RemovedBefore(x)' <=> RemovedBefore(x))
  BY <1>1, SameHistory, SameData, Zenon
<1>3. /\ offset \in Nat /\ Limit \in Nat /\ total \in Nat /\ delivered \subseteq Row /\ page \subseteq Row
      /\ \A x \in Row : Rank(x) \in Nat
  BY Ranks, LimitPositive DEF WalkInv, TypeOK
<1>4. \/ pc' = "request" /\ offset' = offset + Limit
      \/ pc' = "done" /\ ~(offset + Limit < total)
  <2>1. CASE NextOffset = {}
    BY <1>3, <2>1 DEF Respond, NextOffset
  <2>2. CASE NextOffset # {}
    BY <2>2, Zenon DEF Respond, NextOffset
  <2> QED BY <2>1, <2>2, Zenon
<1>5. RepeatedOnlyAfterInsertion'
  BY <1>1, <1>2, Zenon DEF WalkInv, RepeatedOnlyAfterInsertion, PageFits
<1>6. \A x : Owed(x)' <=> Owed(x) /\ x \notin page
  BY <1>1, <1>2, Zenon DEF Owed
<1>7. StillAhead'
  BY <1>1, <1>2, <1>4, <1>6, Zenon DEF WalkInv, StillAhead, PageFits
<1>8. AlreadyBehind'
  <2> SUFFICES ASSUME pc' = "request", NEW x \in delivered \cup page, ~InsertedBefore(x)
               PROVE  Rank(x) < offset + Limit
    BY <1>1, <1>2, <1>4, Zenon DEF AlreadyBehind
  <2>1. CASE x \in page
    BY <1>1, <2>1, Zenon DEF WalkInv, PageFits
  <2>2. CASE x \in delivered
    <3>1. Rank(x) < offset
      BY <1>1, <2>2, Zenon DEF WalkInv, AlreadyBehind
    <3> QED BY <1>3, <2>2, <3>1
  <2> QED BY <2>1, <2>2, Zenon
<1>9. WalkComplete'
  <2> SUFFICES ASSUME pc' = "done", NEW x \in stable, Matches(x), ~RemovedBefore(x), ~slipped
               PROVE  x \in delivered \cup page
    BY <1>1, <1>2, Zenon DEF WalkComplete
  <2>1. ~(offset + Limit < total)
    BY <1>4, Zenon
  <2> QED BY <1>1, <2>1, Zenon DEF WalkInv, PageFits, Owed
<1> QED BY <1>1, <1>5, <1>7, <1>8, <1>9, Zenon DEF CountCovers, PageFits

\* Inserted rows push those after them back, beyond the offset.
LEMMA InsertStep ==
  ASSUME WalkInv, NEW r \in Row, Insert(r)
  PROVE  WalkComplete' /\ RepeatedOnlyAfterInsertion' /\ StillAhead' /\ AlreadyBehind'
         /\ CountCovers' /\ PageFits'
<1>1. /\ pc \in {"request", "select", "respond"} /\ pc' = pc /\ inserted' = inserted \cup {r}
      /\ slipped' = (slipped \/ pc = "select") /\ removed' = removed /\ stable' = stable
      /\ delivered' = delivered /\ repeated' = repeated /\ page' = page /\ offset' = offset
      /\ total' = total
  BY Zenon DEF Insert
<1>2. /\ Limit' = Limit /\ \A x : Matches(x)' <=> Matches(x)
      /\ \A x \in Row : Rank(x) \in Nat /\ Rank(x)' \in Nat /\ Rank(x) <= Rank(x)'
      /\ \A x \in Row : ~(r < x /\ Matches(r)) => Rank(x)' = Rank(x)
  BY InsertRaises, Zenon DEF WalkInv
<1>3. /\ offset \in Nat /\ Limit \in Nat /\ delivered \subseteq Row /\ page \subseteq Row
      /\ stable \subseteq Row
  BY LimitPositive DEF WalkInv, TypeOK
<1>4. \A x : ~InsertedBefore(x)' => ~InsertedBefore(x) /\ ~(r < x /\ Matches(r))
  BY <1>1, <1>2, Zenon DEF InsertedBefore
<1>5. \A x : Owed(x)' => Owed(x)
  BY <1>1, <1>2, Zenon DEF Owed, RemovedBefore
<1>6. RepeatedOnlyAfterInsertion'
  BY <1>1, <1>4, Zenon DEF WalkInv, RepeatedOnlyAfterInsertion
<1>7. StillAhead'
  <2> SUFFICES ASSUME pc \in {"request", "select"}, NEW x \in stable, Owed(x)
               PROVE  offset <= Rank(x)'
    BY <1>1, <1>5, Zenon DEF StillAhead
  <2>1. offset <= Rank(x)
    BY Zenon DEF WalkInv, StillAhead
  <2>2. x \in Row
    BY <1>3, Zenon
  <2> QED BY <1>2, <1>3, <2>1, <2>2
<1>8. AlreadyBehind'
  BY <1>1, <1>2, <1>3, <1>4, Zenon DEF WalkInv, AlreadyBehind
<1>9. CountCovers'
  BY <1>1, Zenon DEF CountCovers
<1>10. PageFits'
  <2> SUFFICES ASSUME pc = "respond" PROVE PageFits'
    BY <1>1, Zenon DEF PageFits
  <2>1. ASSUME NEW x \in page, ~InsertedBefore(x)'
        PROVE  Rank(x)' < offset + Limit /\ x \notin delivered
    <3>1. ~InsertedBefore(x) /\ Rank(x)' = Rank(x)
      BY <1>2, <1>3, <1>4, <2>1, Zenon
    <3> QED BY <2>1, <3>1, Zenon DEF WalkInv, PageFits
  <2>2. ASSUME NEW x \in stable, Owed(x)', x \notin page
        PROVE  offset + Limit <= Rank(x)' /\ offset + Limit < total
    <3>1. offset + Limit <= Rank(x) /\ offset + Limit < total
      BY <1>5, <2>2, Zenon DEF WalkInv, PageFits
    <3>2. x \in Row
      BY <1>3, Zenon
    <3> QED BY <1>2, <1>3, <3>1, <3>2
  <2> QED BY <1>1, <1>2, <2>1, <2>2, Zenon DEF PageFits
<1> QED BY <1>1, <1>6, <1>7, <1>8, <1>9, <1>10, Zenon DEF WalkComplete

\* Removed rows let those after them move up, before the offset.
LEMMA RemoveStep ==
  ASSUME WalkInv, NEW r \in Row, Remove(r)
  PROVE  WalkComplete' /\ RepeatedOnlyAfterInsertion' /\ StillAhead' /\ AlreadyBehind'
         /\ CountCovers' /\ PageFits'
<1>1. /\ pc \in {"request", "select", "respond"} /\ pc' = pc /\ removed' = removed \cup {r}
      /\ slipped' = slipped /\ inserted' = inserted /\ stable' = stable \ {r}
      /\ delivered' = delivered /\ repeated' = repeated /\ page' = page /\ offset' = offset
      /\ total' = total
  BY Zenon DEF Remove
<1>2. /\ Limit' = Limit /\ \A x : Matches(x)' <=> Matches(x)
      /\ \A x \in Row : Rank(x) \in Nat /\ Rank(x)' \in Nat /\ Rank(x)' <= Rank(x)
      /\ \A x \in Row : ~(r < x /\ Matches(r)) => Rank(x)' = Rank(x)
      /\ Total \in Nat /\ Total' \in Nat /\ Total' <= Total
  BY RemoveLowers, Zenon DEF WalkInv
<1>3. /\ offset \in Nat /\ Limit \in Nat /\ total \in Nat /\ delivered \subseteq Row
      /\ page \subseteq Row /\ stable \subseteq Row
  BY LimitPositive DEF WalkInv, TypeOK
<1>4. \A x : InsertedBefore(x)' <=> InsertedBefore(x)
  BY <1>1, <1>2, Zenon DEF InsertedBefore
<1>5. \A x : Owed(x)' => Owed(x) /\ ~(r < x /\ Matches(r))
  BY <1>1, <1>2, Zenon DEF Owed, RemovedBefore
<1>6. RepeatedOnlyAfterInsertion'
  BY <1>1, <1>4, Zenon DEF WalkInv, RepeatedOnlyAfterInsertion
<1>7. StillAhead'
  <2> SUFFICES ASSUME pc \in {"request", "select"}, NEW x \in stable, Owed(x)'
               PROVE  offset <= Rank(x)'
    BY <1>1, Zenon DEF StillAhead
  <2>1. offset <= Rank(x)
    BY <1>5, Zenon DEF WalkInv, StillAhead
  <2> QED BY <1>2, <1>3, <1>5, <2>1, Zenon
<1>8. AlreadyBehind'
  <2> SUFFICES ASSUME NEW x \in delivered, ~InsertedBefore(x)
               PROVE  Rank(x)' < offset
    BY <1>1, <1>4, Zenon DEF AlreadyBehind
  <2>1. Rank(x) < offset
    BY <1>1, Zenon DEF WalkInv, AlreadyBehind
  <2>2. x \in Row
    BY <1>3, Zenon
  <2> QED BY <1>2, <1>3, <2>1, <2>2
<1>9. CountCovers'
  <2> SUFFICES ASSUME pc = "select", ~slipped PROVE Total' <= total
    BY <1>1, Zenon DEF CountCovers
  <2>1. Total <= total
    BY Zenon DEF WalkInv, CountCovers
  <2> QED BY <1>2, <1>3, <2>1
<1>10. PageFits'
  <2> SUFFICES ASSUME pc = "respond" PROVE PageFits'
    BY <1>1, Zenon DEF PageFits
  <2>1. ASSUME NEW x \in page, ~InsertedBefore(x)
        PROVE  Rank(x)' < offset + Limit /\ x \notin delivered
    <3>1. Rank(x) < offset + Limit /\ x \notin delivered
      BY <2>1, Zenon DEF WalkInv, PageFits
    <3>2. x \in Row
      BY <1>3, Zenon
    <3> QED BY <1>2, <1>3, <3>1, <3>2
  <2>2. ASSUME NEW x \in stable, Owed(x)', x \notin page
        PROVE  offset + Limit <= Rank(x)' /\ offset + Limit < total
    <3>1. offset + Limit <= Rank(x) /\ offset + Limit < total
      BY <1>5, <2>2, Zenon DEF WalkInv, PageFits
    <3>2. Rank(x)' = Rank(x)
      BY <1>2, <1>3, <1>5, <2>2, Zenon
    <3> QED BY <3>1, <3>2, Zenon
  <2> QED BY <1>1, <1>2, <1>4, <2>1, <2>2, Zenon DEF PageFits
<1> QED BY <1>1, <1>6, <1>7, <1>8, <1>9, <1>10, Zenon DEF WalkComplete

\* A step in which nothing changes.
LEMMA IdleStep ==
  ASSUME WalkInv, UNCHANGED vars
  PROVE  WalkComplete' /\ RepeatedOnlyAfterInsertion' /\ StillAhead' /\ AlreadyBehind'
         /\ CountCovers' /\ PageFits'
<1>1. /\ pc' = pc /\ offset' = offset /\ total' = total /\ page' = page
      /\ delivered' = delivered /\ repeated' = repeated /\ UNCHANGED <<data, history>>
  BY Zenon DEF vars, data, history
<1>2. /\ Limit' = Limit /\ Total' = Total /\ stable' = stable /\ slipped' = slipped
      /\ \A x : /\ Rank(x)' = Rank(x) /\ (Matches(x)' <=> Matches(x))
                /\ (InsertedBefore(x)' <=> InsertedBefore(x))
                /\ (RemovedBefore(x)' <=> RemovedBefore(x))
  BY <1>1, SameHistory, SameData, Zenon
<1>3. \A x : Owed(x)' <=> Owed(x)
  BY <1>1, <1>2, Zenon DEF Owed
<1>4. WalkComplete' /\ RepeatedOnlyAfterInsertion'
  BY <1>1, <1>2, Zenon DEF WalkInv, WalkComplete, RepeatedOnlyAfterInsertion
<1>5. StillAhead' /\ AlreadyBehind' /\ CountCovers'
  BY <1>1, <1>2, <1>3, Zenon DEF WalkInv, StillAhead, AlreadyBehind, CountCovers
<1>6. PageFits'
  BY <1>1, <1>2, <1>3 DEF WalkInv, PageFits
<1> QED BY <1>4, <1>5, <1>6, Zenon

\* The walk's invariant holds from the first request on, whatever the handlers,
\* the indexes and the registry do.
THEOREM WalkInvariant == Spec => []WalkInv
<1>1. Init => WalkInv
  <2> SUFFICES ASSUME Init PROVE WalkInv
    BY Zenon
  <2>1. TypeOK /\ rows \subseteq Row /\ stable \subseteq Row
    BY TypeInit DEF TypeOK
  <2>2. /\ pc = "request" /\ offset = 0 /\ delivered = {} /\ repeated = {}
    BY Zenon DEF Init
  <2>3. \A x \in Row : Rank(x) \in Nat
    BY <2>1, Ranks, Zenon
  <2>4. StillAhead
    BY <2>1, <2>2, <2>3 DEF StillAhead
  <2> QED BY <2>1, <2>2, <2>4, Zenon DEF WalkInv, WalkComplete, RepeatedOnlyAfterInsertion,
          AlreadyBehind, CountCovers, PageFits
<1>2. ASSUME WalkInv, [Next]_vars PROVE WalkInv'
  <2>1. TypeOK'
    BY <1>2, TypeStep, Zenon DEF WalkInv
  <2>2. WalkComplete' /\ RepeatedOnlyAfterInsertion' /\ StillAhead' /\ AlreadyBehind'
        /\ CountCovers' /\ PageFits'
    <3>1. CASE Refuse \/ QueryFails
      BY <1>2, <3>1, RefusedStep, Zenon
    <3>2. CASE CountDomains
      BY <1>2, <3>2, CountStep, Zenon
    <3>3. CASE Scan \/ SelectDomains \/ SelectCounting
      BY <1>2, <3>3, ReadStep, Zenon
    <3>4. CASE Respond
      BY <1>2, <3>4, RespondStep, Zenon
    <3>5. CASE \E r \in Row : Insert(r)
      BY <1>2, <3>5, InsertStep, Zenon
    <3>6. CASE \E r \in Row : Remove(r)
      BY <1>2, <3>6, RemoveStep, Zenon
    <3>7. CASE UNCHANGED vars
      BY <1>2, <3>7, IdleStep, Zenon
    <3> QED BY <1>2, <3>1, <3>2, <3>3, <3>4, <3>5, <3>6, <3>7, Zenon DEF Next, Serve
  <2> QED BY <2>1, <2>2, Zenon DEF WalkInv
<1> QED BY <1>1, <1>2, PTL DEF Spec

\* A walk misses a match only after an earlier one was removed or rows slipped in
\* between the two statements of SearchDomains.
THEOREM WalksAreComplete == Spec => []WalkComplete
<1>1. WalkInv => WalkComplete
  BY Zenon DEF WalkInv
<1> QED BY <1>1, WalkInvariant, PTL

\* A walk repeats a row only after an earlier match was inserted.
THEOREM WalksRepeatOnlyAfterInsertion == Spec => []RepeatedOnlyAfterInsertion
<1>1. WalkInv => RepeatedOnlyAfterInsertion
  BY Zenon DEF WalkInv
<1> QED BY <1>1, WalkInvariant, PTL

----------------------------------------------------------------------------
\* A sequence of one element.
LEMMA OneElement ==
  ASSUME NEW S, NEW s \in Seq(S), Len(s) = 1
  PROVE  DOMAIN s = {1} /\ s[1] \in S
<1>1. DOMAIN s = 1..Len(s) /\ \A i \in 1..Len(s) : s[i] \in S
  BY Sequence
<1>2. 1..1 = {1}
  OBVIOUS
<1> QED BY <1>1, <1>2

\* On a search by name alone with wildcards at its edges, a row with one form of the
\* name is found by the in-memory index if and only if it is found by PostgreSQL.
LEMMA NameFoundAlike ==
  ASSUME NEW a \in Asks, NEW r \in Row, a.class \in {"domains", "nameservers"},
         DOMAIN Terms(a) = {"name"}, IsEdged(Terms(a)["name"]),
         Len(Data[a.class][r]["name"]) = 1
  PROVE  MemoryMatches(a, r) <=> PostgresMatches(a, r)
<1> DEFINE p == Terms(a)["name"]
           values == Data[a.class][r]["name"]
<1>1. /\ a.class \in Class /\ "name" \in Fields[a.class] /\ "name" \in Indexed[a.class]
      /\ "name" \in Columns[a.class]
  <2>1. CASE a.class = "domains"
    BY <2>1 DEF Class, Fields, Indexed, Columns
  <2>2. CASE a.class = "nameservers"
    BY <2>2 DEF Class, Fields, Indexed, Columns
  <2> QED BY <2>1, <2>2, Zenon
<1>2. "name" \in DOMAIN a.params /\ p = a.params["name"] /\ p # <<>>
  BY DEF Terms, Restrict
<1>3. p \in Seq(STRING)
  BY <1>2, SearchAssumption
<1>4. values \in Seq(Seq(STRING))
  BY <1>1, SearchAssumption
<1> HIDE DEF p, values
<1>5. Len(values) = 1
  BY DEF values
<1>6. DOMAIN values = {1} /\ values[1] \in Seq(STRING)
  BY <1>4, <1>5, OneElement
<1>7. Range(values) = {values[1]}
  BY <1>6 DEF Range
<1>8. MemoryMatches(a, r) <=> MatchPattern(values[1], p)
  <2>1. MemoryMatches(a, r) <=> \E v \in Range(values) : MatchPattern(v, p)
    BY <1>1, Zenon DEF MemoryMatches, p, values
  <2> QED BY <1>7, <2>1
<1>9. PostgresMatches(a, r) <=> Like(values[1], IlikePattern(p))
  <2>1. DOMAIN Terms(a) \cap Columns[a.class] = {"name"}
    BY <1>1
  <2>2. PostgresMatches(a, r) <=>
          \E i \in DOMAIN values : ("name" = "name" => i = 1) /\ Like(values[i], IlikePattern(p))
    BY <2>1, ZenonT(30) DEF PostgresMatches, p, values
  <2> QED BY <1>6, <2>2
<1>10. MatchPattern(values[1], p) <=> Like(values[1], IlikePattern(p))
  <2>1. IsEdged(p)
    BY DEF p
  <2> QED BY <1>2, <1>3, <1>6, <2>1, PatternsAgree
<1> QED BY <1>8, <1>9, <1>10

\* The two indexes agree on searches by name with wildcards at the edges, whatever
\* the names, the patterns and the rows (MatchPattern, ilikePattern).
THEOREM IndexesAgreeOnNames == Spec => []IndexesAgree
<1>1. ASSUME WalkInv PROVE IndexesAgree
  <2>1. ask \in Asks
    BY <1>1 DEF WalkInv, TypeOK
  <2> QED BY <2>1, NameFoundAlike DEF IndexesAgree
<1> QED BY <1>1, WalkInvariant, PTL
============================================================================
