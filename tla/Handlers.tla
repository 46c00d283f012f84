------------------------------ MODULE Handlers -----------------------------
(***************************************************************************)
(* The lookup handlers and the router of pkg/rdap/handlers: which queries  *)
(* reach the data source, and what is rendered from its answer.            *)
(*                                                                         *)
(* A query is what the handlers look at: the method, the object class and  *)
(* the raw identifier of the path, whether the Accept header allows RDAP   *)
(* JSON, whether jCard-only output was negotiated, and the caller's tier.  *)
(***************************************************************************)
EXTENDS Integers

CONSTANTS
  Id,       \* raw identifiers in request paths
  Key,      \* lookup keys, as idn.Normalize, netip.ParseAddr or validate give them
  KeyOf,    \* class |-> raw identifier |-> lookup key, "malformed" or "unrouted"
  Tier,     \* access tiers
  None

Class == {"domain", "entity", "nameserver", "ip"}

Object == [class : Class, key : Key]

Query == [method : {"GET", "HEAD", "POST"}, class : Class \cup {"help", "other"}, id : Id,
          accepts : BOOLEAN, form : {"default", "jcard"}, tier : Tier]

\* What a 200 for an object shows: the record's read time stands for its
\* contents, tier and form say how it was redacted and laid out.
View == [of : Object, at : Nat, tier : Tier, form : {"default", "jcard"}]

Response == [status : {200, 302, 400, 403, 404, 406, 500}, view : View \cup {None}]

\* The router's patterns: GET patterns match HEAD too, everything else falls to
\* the catch-all, an identifier that is empty or has a slash in it included.
Routed(r) ==
  /\ r.method \in {"GET", "HEAD"} /\ r.class # "other"
  /\ r.class \in Class => KeyOf[r.class][r.id] # "unrouted"

Asked(r) == [class |-> r.class, key |-> KeyOf[r.class][r.id]]

\* The handlers' checks before they ask the data source.
AsksRecord(r) == Routed(r) /\ r.class \in Class /\ r.accepts /\ KeyOf[r.class][r.id] \in Key

Plain(status) == [status |-> status, view |-> None]

\* The response when no record is asked for.
Declined(r) ==
  IF ~Routed(r) THEN Plain(404)
  ELSE IF r.class = "help" THEN Plain(200)
  ELSE IF ~r.accepts THEN Plain(406)
  ELSE Plain(400)

StatusFor(err) ==
  IF err = "notfound" THEN 404 ELSE IF err = "unauthorized" THEN 403 ELSE 500

\* Only domains and networks are referred to another server.
Refers(r, err, known) == err = "notfound" /\ r.class \in {"domain", "ip"} /\ known

\* HandleDomain, HandleEntity, HandleNameserver, HandleIP: the response to the
\* data source's result; referral says whether the bootstrap registry is there
\* and knows a server.
Rendered(r, result, referral) ==
  IF result.err = "nil"
  THEN [status |-> 200, view |-> [of |-> result.of, at |-> result.at,
                                  tier |-> r.tier, form |-> r.form]]
  ELSE IF Refers(r, result.err, referral) THEN Plain(302)
  ELSE Plain(StatusFor(result.err))

\* A redirect has no body.
HasBody(resp) == resp.status # 302
============================================================================
