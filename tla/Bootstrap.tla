----------------------------- MODULE Bootstrap -----------------------------
(***************************************************************************)
(* The IANA bootstrap registry (pkg/rdap/bootstrap/bootstrap.go): the      *)
(* tables Refresh makes from the published files, and what a lookup finds  *)
(* in them.                                                                *)
(*                                                                         *)
(* A file is a sequence of services.  A service has the zones, or the      *)
(* address ranges, it is for, and the base URLs of its servers; ok says    *)
(* that it has both.  A name is the sequence of its labels, a range the    *)
(* set of its addresses; a CIDR that does not parse is the empty range.    *)
(***************************************************************************)
EXTENDS Integers, Sequences, FiniteSetsExt

CONSTANTS
  Label,    \* labels of names, in upper and lower case
  Lower,    \* strings.ToLower, label by label
  Address,
  Url

Name == Seq(Label)

ZoneFile == Seq([ok : BOOLEAN, for : SUBSET Name, urls : Seq(Url)])

RangeFile == Seq([ok : BOOLEAN, for : SUBSET SUBSET Address, urls : Seq(Url)])

ASSUME LowerAssumption == Lower \in [Label -> Label]

ToLower(name) == [i \in DOMAIN name |-> Lower[name[i]]]

----------------------------------------------------------------------------
\* The services of a file that list a zone; the last one is the map's value.
Listing(file, zone) == {i \in DOMAIN file : file[i].ok /\ \E z \in file[i].for : ToLower(z) = zone}

\* tldServers: zone |-> servers.
TldServers(file) ==
  [zone \in UNION {{ToLower(z) : z \in file[i].for} : i \in {j \in DOMAIN file : file[j].ok}}
     |-> file[Max(Listing(file, zone))].urls]

\* Mutant: the top-level domain decides.
DomainServersShortest(file, name) ==
  LET table == TldServers(file)
      hits  == {i \in DOMAIN name : SubSeq(ToLower(name), i, Len(name)) \in DOMAIN table}
  IN IF hits = {} THEN <<>> ELSE table[SubSeq(ToLower(name), Max(hits), Len(name))]

\* The walk from the whole name upwards stops at the first zone in the table.
DomainServers(file, name) ==
  LET table == TldServers(file)
      hits  == {i \in DOMAIN name : SubSeq(ToLower(name), i, Len(name)) \in DOMAIN table}
  IN IF hits = {} THEN <<>> ELSE table[SubSeq(ToLower(name), Min(hits), Len(name))]

\* parsePrefixes keeps the order of the services, and the scan stops at the first
\* range with the address in it.
IPServers(file, ip) ==
  LET hits == {i \in DOMAIN file : file[i].ok /\ \E r \in file[i].for : ip \in r}
  IN IF hits = {} THEN <<>> ELSE file[Min(hits)].urls

----------------------------------------------------------------------------
(* What the files say, for comparison.                                     *)

IsSuffix(zone, name) == \E i \in DOMAIN name : zone = SubSeq(name, i, Len(name))

\* A service is responsible for a name if it lists a zone of it and no service
\* lists a longer one, or the same one later.
ResponsibleForName(file, name, i) ==
  \E zone \in {ToLower(z) : z \in file[i].for} :
    /\ file[i].ok /\ IsSuffix(zone, ToLower(name))
    /\ \A j \in DOMAIN file : file[j].ok => \A z \in file[j].for :
         IsSuffix(ToLower(z), ToLower(name)) =>
           Len(z) < Len(zone) \/ (ToLower(z) = zone /\ j <= i)

\* A service is responsible for an address if it is the first to list a range
\* with the address in it.  (RFC 7484 has the longest range decide; in a file whose
\* ranges do not overlap the two are the same.)
ResponsibleForAddress(file, ip, i) ==
  /\ file[i].ok /\ \E r \in file[i].for : ip \in r
  /\ \A j \in 1..(i - 1) : file[j].ok => \A r \in file[j].for : ip \notin r
============================================================================
