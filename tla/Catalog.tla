------------------------------- MODULE Catalog -------------------------------
(***************************************************************************)
(* The family catalog (catalog/catalog.go): Decode of a document that its  *)
(* authors edit.  encoding/json, which Decode is built on, binds a member  *)
(* whatever the case of its name, keeps the last of several, and leaves    *)
(* what is absent or null at its zero value; Decode is to accept none of   *)
(* that, so that everyone who reads the document reads the same.           *)
(*                                                                         *)
(* A document is its top object and its rows, each a sequence of members   *)
(* [name, exact, value].  Names and values stand for classes of them.      *)
(***************************************************************************)
EXTENDS Naturals, Sequences

CONSTANTS Required,    \* RequiredFamilyIDs
          Unlisted,    \* another family
          MaxEdits

VARIABLES doc, edits

document == <<doc, edits>>

Top == {"contract", "pin", "states"}
Row == {"family_id", "state", "composition", "verified", "reason", "evidence"}
Members(place) == IF place = "top" THEN Top ELSE Row

Null == "null"
Mistyped == "mistyped"

\* Values of each member that differ for some check.
MemberValues(name) ==
    CASE name = "contract"    -> {"v1", "v2"}
      [] name = "pin"         -> {"commit", "branch"}
      [] name = "states"      -> {"all", "some", "repeated", "invented"}
      [] name = "family_id"   -> Required \cup {Unlisted, ""}
      [] name = "state"       -> {"candidate", "invented"}
      [] name = "composition" -> {"composed", "not_composed", "invented"}
      [] name = "verified"    -> {"true", "false"}
      [] name = "reason"      -> {"no_producer", "invented"}
      [] name = "evidence"    -> {"none", "plain", "partial", "gateway", "unpinned"}

\* What the decoder leaves a member at that it does not bind.
Zero(name) ==
    CASE name = "verified" -> "false"
      [] name \in {"states", "evidence"} -> Null
      [] OTHER -> ""

-----------------------------------------------------------------------------
(* Decode. *)

\* rejectDuplicateKeys: names are compared without case.
Duplicates(d) ==
    \E p \in DOMAIN d : \E i, j \in DOMAIN d[p] : i # j /\ d[p][i].name = d[p][j].name

\* DisallowUnknownFields, and the types of the members.
Unbindable(d) ==
    \E p \in DOMAIN d : \E i \in DOMAIN d[p] :
        d[p][i].name \notin Members(p) \/ d[p][i].value = Mistyped

\* The value the decoder binds: of the last member of that name.
Bound(d, p, name) ==
    LET at == {i \in DOMAIN d[p] : d[p][i].name = name /\ d[p][i].value # Null}
    IN  IF at = {} THEN Zero(name)
        ELSE d[p][CHOOSE i \in at : \A j \in at : j <= i].value

\* Mutant: the two encodings are compared without case.
CanonicalWithoutCase(d) ==
    \A p \in DOMAIN d :
        \A name \in Members(p) :
            LET at == {i \in DOMAIN d[p] : d[p][i].name = name}
            IN  /\ at # {}
                /\ d[p][CHOOSE i \in at : \A j \in at : j <= i].value = Bound(d, p, name)

\* requireCanonicalMembers: what was bound, encoded again, is the document as a
\* reader that heeds case and keeps the last member sees it.
Canonical(d) ==
    \A p \in DOMAIN d :
        /\ \A i \in DOMAIN d[p] : d[p][i].exact /\ d[p][i].name \in Members(p)
        /\ \A name \in Members(p) :
              LET at == {i \in DOMAIN d[p] : d[p][i].exact /\ d[p][i].name = name}
              IN  /\ at # {}
                  /\ d[p][CHOOSE i \in at : \A j \in at : j <= i].value = Bound(d, p, name)

\* Family.validate
RowHolds(f) ==
    LET gateway == f["evidence"] = "gateway"
        claimed == f["composition"] = "composed"
    IN  /\ f["family_id"] # "" /\ f["state"] = "candidate"
        /\ f["composition"] \in {"composed", "not_composed"}
        /\ f["reason"] = "no_producer"
        /\ f["evidence"] \in {"plain", "gateway"}
        /\ claimed => f["verified"] = "true" /\ gateway
        /\ ~claimed => f["verified"] = "false" /\ ~gateway

Catalog(d) == [p \in DOMAIN d |-> [name \in Members(p) |-> Bound(d, p, name)]]

Rows(c) == DOMAIN c \ {"top"}

\* Catalog.Validate
Validate(c) ==
    /\ c["top"]["contract"] = "v1" /\ c["top"]["pin"] = "commit" /\ c["top"]["states"] = "all"
    /\ \A p \in Rows(c) : RowHolds(c[p])
    /\ \A p, q \in Rows(c) : p # q => c[p]["family_id"] # c[q]["family_id"]
    /\ {c[p]["family_id"] : p \in Rows(c)} = Required

Decodes(d) == ~Duplicates(d) /\ ~Unbindable(d) /\ Canonical(d) /\ Validate(Catalog(d))

-----------------------------------------------------------------------------
(* Authors edit the document; each row is at the place of its family. *)

M(name, exact, value) == [name |-> name, exact |-> exact, value |-> value]

Published ==
    [p \in Required \cup {"top"} |->
        IF p = "top"
        THEN <<M("contract", TRUE, "v1"), M("pin", TRUE, "commit"), M("states", TRUE, "all")>>
        ELSE <<M("family_id", TRUE, p), M("state", TRUE, "candidate"),
               M("composition", TRUE, "composed"), M("verified", TRUE, "true"),
               M("reason", TRUE, "no_producer"), M("evidence", TRUE, "gateway")>>]

Written(name) == (IF name = "unknown" THEN {} ELSE MemberValues(name)) \cup {Null, Mistyped}

CatalogInit == doc = Published /\ edits = 0

Edit(p, members) ==
    /\ edits < MaxEdits
    /\ doc' = [doc EXCEPT ![p] = members]
    /\ edits' = edits + 1

Remove(p, i) == Edit(p, SubSeq(doc[p], 1, i - 1) \o SubSeq(doc[p], i + 1, Len(doc[p])))

Change(p, i) ==
    \E v \in Written(doc[p][i].name), exact \in BOOLEAN :
        Edit(p, [doc[p] EXCEPT ![i] = M(@.name, exact, v)])

Add(p) ==
    \E name \in Members(p) \cup {"unknown"} : \E v \in Written(name), exact \in BOOLEAN :
        Edit(p, Append(doc[p], M(name, exact, v)))

Drop(p) ==
    /\ edits < MaxEdits
    /\ doc' = [q \in DOMAIN doc \ {p} |-> doc[q]]
    /\ edits' = edits + 1

CatalogNext ==
    \E p \in DOMAIN doc :
        \/ \E i \in DOMAIN doc[p] : Remove(p, i) \/ Change(p, i)
        \/ Add(p)
        \/ p # "top" /\ Drop(p)

CatalogSpec == CatalogInit /\ [][CatalogNext]_document

-----------------------------------------------------------------------------
(* Properties. *)

\* How some reader may take the member `name`: heeding case or not, keeping
\* whichever of several members it likes.
Readings(d, p, name) ==
    {d[p][i].value : i \in {i \in DOMAIN d[p] : d[p][i].name = name}}

\* A document that Decode accepts says one thing to every reader: a member is
\* written under its own name and once, and whoever reads it reads what the
\* catalog holds (rejectDuplicateKeys, DisallowUnknownFields,
\* requireCanonicalMembers).  Nothing is said here of members that are absent,
\* on which the documents do not agree.
OneReading ==
    Decodes(doc) =>
        \A p \in DOMAIN doc :
            /\ \A name \in Members(p) : Readings(doc, p, name) \subseteq {Bound(doc, p, name)}
            /\ \A i \in DOMAIN doc[p] : doc[p][i].exact
            /\ \A i, j \in DOMAIN doc[p] : i # j => doc[p][i].name # doc[p][j].name
=============================================================================
