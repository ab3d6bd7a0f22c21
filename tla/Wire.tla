-------------------------------- MODULE Wire ---------------------------------
(***************************************************************************)
(* Strict decoding (Decode, validation.go and collector.go): a document is *)
(* read as a tree first, every defect that can be known without the rest   *)
(* is collected, and only the one that ranks first is reported.            *)
(*                                                                         *)
(* A record whose shape is right is bound and validated as a whole; of one *)
(* that cannot be bound the members are judged one by one, and with them   *)
(* what can be said without binding: keys of collections, members that     *)
(* other members call for, contracts, the times of a causal context.       *)
(*                                                                         *)
(* The state is a document on its way to the decoder: an encoding of a     *)
(* valid record with a few things wrong with it.                           *)
(*                                                                         *)
(*   node    [kind |-> "n"], [kind |-> "s", token, text],                  *)
(*           [kind |-> "a", array], [kind |-> "o", object]   (jsonNode)    *)
(*   object  a sequence of [key, value], in the order they were written    *)
(*   type    <<"record", name>>, <<"slice", type>> or <<scalar>>           *)
(*                                                                         *)
(* A text is a model value, or the digits of a number.  Malformed is a text *)
(* no member accepts, Fraction a number that is not an integer.            *)
(***************************************************************************)
EXTENDS Errors, Sequences, SequencesExt, Functions

CONSTANTS Documents,   \* [root, node]: the encodings edits start from
          MaxEdits,
          IdRank,      \* identifier -> its place in the order of texts
          Counters, Counts,  \* texts and numbers an edit may write
          MaxUint16,
          Lifetime,    \* of a causal context
          Kernel, UTC, Observed, Inferred, Available, Withdrawn,  \* fixed texts
          Malformed, Fraction, Absent

VARIABLES root, doc, edits

vars == <<root, doc, edits>>

Null == [kind |-> "n"]
Str(text) == [kind |-> "s", token |-> "string", text |-> text]
Num(text) == [kind |-> "s", token |-> "number", text |-> text]
Arr(list) == [kind |-> "a", array |-> list]
Obj(list) == [kind |-> "o", object |-> list]
M(key, value) == [key |-> key, value |-> value]

-----------------------------------------------------------------------------
(* The records, with the members the decoder treats in their own way. *)

Rec(name) == <<"record", name>>
Slice(type) == <<"slice", type>>
Id == <<"id">>
Counter == <<"counter">>
Tick == <<"tick">>
Count == <<"count">>
Contract == <<"contract">>
Target == <<"target">>

Fields ==
    [PublicationBatch |->
        [contract |-> Contract, generation_fences |-> Slice(Rec("GenerationFence")),
         fact_upserts |-> Slice(Rec("FactCandidate"))],
     Snapshot |->
        [contract |-> Contract, facts |-> Slice(Rec("FactEnvelope"))],
     FactEnvelope |->
        [key |-> Rec("FactKey"), revision |-> Counter, candidates |-> Slice(Rec("FactCandidate"))],
     FactKey |-> [fact_id |-> Id],
     FactCandidate |->
        [candidate_id |-> Id, revision |-> Counter, quality |-> Rec("Quality"), value |-> Id,
         binding_id |-> Id, derivation |-> Rec("Derivation"), causal |-> Rec("CausalContext")],
     Quality |-> [assertion |-> <<"assertion">>, availability |-> <<"availability">>],
     Derivation |-> [inputs |-> Slice(Rec("DerivationInput"))],
     DerivationInput |-> [candidate_id |-> Id, candidate_revision |-> Counter],
     CausalContext |->
        [hop_count |-> Count, path |-> Slice(Target),
         first_seen_at |-> Rec("TimePoint"), expires_at |-> Rec("TimePoint")],
     TimePoint |-> [clock_id |-> Id, unix_nanoseconds |-> Tick],
     GenerationFence |-> [source_id |-> Id, driver_generation |-> Counter, revision |-> Counter]]

Optional == {"value", "binding_id", "derivation", "causal"}
Assertions == {Observed, Inferred}
Availabilities == {Available, Withdrawn}
Ids == DOMAIN IdRank \ {Malformed}

\* collectionKeyFields
KeyFields(type) ==
    IF type[1] # "record" THEN <<>>
    ELSE CASE type[2] \in {"FactCandidate", "DerivationInput"} -> <<"candidate_id">>
           [] type[2] = "FactEnvelope" -> <<"key">>
           [] type[2] = "GenerationFence" -> <<"source_id", "driver_generation">>
           [] OTHER -> <<>>

HasKey(type) == KeyFields(type) # <<>> \/ type = Target

\* A member of a key is a text of its own, but for the record that names a fact.
KeyType(type, n) ==
    LET t == Fields[type[2]][KeyFields(type)[n]] IN IF t = Rec("FactKey") THEN Id ELSE t

\* documentDiscriminator
IsDocument(type) == type \in {Rec("PublicationBatch"), Rec("Snapshot")}

-----------------------------------------------------------------------------
(* Members of a tree. *)

Named(node, name) ==
    IF node.kind # "o" THEN {} ELSE {i \in DOMAIN node.object : node.object[i].key = name}

\* nodeMember: the first of that name.
Present(node, name) == Named(node, name) # {}
Member(node, name) ==
    LET all == Named(node, name)
    IN  node.object[CHOOSE i \in all : \A j \in all : i <= j].value

\* What binding leaves in the record: the last of that name.
Bound(node, name) ==
    LET all == Named(node, name)
    IN  node.object[CHOOSE i \in all : \A j \in all : i >= j].value

IsString(node) == node.kind = "s" /\ node.token = "string"

KeyText(node) == IF node.kind = "o" THEN Bound(node, "fact_id").text ELSE node.text

\* Some object repeats a member (parseJSONNode).
RECURSIVE Repeats(_)
Repeats(node) ==
    CASE node.kind = "o" -> \/ \E i, j \in DOMAIN node.object :
                                  i # j /\ node.object[i].key = node.object[j].key
                            \/ \E i \in DOMAIN node.object : Repeats(node.object[i].value)
      [] node.kind = "a" -> \E i \in DOMAIN node.array : Repeats(node.array[i])
      [] OTHER -> FALSE

-----------------------------------------------------------------------------
(* Scalars. *)

Digits(text) == text # Malformed
Positive(text) == Digits(text) /\ text # <<0>>

\* Validate of the scalar types; an enum is judged by its record only.
ScalarErrors(type, text) ==
    CASE type \in {Id, Target} -> Flag(text = Malformed, "invalid_identifier")
      [] type \in {Counter, Tick} -> Flag(~Digits(text), "invalid_value")
      [] type = Contract -> Flag(text = Malformed, "invalid_contract")
      [] OTHER -> {}

\* The class a member's record gives to a text it does not accept: counters are
\* positive identities, ticks are times.
DomainErrors(type, text) ==
    CASE type = Counter -> Flag(~Positive(text), "invalid_identifier")
      [] type = Tick -> Flag(~Digits(text), "invalid_time")
      [] type = <<"assertion">> -> Flag(text \notin Assertions, "invalid_enum")
      [] type = <<"availability">> -> Flag(text \notin Availabilities, "invalid_enum")
      [] OTHER -> ScalarErrors(type, text)

\* compareUint64, and strings.Compare on the same digits.
Number(text) == FoldLeft(LAMBDA n, d : 10 * n + d, 0, text)
Numerically(a, b) == Number(a) < Number(b)
AsText(a, b) ==
    \/ \E i \in DOMAIN a \cap DOMAIN b : a[i] < b[i] /\ \A j \in 1..(i - 1) : a[j] = b[j]
    \/ Len(a) < Len(b) /\ a = SubSeq(b, 1, Len(a))

\* A key is the sequence of its members' texts; the second is a counter, which
\* the typed path reads as a number.
Before(k, l, typed) ==
    \/ IdRank[k[1]] < IdRank[l[1]]
    \/ /\ k[1] = l[1] /\ Len(k) > 1
       /\ IF typed THEN Numerically(k[2], l[2]) ELSE AsText(k[2], l[2])

\* What a collection's keys say of it (duplicateAndOrder and wireCollectionErrors).
KeyErrors(keys, type, typed) ==
    LET class == CASE type = Rec("DerivationInput") -> "derivation_cycle"
                   [] type = Target -> "causal_budget_exceeded"
                   [] OTHER -> "duplicate_key"
    IN  Flag(\E i, j \in DOMAIN keys : i # j /\ keys[i] = keys[j], class)
        \cup Flag(/\ type # Target
                  /\ \E i \in 1..(Len(keys) - 1) : Before(keys[i + 1], keys[i], typed),
                  "noncanonical_order")

\* Mutant: what is not well formed has an identity like anything else.
AnyKey(type, key) == \A n \in 2..Len(key) : key[n] # Malformed

\* Keys that are not well formed have no identity.
KeyValid(type, key) ==
    IF type = Target THEN key[1] # Malformed
    ELSE \A n \in DOMAIN key :
            DomainErrors(KeyType(type, n), key[n]) = {}

-----------------------------------------------------------------------------
(* Shape. *)

\* validateShapeWithNumberDomain
RECURSIVE Shape(_, _)
Shape(node, type) ==
    IF node.kind = "n" THEN {"missing_member"}
    ELSE CASE type[1] = "record" ->
                IF node.kind # "o" THEN {"invalid_value"}
                ELSE LET fields == Fields[type[2]]
                         lacks  == {f \in DOMAIN fields \ Optional : ~Present(node, f)}
                     IN  UNION {LET m == node.object[i]
                                IN  IF m.key \notin DOMAIN fields THEN {"unknown_member"}
                                    ELSE IF IsDocument(type) /\ m.key = "contract"
                                    THEN Flag(~IsString(m.value) \/ m.value.text # Kernel,
                                              "invalid_contract")
                                    ELSE Shape(m.value, fields[m.key])
                                  : i \in DOMAIN node.object}
                         \cup Flag(\E f \in lacks : ~(IsDocument(type) /\ f = "contract"), "missing_member")
                         \cup Flag(IsDocument(type) /\ "contract" \in lacks, "invalid_contract")
           [] type[1] = "slice" ->
                IF node.kind # "a" THEN {"invalid_value"}
                ELSE UNION {Shape(node.array[i], type[2]) : i \in DOMAIN node.array}
           [] type = Count ->
                IF ~(node.kind = "s" /\ node.token = "number") \/ node.text = Fraction
                THEN {"invalid_value"}
                ELSE Flag(Number(node.text) > MaxUint16, "causal_budget_exceeded")
           [] OTHER -> Flag(~IsString(node), "invalid_value")

Bindable(node, type) == Shape(node, type) \subseteq {"unknown_member"}

-----------------------------------------------------------------------------
(* Validation of bound records. *)

\* The keys of the elements that have one.
TypedKeys(list, type) ==
    LET key(e) == IF type = Target THEN <<e.text>>
                  ELSE [n \in DOMAIN KeyFields(type) |-> KeyText(Bound(e, KeyFields(type)[n]))]
    IN  SelectSeq([i \in DOMAIN list |-> key(list[i])], LAMBDA k : KeyValid(type, k))

\* causalTimeErrors on the points that could be read.
CausalTimeErrors(points) ==
    Flag(\E p \in {points[n] : n \in DOMAIN points} : p.clock # UTC, "invalid_time")
    \cup (IF Len(points) < 2 THEN {}
          ELSE LET first   == Number(points[1].ns)
                   expires == Number(points[2].ns)
               IN  IF expires < first THEN {"invalid_time"}
                   ELSE Flag(expires - first > Lifetime, "causal_budget_exceeded"))

Point(node) == [clock |-> Bound(node, "clock_id").text, ns |-> Bound(node, "unix_nanoseconds").text]
PointValid(p) == p.clock # Malformed /\ Digits(p.ns)

\* FactCandidate.Validate, the relations between its members.
CandidateRelations(node) ==
    LET quality(n) == Bound(Bound(node, "quality"), n).text
        forbidden  == quality("availability") = Withdrawn
        inputs == IF Present(node, "derivation") THEN Bound(Bound(node, "derivation"), "inputs").array
                  ELSE <<>>
    IN  Flag(~forbidden /\ ~Present(node, "value"), "missing_member")
        \cup Flag(forbidden /\ Present(node, "value"), "invalid_value")
        \cup (CASE quality("assertion") = Inferred ->
                     Flag(Present(node, "binding_id"), "invalid_value")
                     \cup Flag(~Present(node, "derivation"), "missing_member")
                [] quality("assertion") = Observed ->
                     Flag(Present(node, "derivation"), "invalid_value")
                     \cup Flag(~Present(node, "binding_id"), "missing_member")
                [] OTHER -> {})
        \cup Flag(\E i \in DOMAIN inputs :
                     Bound(inputs[i], "candidate_id").text = Bound(node, "candidate_id").text,
                  "derivation_cycle")

\* The other records' relations between members.
Relations(node, name) ==
    CASE name = "FactCandidate" -> CandidateRelations(node)
      [] name = "Derivation" ->
            Flag(Len(Bound(node, "inputs").array) = 0, "bounds_exceeded")
      [] name = "FactEnvelope" ->
            Flag(Len(Bound(node, "candidates").array) = 0, "bounds_exceeded")
      [] name = "CausalContext" ->
            LET seen == Point(Bound(node, "first_seen_at"))
                ends == Point(Bound(node, "expires_at"))
            IN  CausalTimeErrors(SelectSeq(<<seen, ends>>, PointValid))
                \cup Flag(Number(Bound(node, "hop_count").text) # Len(Bound(node, "path").array),
                          "causal_budget_exceeded")
      [] name = "Snapshot" ->
            LET ids == FlattenSeq([i \in DOMAIN Bound(node, "facts").array |->
                          TypedKeys(Bound(Bound(node, "facts").array[i], "candidates").array,
                                    Rec("FactCandidate"))])
            IN  Flag(\E i, j \in DOMAIN ids : i # j /\ ids[i] = ids[j], "duplicate_key")
      [] OTHER -> {}

\* Record.Validate: every member, every collection, every relation.
RECURSIVE Validate(_, _)
Validate(node, type) ==
    CASE type[1] = "record" ->
            LET fields == Fields[type[2]]
            IN  UNION {Validate(Bound(node, f), fields[f]) : f \in {g \in DOMAIN fields : Present(node, g)}}
                \cup Relations(node, type[2])
      [] type[1] = "slice" ->
            UNION {Validate(node.array[i], type[2]) : i \in DOMAIN node.array}
            \cup (IF HasKey(type[2])
                  THEN KeyErrors(TypedKeys(node.array, type[2]), type[2], TRUE) ELSE {})
      [] OTHER -> DomainErrors(type, node.text)

-----------------------------------------------------------------------------
(* What can be known of a record that cannot be bound. *)

\* Mutant: only an element that can be bound as a whole has a key.
ReadableWhenBound(e, type) == Bindable(e, type)

\* A key can be read off an element, whatever the rest of it is like; the key's own
\* members have the shape of their types exactly, so a fact key with a member that
\* binding would pass over cannot be read.
KeyReadable(e, type) ==
    IF type = Target THEN IsString(e)
    ELSE \A n \in DOMAIN KeyFields(type) :
            /\ Present(e, KeyFields(type)[n])
            /\ Shape(Member(e, KeyFields(type)[n]), Fields[type[2]][KeyFields(type)[n]]) = {}

WireKeys(node, type) ==
    LET list == SelectSeq(node.array, LAMBDA e : KeyReadable(e, type))
        key(e) == IF type = Target THEN <<e.text>>
                  ELSE [n \in DOMAIN KeyFields(type) |-> KeyText(Member(e, KeyFields(type)[n]))]
    IN  SelectSeq([i \in DOMAIN list |-> key(list[i])], LAMBDA k : KeyValid(type, k))

\* wireCollectionErrors; collectionCompare compares a fence's counter as text.
WireCollectionErrors(node, type) ==
    IF node.kind # "a" \/ ~HasKey(type) THEN {}
    ELSE KeyErrors(WireKeys(node, type), type, FALSE)

\* conditionalMemberErrors
ConditionalErrors(node, type) ==
    LET quality(n) == IF Present(node, "quality") /\ Present(Member(node, "quality"), n)
                         /\ IsString(Member(Member(node, "quality"), n))
                      THEN Member(Member(node, "quality"), n).text ELSE Absent
        required ==
            (IF quality("availability") \notin {Absent, Withdrawn} THEN {"value"} ELSE {})
            \cup (CASE quality("assertion") = Inferred -> {"derivation"}
                    [] quality("assertion") = Observed -> {"binding_id"}
                    [] OTHER -> {})
    IN  Flag(/\ type = Rec("FactCandidate") /\ node.kind = "o"
             /\ \E f \in required : Present(node, f) => Member(node, f).kind = "n",
             "missing_member")

\* discriminatorWireErrors
DiscriminatorErrors(node, type) ==
    Flag(/\ IsDocument(type) /\ Present(node, "contract")
         /\ ~IsString(Member(node, "contract")) \/ Member(node, "contract").text # Kernel,
         "invalid_contract")

\* enclosingWireErrors: the times of a causal context, if they can be read.
CausalWireErrors(node) ==
    LET known(name) == /\ Present(node, name)
                       /\ Bindable(Member(node, name), Rec("TimePoint"))
                       /\ PointValid(Point(Member(node, name)))
        names == SelectSeq(<<"first_seen_at", "expires_at">>, known)
    IN  CausalTimeErrors([n \in DOMAIN names |-> Point(Member(node, names[n]))])

\* Mutant: a candidate id is unique in its own envelope only.
UniqueInEnvelope(node) == {}

\* snapshotWireCandidateIDs
SnapshotWireCandidateIDs(node) ==
    LET listed(n, name) == n.kind = "o" /\ Present(n, name) /\ Member(n, name).kind = "a"
        facts == IF listed(node, "facts") THEN Member(node, "facts").array ELSE <<>>
        ids   == FlattenSeq([i \in DOMAIN facts |->
                    IF listed(facts[i], "candidates")
                    THEN WireKeys(Member(facts[i], "candidates"), Rec("FactCandidate"))
                    ELSE <<>>])
    IN  Flag(\E i, j \in DOMAIN ids : i # j /\ ids[i] = ids[j], "duplicate_key")

EnclosingErrors(node, type) ==
    CASE type = Rec("CausalContext") /\ node.kind = "o" -> CausalWireErrors(node)
      [] type = Rec("Snapshot") -> SnapshotWireCandidateIDs(node)
      [] OTHER -> {}

\* independentlyKnowableErrors and fieldSemanticErrors
RECURSIVE Knowable(_, _)
Knowable(node, type) ==
    IF node.kind = "n" THEN {}
    ELSE IF Bindable(node, type) /\ type[1] = "record" THEN Validate(node, type)
    ELSE ConditionalErrors(node, type) \cup DiscriminatorErrors(node, type)
         \cup EnclosingErrors(node, type)
         \cup (CASE type[1] = "record" /\ node.kind = "o" ->
                      LET fields == Fields[type[2]]
                      IN  UNION {LET m == node.object[i]
                                 IN  IF m.key \notin DOMAIN fields THEN {}
                                     ELSE IF IsString(m.value) /\ fields[m.key] \in {Counter, Tick}
                                     THEN DomainErrors(fields[m.key], m.value.text)
                                     ELSE Knowable(m.value, fields[m.key])
                                   : i \in DOMAIN node.object}
                 [] type[1] = "slice" /\ node.kind = "a" ->
                      WireCollectionErrors(node, type[2])
                      \cup UNION {Knowable(node.array[i], type[2]) : i \in DOMAIN node.array}
                 [] type[1] \notin {"record", "slice"} /\ IsString(node) -> ScalarErrors(type, node.text)
                 [] OTHER -> {})

\* Mutant: a repeated member is read like any other.
DecodeErrorsOfLast(node, type) == Shape(node, type) \cup Knowable(node, type)

\* decodeRecord
DecodeErrors(node, type) ==
    Flag(Repeats(node), "duplicate_key") \cup Shape(node, type) \cup Knowable(node, type)

-----------------------------------------------------------------------------
(* Documents. *)

Parts(node) == CASE node.kind = "o" -> node.object [] node.kind = "a" -> node.array [] OTHER -> <<>>

Child(node, i) == IF node.kind = "o" THEN node.object[i].value ELSE node.array[i]

RECURSIVE Places(_)
Places(node) ==
    {<<>>} \cup UNION {{<<i>> \o p : p \in Places(Child(node, i))} : i \in DOMAIN Parts(node)}

RECURSIVE At(_, _)
At(node, p) == IF p = <<>> THEN node ELSE At(Child(node, p[1]), Tail(p))

RECURSIVE Put(_, _, _)
Put(node, p, new) ==
    IF p = <<>> THEN new
    ELSE LET child == Put(Child(node, p[1]), Tail(p), new)
         IN  IF node.kind = "o" THEN [node EXCEPT !.object[p[1]].value = child]
             ELSE [node EXCEPT !.array[p[1]] = child]

WithParts(node, list) ==
    IF node.kind = "o" THEN [node EXCEPT !.object = list] ELSE [node EXCEPT !.array = list]

Write(p, new) ==
    /\ edits < MaxEdits
    /\ At(doc, p) # new
    /\ doc' = Put(doc, p, new)
    /\ edits' = edits + 1
    /\ UNCHANGED root

\* A member or an element is left out or sent twice, an element changes places.
Omit(p, i)   == Write(p, WithParts(At(doc, p), RemoveAt(Parts(At(doc, p)), i)))
Repeat(p, i) == Write(p, WithParts(At(doc, p), InsertAt(Parts(At(doc, p)), i, Parts(At(doc, p))[i])))
Swap(p, i) ==
    LET list == Parts(At(doc, p))
    IN  /\ At(doc, p).kind = "a" /\ i < Len(list)
        /\ Write(p, Arr([list EXCEPT ![i] = list[i + 1], ![i + 1] = list[i]]))
\* An unknown member.
Extend(p) ==
    /\ At(doc, p).kind = "o"
    /\ Write(p, Obj(Append(At(doc, p).object, M("surprise", Null))))
\* Another token, or another text.
Retoken(p) == Write(p, IF At(doc, p).kind = "s" /\ At(doc, p).token = "number" THEN Str(Malformed) ELSE Num(<<1>>))
Erase(p)   == Write(p, Null)
Garble(p)  == At(doc, p).kind = "s" /\ IsString(At(doc, p)) /\ Write(p, Str(Malformed))
Rewrite(p) ==
    LET node == At(doc, p)
    IN  /\ node.kind = "s"
        /\ IF node.token = "number" THEN \E n \in Counts : Write(p, Num(n))
           ELSE \/ node.text \in Ids \cup {UTC} /\ \E t \in Ids : Write(p, Str(t))
                \/ node.text \in Counters /\ \E t \in Counters : Write(p, Str(t))
                \/ node.text \in Assertions /\ \E t \in Assertions : Write(p, Str(t))
                \/ node.text \in Availabilities /\ \E t \in Availabilities : Write(p, Str(t))

Init ==
    /\ \E d \in Documents : root = d.root /\ doc = d.node
    /\ edits = 0

Next ==
    \E p \in Places(doc) :
        \/ \E i \in DOMAIN Parts(At(doc, p)) : Omit(p, i) \/ Repeat(p, i) \/ Swap(p, i)
        \/ Extend(p) \/ Retoken(p) \/ Erase(p) \/ Garble(p) \/ Rewrite(p)

Spec == Init /\ [][Next]_vars

-----------------------------------------------------------------------------
(* Properties.  A defect is what is wrong at one place of the tree, whether or
   not the rest could be bound. *)

\* Every place a type is expected at, with what was written there.
RECURSIVE Sites(_, _)
Sites(node, type) ==
    {[node |-> node, type |-> type]}
    \cup (CASE type[1] = "record" /\ node.kind = "o" ->
                 UNION {Sites(node.object[i].value, Fields[type[2]][node.object[i].key])
                          : i \in {n \in DOMAIN node.object :
                                      node.object[n].key \in DOMAIN Fields[type[2]]}}
            [] type[1] = "slice" /\ node.kind = "a" ->
                 UNION {Sites(node.array[i], type[2]) : i \in DOMAIN node.array}
            [] OTHER -> {})

\* The texts written for a member of an element's key that its record accepts.
\* Of a fact key this is the fact it names, whatever else the key carries; a
\* clean one carries nothing else.
Told(e, name, clean) ==
    LET written == {e.object[i].value : i \in Named(e, name)}
        fact(v) == IF clean /\ \E i \in DOMAIN v.object : v.object[i].key # "fact_id" THEN {}
                   ELSE {v.object[i].value : i \in Named(v, "fact_id")}
        texts   == IF name = "key" THEN UNION {fact(v) : v \in {w \in written : w.kind = "o"}}
                   ELSE written
    IN  {v.text : v \in {w \in texts : IsString(w)}} \ {Malformed, <<0>>}

\* The places of elements whose keys say one thing.
Keyed(node, type, clean) ==
    {i \in DOMAIN node.array :
        IF type = Target THEN IsString(node.array[i]) /\ node.array[i].text # Malformed
        ELSE \A n \in DOMAIN KeyFields(type) :
                Cardinality(Told(node.array[i], KeyFields(type)[n], clean)) = 1}
KeyOf(e, type) ==
    IF type = Target THEN <<e.text>>
    ELSE [n \in DOMAIN KeyFields(type) |-> CHOOSE t \in Told(e, KeyFields(type)[n], FALSE) : TRUE]

\* Two elements of one key, or one before another that it ought to follow.
KeyDefects(node, type, clean) ==
    LET keyed == Keyed(node, type, clean)
        pairs == {<<i, j>> \in keyed \X keyed : i < j}
        key(i) == KeyOf(node.array[i], type)
    IN  Flag(\E p \in pairs : key(p[1]) = key(p[2]),
             CASE type = Rec("DerivationInput") -> "derivation_cycle"
               [] type = Target -> "causal_budget_exceeded"
               [] OTHER -> "duplicate_key")
        \cup Flag(type # Target /\ \E p \in pairs : Before(key(p[2]), key(p[1]), TRUE),
                  "noncanonical_order")

\* One candidate id in two envelopes of a snapshot.
SharedCandidates(node) ==
    /\ Present(node, "facts") /\ Member(node, "facts").kind = "a"
    /\ LET facts == Member(node, "facts").array
           lists == {i \in DOMAIN facts : Present(facts[i], "candidates")
                                          /\ Member(facts[i], "candidates").kind = "a"}
           ids(i) == LET list == Member(facts[i], "candidates")
                     IN  {KeyOf(list.array[n], Rec("FactCandidate")) : n \in Keyed(list, Rec("FactCandidate"), TRUE)}
       IN  \E i, j \in lists : i # j /\ ids(i) \cap ids(j) # {}

Misread(node, type) ==
    CASE type[1] = "record" -> node.kind # "o"
      [] type[1] = "slice" -> node.kind # "a"
      [] type = Count -> node.kind # "s" \/ node.token # "number" \/ node.text = Fraction
      [] OTHER -> ~IsString(node)

\* What is wrong at a place by itself.
LocalDefects(s, clean) ==
    IF s.type = Contract
    THEN Flag(~IsString(s.node) \/ s.node.text # Kernel, "invalid_contract")
    ELSE IF s.node.kind = "n" THEN {"missing_member"}
    ELSE IF Misread(s.node, s.type) THEN {"invalid_value"}
    ELSE CASE s.type[1] = "record" ->
                LET keys == [i \in DOMAIN s.node.object |-> s.node.object[i].key]
                    lost == DOMAIN Fields[s.type[2]] \ (ToSet(keys) \cup Optional)
                IN  Flag(~IsInjective(keys), "duplicate_key")
                    \cup Flag(~(ToSet(keys) \subseteq DOMAIN Fields[s.type[2]]), "unknown_member")
                    \cup Flag("contract" \in lost, "invalid_contract")
                    \cup Flag(lost \ {"contract"} # {}, "missing_member")
           [] s.type[1] = "slice" ->
                IF HasKey(s.type[2]) THEN KeyDefects(s.node, s.type[2], clean) ELSE {}
           [] s.type = Count -> Flag(Number(s.node.text) > MaxUint16, "causal_budget_exceeded")
           [] OTHER -> IF s.type \in {<<"assertion">>, <<"availability">>} THEN {}
                       ELSE DomainErrors(s.type, s.node.text)

\* What is wrong between places that can be read without the rest.
JointDefects(s) ==
    ConditionalErrors(s.node, s.type)
    \cup (IF s.type = Rec("Snapshot") THEN Flag(SharedCandidates(s.node), "duplicate_key")
          ELSE EnclosingErrors(s.node, s.type))

\* What is wrong between places that only a whole record shows.
WholeDefects(s) ==
    CASE s.type[1] = "record" ->
            IF Bindable(s.node, s.type) THEN Relations(s.node, s.type[2]) ELSE {}
      [] s.type \in {<<"assertion">>, <<"availability">>} ->
            IF IsString(s.node) THEN DomainErrors(s.type, s.node.text) ELSE {}
      [] OTHER -> {}

\* The defects a document has; clean leaves out what only the keys of elements
\* whose fact key carries other members besides would tell.
KnownDefects(clean) ==
    UNION {LocalDefects(s, clean) \cup JointDefects(s) : s \in Sites(doc, Rec(root))}

NotOutranked(known) ==
    LET errors == DecodeErrors(doc, Rec(root))
    IN  known # {} => /\ errors # {}
                      /\ ErrorRanks[BestError(errors)] <= ErrorRanks[BestError(known)]

\* No defect hides another: whatever else is wrong with a document, a repeated
\* or misplaced key, a member that its record calls for, a text of the wrong
\* class is counted, and what is reported ranks no lower than any of them
\* (independentlyKnowableErrors, wireCollectionErrors, conditionalMemberErrors).
\* A fact key counts here when nothing else was written into it: see
\* UnrelatedMembersHideNoKey.
NothingKnowableIsHidden == NotOutranked(KnownDefects(TRUE))

\* Unrelated members suppress no supplied key (the comment on
\* collectionKeyFields): what is reported ranks no lower than a key that two
\* elements of a collection share, whatever else their keys carry.
UnrelatedMembersHideNoKey == NotOutranked(KnownDefects(FALSE) \cap {"duplicate_key"})

\* No defect is made up: what is reported is really wrong with the document,
\* and a document that nothing is wrong with is accepted.
NoDefectIsMadeUp ==
    LET errors == DecodeErrors(doc, Rec(root))
        whole  == UNION {WholeDefects(s) : s \in Sites(doc, Rec(root))}
    IN  errors # {} => BestError(errors) \in KnownDefects(FALSE) \cup whole

RECURSIVE Reversed(_)
Reversed(node) ==
    CASE node.kind = "o" -> Obj(Reverse([i \in DOMAIN node.object |->
                                            M(node.object[i].key, Reversed(node.object[i].value))]))
      [] node.kind = "a" -> Arr([i \in DOMAIN node.array |-> Reversed(node.array[i])])
      [] OTHER -> node

\* The members of an object have no order: written the other way round, a
\* document gets the same answer.
MembersHaveNoOrder ==
    LET errors == DecodeErrors(doc, Rec(root))
        turned == DecodeErrors(Reversed(doc), Rec(root))
    IN  IF errors = {} THEN turned = {} ELSE turned # {} /\ BestError(turned) = BestError(errors)

\* What is reported is true of the document and not of the way it is written
\* (decodeRecord).
ReportIsTrue == NoDefectIsMadeUp /\ MembersHaveNoOrder

\* Out of order means the same with and without binding: noncanonical_order is
\* reported only of a document in which some collection's readable keys descend.
OrderIsJudgedAlike ==
    LET errors == DecodeErrors(doc, Rec(root))
    IN  errors # {} /\ BestError(errors) = "noncanonical_order"
            => "noncanonical_order" \in KnownDefects(FALSE)
=============================================================================
