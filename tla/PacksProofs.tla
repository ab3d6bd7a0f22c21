----------------------------- MODULE PacksProofs -----------------------------
(***************************************************************************)
(* What programs build from packs can be relied on, for any packs,         *)
(* families, facts and numbers: the registries give each definition one    *)
(* owner and lead to definitions of one pack, the catalog reads one way,   *)
(* and the storage pack lets through only what is safe and closes it by    *)
(* what is shown.                                                          *)
(***************************************************************************)
EXTENDS Definitions, Catalog, StoragePack, FiniteSetTheorems, WellFoundedInduction, TLAPS

-----------------------------------------------------------------------------
(* Lists and sets. *)

\* A list names as many things as it is long exactly when it repeats none.
LEMMA ListsWithoutRepetition ==
    ASSUME NEW list, NEW N \in Nat, DOMAIN list = 1..N
    PROVE  Cardinality({list[n] : n \in 1..N}) = N
           <=> \A m, n \in 1..N : list[m] = list[n] => m = n
  <1> DEFINE T == {list[n] : n \in 1..N}
             f == [n \in 1..N |-> list[n]]
  <1>1. f \in Surjection(1..N, T)
    BY DEF Surjection
  <1>2. f \in Injection(1..N, T) <=> \A m, n \in 1..N : list[m] = list[n] => m = n
    BY <1>1 DEF Injection, IsInjective, Surjection
  <1>3. IsFiniteSet(1..N) /\ Cardinality(1..N) = N
    BY FS_Interval
  <1> HIDE DEF f, T
  <1> QED
    BY <1>1, <1>2, <1>3, FS_Surjection DEF T

\* Members of a set in a sequence of three...
LEMMA ThreeInSequence ==
    ASSUME NEW S, NEW a \in S, NEW b \in S, NEW c \in S
    PROVE  <<a, b, c>> \in Seq(S)
  OBVIOUS

\* ... and of six.
LEMMA SixInSequence ==
    ASSUME NEW S, NEW a \in S, NEW b \in S, NEW c \in S, NEW d \in S, NEW e \in S, NEW f \in S
    PROVE  <<a, b, c, d, e, f>> \in Seq(S)
  OBVIOUS

-----------------------------------------------------------------------------
(* The definition registry. *)

\* DefinitionIndex.validationErrors has nothing against lists of one pack's own
\* references.
LEMMA IndexesAreSound ==
    ASSUME NEW v, NEW duplicate, IndexErrors(v, duplicate) = {},
           NEW kind \in Kinds, NEW ref \in Elements(v.index[kind])
    PROVE  ref \in Ref /\ ref[1] = v.indexPack /\ ref = <<ref[1], ref[2]>>
  <1>1. RefErrors(ref) \cup Flag(ref[1] # v.indexPack, "definition_owner_conflict") = {}
    BY DEF IndexErrors
  <1>2. ref \in Ref /\ ref[1] = v.indexPack
    BY <1>1, Zenon DEF RefErrors, Flag
  <1> QED
    BY <1>2 DEF Ref

\* A hook that was taken owns what it lists.
HookOwns(v) ==
    /\ v # Nil /\ v.indexPack = v.pack /\ v.pack \in DOMAIN frozen
    /\ \A kind \in Kinds : \A ref \in Elements(v.index[kind]) :
          /\ ref \in Ref /\ ref[1] = v.pack
          /\ <<kind, ref[2]>> \in DOMAIN owners /\ owners[<<kind, ref[2]>>] = v.pack

Taken == DOMAIN sources \ validators

\* Without a conflict, the hooks taken so far are of different packs, and own
\* together what has an owner.
HooksOwnTheirOwn ==
    /\ sources \in Sources
    /\ validators \subseteq DOMAIN sources
    /\ conflicts = {} =>
          /\ \A n \in Taken : HookOwns(sources[n].validator)
          /\ \A m, n \in Taken : m # n => sources[m].validator.pack # sources[n].validator.pack
          /\ \A k \in DOMAIN owners :
                \E n \in Taken : \E kind \in Kinds : \E ref \in Elements(sources[n].validator.index[kind]) :
                    k = <<kind, ref[2]>> /\ owners[k] = ref[1]

\* A hook that NewRegistry takes without a conflict owns what it lists.
LEMMA ValidatorKeepsOwners ==
    ASSUME HooksOwnTheirOwn, NEW n \in DOMAIN sources, RegisterValidator(n)
    PROVE  HooksOwnTheirOwn'
  <1>1. sources' = sources /\ validators' = validators \ {n} /\ n \in validators
    BY DEF RegisterValidator
  <1>2. Taken' = Taken \cup {n} /\ n \notin Taken
    BY <1>1 DEF Taken, HooksOwnTheirOwn
  <1> SUFFICES ASSUME conflicts' = {} PROVE HooksOwnTheirOwn'
    BY <1>1 DEF HooksOwnTheirOwn
  <1> DEFINE v == sources[n].validator
             new == {d \in Claims(v) : ~Owned(d[1], d[2])}
             added == {Name(d) : d \in new}
             fresh == v.pack \notin DOMAIN frozen
             complaint == v.indexPack # v.pack \/ ~fresh \/ new # Claims(v)
             grown == [k \in DOMAIN owners \cup added |->
                          IF k \in added THEN (CHOOSE d \in new : Name(d) = k)[2][1] ELSE owners[k]]
  <1>3. /\ v # Nil /\ conflicts = {} /\ IndexErrors(v, "definition_owner_conflict") = {}
        /\ Flag(complaint, "definition_owner_conflict") = {}
        /\ DOMAIN frozen' = IF fresh THEN DOMAIN frozen \cup {v.pack} ELSE DOMAIN frozen
        /\ owners' = IF fresh THEN grown ELSE owners
    <2>1. v # Nil
      BY DEF RegisterValidator
    <2>2. /\ conflicts' = conflicts \cup IndexErrors(v, "definition_owner_conflict")
                            \cup Flag(complaint, "definition_owner_conflict")
          /\ frozen' = IF fresh THEN [p \in DOMAIN frozen \cup {v.pack} |->
                                         IF p = v.pack THEN v.index ELSE frozen[p]]
                                ELSE frozen
          /\ owners' = IF fresh THEN grown ELSE owners
      BY <2>1 DEF RegisterValidator
    <2> HIDE DEF v, complaint, grown
    <2>3. DOMAIN frozen' = IF fresh THEN DOMAIN frozen \cup {v.pack} ELSE DOMAIN frozen
      BY <2>2
    <2> QED
      BY <2>1, <2>2, <2>3
  <1>4. fresh /\ v.indexPack = v.pack /\ new = Claims(v)
    <2> HIDE DEF fresh, new
    <2> QED
      BY <1>3, Zenon DEF Flag
  <1>5. /\ DOMAIN owners' = DOMAIN owners \cup added
        /\ \A k \in added : owners'[k] = (CHOOSE d \in new : Name(d) = k)[2][1]
        /\ \A k \in DOMAIN owners : k \notin added => owners'[k] = owners[k]
    <2> HIDE DEF new, added, fresh
    <2> QED
      BY <1>3, <1>4
  <1>6. \A k \in DOMAIN owners : k \notin added
    BY DEF Owned, Name
  <1>7. ASSUME NEW kind \in Kinds, NEW ref \in Elements(v.index[kind])
        PROVE  ref \in Ref /\ ref[1] = v.pack /\ ref = <<ref[1], ref[2]>> /\ <<kind, ref>> \in new
    BY <1>3, <1>4, IndexesAreSound DEF Claims
  <1>8. ASSUME NEW k \in added
        PROVE  /\ owners'[k] = v.pack
               /\ \E kind \in Kinds : \E ref \in Elements(v.index[kind]) : k = <<kind, ref[2]>>
    <2>1. PICK d \in new : Name(d) = k /\ (CHOOSE e \in new : Name(e) = k) = d
      <3>1. \E d \in new : Name(d) = k
        OBVIOUS
      <3> HIDE DEF new
      <3> QED
        BY <3>1
    <2>2. d[1] \in Kinds /\ d[2] \in Elements(v.index[d[1]])
      BY DEF Claims
    <2>3. d[2][1] = v.pack
      BY <1>7, <2>2
    <2> HIDE DEF new, added
    <2> QED
      BY <1>5, <2>1, <2>2, <2>3 DEF Name
  <1>9. HookOwns(sources[n].validator)'
    <2>1. v.pack \in DOMAIN frozen'
      BY <1>3, <1>4
    <2>2. ASSUME NEW kind \in Kinds, NEW ref \in Elements(v.index[kind])
          PROVE  /\ ref \in Ref /\ ref[1] = v.pack
                 /\ <<kind, ref[2]>> \in DOMAIN owners' /\ owners'[<<kind, ref[2]>>] = v.pack
      <3>1. ref \in Ref /\ ref[1] = v.pack /\ <<kind, ref>> \in new
        BY <1>7
      <3>2. Name(<<kind, ref>>) \in added /\ Name(<<kind, ref>>) = <<kind, ref[2]>>
        BY <3>1 DEF Name
      <3> QED
        BY <1>5, <1>8, <3>1, <3>2
    <2>3. sources'[n].validator = v
      BY <1>1
    <2> HIDE DEF v
    <2> QED
      BY <1>3, <1>4, <2>1, <2>2, <2>3, Zenon DEF HookOwns
  <1>10. ASSUME NEW m \in Taken
         PROVE  HookOwns(sources[m].validator)' /\ sources[m].validator.pack # v.pack
    <2> DEFINE w == sources[m].validator
    <2>1. HookOwns(w)
      BY <1>3 DEF HooksOwnTheirOwn
    <2>2. sources'[m].validator = w
      BY <1>1
    <2> HIDE DEF v, w, added, new
    <2>3. DOMAIN frozen' = DOMAIN frozen \cup {v.pack} /\ v.pack \notin DOMAIN frozen
      BY <1>3, <1>4
    <2>4. w.pack \in DOMAIN frozen' /\ w.pack # v.pack
      BY <2>1, <2>3 DEF HookOwns
    <2>5. ASSUME NEW k \in DOMAIN owners PROVE k \in DOMAIN owners' /\ owners'[k] = owners[k]
      BY <1>5, <1>6
    <2> QED
      BY <2>1, <2>2, <2>4, <2>5 DEF HookOwns, w
  <1>11. ASSUME NEW k \in DOMAIN owners'
         PROVE  \E m \in Taken' : \E kind \in Kinds : \E ref \in Elements(sources'[m].validator.index[kind]) :
                    k = <<kind, ref[2]>> /\ owners'[k] = ref[1]
    <2>1. CASE k \in added
      <3>1. PICK kind \in Kinds : \E ref : /\ ref \in Elements(v.index[kind]) /\ k = <<kind, ref[2]>>
                                           /\ owners'[k] = v.pack
        BY <1>8, <2>1
      <3>4. PICK ref : /\ ref \in Elements(v.index[kind]) /\ k = <<kind, ref[2]>>
                       /\ owners'[k] = v.pack
        BY <3>1
      <3>2. ref[1] = v.pack
        BY <1>7, <3>4
      <3>3. n \in Taken' /\ sources'[n].validator = v
        BY <1>1, <1>2
      <3> QED
        BY <3>4, <3>2, <3>3
    <2>2. CASE k \notin added
      <3>1. k \in DOMAIN owners /\ owners'[k] = owners[k]
        BY <1>5, <2>2
      <3>2. PICK m \in Taken : \E kind \in Kinds : \E ref \in Elements(sources[m].validator.index[kind]) :
                                   k = <<kind, ref[2]>> /\ owners[k] = ref[1]
        BY <1>3, <3>1 DEF HooksOwnTheirOwn
      <3> QED
        BY <1>1, <1>2, <3>1, <3>2
    <2> QED
      BY <2>1, <2>2
  <1>12. \A m \in Taken' : HookOwns(sources[m].validator)'
    BY <1>2, <1>9, <1>10
  <1>13. \A i, j \in Taken' : i # j => sources'[i].validator.pack # sources'[j].validator.pack
    <2>1. \A i, j \in Taken : i # j => sources[i].validator.pack # sources[j].validator.pack
      BY <1>3 DEF HooksOwnTheirOwn
    <2> QED
      BY <1>1, <1>2, <1>10, <2>1
  <1>14. sources' \in Sources /\ validators' \subseteq DOMAIN sources'
    BY <1>1 DEF HooksOwnTheirOwn
  <1> QED
    BY <1>11, <1>12, <1>13, <1>14 DEF HooksOwnTheirOwn

\* Nothing is owned before the first hook.
LEMMA HooksInit == RegistryInit => HooksOwnTheirOwn
  BY DEF RegistryInit, HooksOwnTheirOwn, Taken

\* No step of either registry takes an owner away.
LEMMA HooksStep == HooksOwnTheirOwn /\ [RegistryNext]_registry => HooksOwnTheirOwn'
  <1> SUFFICES ASSUME HooksOwnTheirOwn, [RegistryNext]_registry PROVE HooksOwnTheirOwn'
    OBVIOUS
  <1>1. ASSUME UNCHANGED <<sources, validators, owners, frozen, conflicts>> PROVE HooksOwnTheirOwn'
    BY <1>1 DEF HooksOwnTheirOwn, HookOwns, Taken
  <1>2. CASE UNCHANGED registry
    BY <1>1, <1>2 DEF registry
  <1>3. ASSUME NEW n \in DOMAIN sources, RegisterMetadata(n) PROVE HooksOwnTheirOwn'
    BY <1>1, <1>3 DEF RegisterMetadata
  <1> QED
    BY <1>2, <1>3, ValidatorKeepsOwners DEF RegistryNext

\* OneOwner follows from what the hooks own.
LEMMA OwnersFollow == HooksOwnTheirOwn => OneOwner
  <1> SUFFICES ASSUME HooksOwnTheirOwn PROVE OneOwner
    OBVIOUS
  <1> DEFINE hooks == {n \in DOMAIN sources : sources[n].validator # Nil}
             claims(n) == {Name(d) : d \in Claims(sources[n].validator)}
  <1>1. ASSUME Registered
        PROVE  /\ hooks = DOMAIN sources
               /\ \A n \in hooks : \A kind \in Kinds :
                     \A ref \in Elements(sources[n].validator.index[kind]) :
                         Definition(kind, ref) = sources[n].validator.pack
    <2>1. \A n \in DOMAIN sources : HookOwns(sources[n].validator)
      BY <1>1 DEF Registered, HooksOwnTheirOwn, Taken
    <2>2. ASSUME NEW n \in DOMAIN sources, NEW kind \in Kinds,
                 NEW ref \in Elements(sources[n].validator.index[kind])
          PROVE  Definition(kind, ref) = sources[n].validator.pack
      <3> DEFINE v == sources[n].validator
      <3>1. HookOwns(v) /\ ref \in Elements(v.index[kind])
        BY <2>1
      <3> HIDE DEF v
      <3>2. /\ <<kind, ref[2]>> \in DOMAIN owners /\ owners[<<kind, ref[2]>>] = ref[1]
            /\ ref[1] = v.pack /\ ref[1] \in DOMAIN frozen
        BY <3>1 DEF HookOwns
      <3> QED
        BY <3>2 DEF Definition, Owned, v
    <2>3. hooks = DOMAIN sources
      BY <2>1 DEF HookOwns
    <2> QED
      BY <2>2, <2>3
  <1>2. ASSUME validators = {}, NEW m \in hooks, NEW n \in hooks, m # n,
               claims(m) \cap claims(n) # {}, conflicts = {}
        PROVE  FALSE
    <2>1. m \in Taken /\ n \in Taken
      BY <1>2 DEF Taken
    <2>2. sources[m].validator.pack # sources[n].validator.pack
      BY <1>2, <2>1 DEF HooksOwnTheirOwn
    <2>3. ASSUME NEW i \in Taken, NEW k \in claims(i)
          PROVE  owners[k] = sources[i].validator.pack
      <3>1. PICK d \in Claims(sources[i].validator) : k = <<d[1], d[2][2]>>
        BY <2>3 DEF Name
      <3>2. d[1] \in Kinds /\ d[2] \in Elements(sources[i].validator.index[d[1]])
        BY DEF Claims
      <3>3. HookOwns(sources[i].validator)
        BY <1>2 DEF HooksOwnTheirOwn
      <3> QED
        BY <3>1, <3>2, <3>3 DEF HookOwns
    <2>4. PICK k : k \in claims(m) /\ k \in claims(n)
      BY <1>2
    <2> HIDE DEF claims
    <2> QED
      BY <2>1, <2>2, <2>3, <2>4
  <1> HIDE DEF claims, hooks
  <1>3. validators = {} /\ (\E m, n \in hooks : m # n /\ claims(m) \cap claims(n) # {})
           => conflicts # {}
    BY <1>2
  <1> QED
    BY <1>1, <1>3 DEF OneOwner, hooks, claims

-----------------------------------------------------------------------------
(* The metadata registry. *)

\* The checks of a source that no other source plays a part in.
SelfMade(s) ==
    LET v == s.validator
        m == s.metadata
    IN  /\ v # Nil /\ v.describes # Nil
        /\ ReferenceErrors(m) = {} /\ IndexErrors(v, "duplicate_key") = {}
        /\ ~(ReferenceErrors(v.describes) # {} \/ v.describes.pack # v.pack)
        /\ m.pack = v.pack /\ v.indexPack = m.pack /\ m = v.describes

Introduced(s) == Elements(s.metadata.units) \cup Listed(s.validator)

\* What the checks of a source ask of the sources before it.
LEMMA SourceChecks ==
    ASSUME NEW s, NEW idx
    PROVE  SourceErrors(s, idx) = {}
           <=> /\ SelfMade(s) /\ s.metadata.pack \notin idx.packs
               /\ PackErrors(s.validator, s.metadata, idx.definitions) = {}
  <1> DEFINE v == s.validator
             m == s.metadata
             a == ReferenceErrors(m)
             b == IndexErrors(v, "duplicate_key")
             other == ReferenceErrors(v.describes) # {} \/ v.describes.pack # v.pack
             p == PackErrors(v, m, idx.definitions)
             mixed == \/ m.pack # v.pack \/ v.indexPack # m.pack \/ m.pack \in idx.packs
                      \/ m # v.describes
  <1>1. SourceErrors(s, idx) =
            IF v = Nil THEN {"definition_owner_conflict"}
            ELSE IF v.describes = Nil THEN {"definition_owner_missing"}
            ELSE a \cup Flag(other, "definition_owner_conflict") \cup b
                   \cup Flag(mixed, "definition_owner_conflict") \cup p
    BY DEF SourceErrors
  <1>2. SourceErrors(s, idx) = {} <=> v # Nil /\ v.describes # Nil /\ a = {} /\ ~other /\ b = {} /\ ~mixed /\ p = {}
    <2> HIDE DEF v, m, a, b, other, p, mixed
    <2> QED
      BY <1>1 DEF Flag
  <1>3. mixed <=> ~(m.pack = v.pack /\ v.indexPack = m.pack /\ m = v.describes) \/ m.pack \in idx.packs
    OBVIOUS
  <1> HIDE DEF a, b, other, p, mixed
  <1> QED
    BY <1>2, <1>3, Zenon DEF SelfMade, a, b, other, p

\* registerPack and its parts compare a pack with the others only by its definitions.
LEMMA PackChecks ==
    ASSUME NEW v, NEW m, NEW known
    PROVE  PackErrors(v, m, known) = {}
           <=> /\ PackErrors(v, m, {}) = {}
               /\ Elements(m.units) \cap known = {} /\ Listed(v) \cap known = {}
  <1> DEFINE a == Flag(\E ref \in Listed(v) : ref[1] # m.pack \/ Cardinality(KindsOf(v, ref)) # 1,
                       "definition_owner_conflict")
             b == CoverErrors(v, m.fields, "field")
             c == CoverErrors(v, m.services, "service")
             d == CoverErrors(v, m.capabilities, "capability")
             e == CoverErrors(v, m.operations, "operation")
             f == Flag(\E g \in Elements(m.fields) : g.unit # Nil /\ g.unit \notin Elements(m.units),
                       "definition_owner_missing")
             g == Flag(\E h \in Elements(m.capabilities) : \A s \in Elements(m.services) : s.ref # h.service,
                       "definition_owner_missing")
             h == UNION {OperationErrors(v, m, o) : o \in Elements(m.operations)}
             units == Elements(m.units)
             listed == Listed(v)
             twice == Duplicate(m.units)
  <1>1. \A k : PackErrors(v, m, k) =
            a \cup Flag(twice \/ units \cap (listed \cup k) # {}, "definition_owner_conflict")
              \cup Flag(listed \cap k # {}, "definition_owner_conflict")
              \cup b \cup c \cup d \cup e \cup f \cup g \cup h
    BY DEF PackErrors
  <1> HIDE DEF a, b, c, d, e, f, g, h, units, listed, twice
  <1>2. \A k : PackErrors(v, m, k) = {} <=>
            /\ a = {} /\ b = {} /\ c = {} /\ d = {} /\ e = {} /\ f = {} /\ g = {} /\ h = {}
            /\ ~twice /\ units \cap (listed \cup k) = {} /\ listed \cap k = {}
    BY <1>1 DEF Flag
  <1> QED
    BY <1>2 DEF units, listed

\* A source on its own.
SourceOK(s) == SourceErrors(s, EmptyIndex) = {}

\* A source is taken exactly when it would be alone and shares neither its pack nor
\* a definition with what is there.
LEMMA JudgedAlone ==
    ASSUME NEW s, NEW idx
    PROVE  SourceErrors(s, idx) = {}
           <=> /\ SourceOK(s) /\ s.metadata.pack \notin idx.packs
               /\ Introduced(s) \cap idx.definitions = {}
  <1>1. EmptyIndex.packs = {} /\ EmptyIndex.definitions = {}
    BY DEF EmptyIndex
  <1>2. SourceOK(s) <=> SelfMade(s) /\ PackErrors(s.validator, s.metadata, {}) = {}
    BY <1>1, SourceChecks DEF SourceOK
  <1> QED
    BY <1>2, SourceChecks, PackChecks DEF Introduced

\* What a source introduces is of its own pack.
LEMMA IntroducedByItsPack ==
    ASSUME NEW s, SourceOK(s)
    PROVE  /\ \A ref \in References(s.metadata) : ref \in Ref /\ ref[1] = s.metadata.pack
           /\ \A ref \in Introduced(s) : ref \in Ref /\ ref[1] = s.metadata.pack
  <1> DEFINE v == s.validator
             m == s.metadata
  <1>1. /\ ReferenceErrors(m) = {} /\ IndexErrors(v, "duplicate_key") = {}
        /\ v.indexPack = m.pack
    BY SourceChecks DEF SourceOK, SelfMade
  <1>2. ASSUME NEW ref \in References(m) PROVE ref \in Ref /\ ref[1] = m.pack
    <2>1. RefErrors(ref) \cup Flag(ref[1] # m.pack, "definition_owner_conflict") = {}
      BY <1>1 DEF ReferenceErrors
    <2> QED
      BY <2>1, Zenon DEF RefErrors, Flag
  <1>3. ASSUME NEW ref \in Listed(v) PROVE ref \in Ref /\ ref[1] = m.pack
    <2>1. PICK kind \in Kinds : ref \in Elements(v.index[kind])
      BY DEF Listed
    <2> QED
      BY <1>1, <2>1, IndexesAreSound
  <1>4. Elements(m.units) \subseteq References(m)
    BY DEF References
  <1> QED
    BY <1>2, <1>3, <1>4 DEF Introduced

Indexed == DOMAIN sources \ metadata

\* The index holds what the sources taken so far say, and each of them would
\* have been taken alone.
IndexIsOfItsSources ==
    /\ sources \in Sources
    /\ metadata \subseteq DOMAIN sources
    /\ index = [packs |-> index.packs, definitions |-> index.definitions, fields |-> index.fields,
                services |-> index.services, caps |-> index.caps, operations |-> index.operations]
    /\ \A n \in Indexed : SourceOK(sources[n])
    /\ \A m, n \in Indexed : m # n => sources[m].metadata.pack # sources[n].metadata.pack
    /\ \A x : x \in index.packs       <=> \E n \in Indexed : x = sources[n].metadata.pack
    /\ \A x : x \in index.definitions <=> \E n \in Indexed : x \in Introduced(sources[n])
    /\ \A x : x \in index.fields      <=> \E n \in Indexed : x \in Elements(sources[n].metadata.fields)
    /\ \A x : x \in index.services    <=> \E n \in Indexed : x \in Elements(sources[n].metadata.services)
    /\ \A x : x \in index.caps        <=> \E n \in Indexed : x \in Elements(sources[n].metadata.capabilities)
    /\ \A x : x \in index.operations  <=> \E n \in Indexed : x \in Elements(sources[n].metadata.operations)

Wrong  == \E n \in DOMAIN sources : ~SourceOK(sources[n])
Shared == \E m, n \in DOMAIN sources :
              m # n /\ sources[m].metadata.pack = sources[n].metadata.pack

IndexInv == IndexIsOfItsSources /\ (refused => Wrong \/ Shared)

\* A source that would be taken alone is taken unless its pack is there already.
LEMMA OnlyItsPackStandsInTheWay ==
    ASSUME IndexIsOfItsSources, NEW n \in DOMAIN sources, n \notin Indexed
    PROVE  SourceErrors(sources[n], index) = {}
           <=> /\ SourceOK(sources[n])
               /\ \A m \in Indexed : sources[m].metadata.pack # sources[n].metadata.pack
  <1> DEFINE s == sources[n]
  <1>1. s.metadata.pack \notin index.packs
        <=> \A m \in Indexed : sources[m].metadata.pack # s.metadata.pack
    BY DEF IndexIsOfItsSources
  <1>2. ASSUME SourceOK(s), s.metadata.pack \notin index.packs
        PROVE  Introduced(s) \cap index.definitions = {}
    <2> SUFFICES ASSUME NEW x, x \in Introduced(s), x \in index.definitions PROVE FALSE
      OBVIOUS
    <2>1. x[1] = s.metadata.pack
      BY <1>2, IntroducedByItsPack
    <2>2. PICK m \in Indexed : x \in Introduced(sources[m])
      BY DEF IndexIsOfItsSources
    <2>3. SourceOK(sources[m])
      BY DEF IndexIsOfItsSources
    <2>4. x[1] = sources[m].metadata.pack
      BY <2>2, <2>3, IntroducedByItsPack
    <2> QED
      BY <1>1, <1>2, <2>1, <2>4
  <1>3. SourceErrors(s, index) = {}
        <=> /\ SourceOK(s) /\ s.metadata.pack \notin index.packs
            /\ Introduced(s) \cap index.definitions = {}
    BY JudgedAlone
  <1> QED
    BY <1>1, <1>2, <1>3

\* A source that is registered or refused leaves the index true to its sources.
LEMMA MetadataKeepsIndex ==
    ASSUME IndexInv, NEW n \in DOMAIN sources, RegisterMetadata(n)
    PROVE  IndexInv'
  <1> DEFINE s == sources[n]
             m == s.metadata
  <1>1. sources' = sources /\ ~refused /\ n \in metadata /\ n \notin Indexed
    BY DEF RegisterMetadata, Indexed
  <1>2. CASE SourceErrors(s, index) # {}
    <2>1. refused' /\ metadata' = metadata /\ index' = index
      BY <1>2 DEF RegisterMetadata
    <2>2. Wrong \/ Shared
      <3>1. SourceOK(s) => \E j \in Indexed : sources[j].metadata.pack = s.metadata.pack
        BY <1>1, <1>2, OnlyItsPackStandsInTheWay DEF IndexInv
      <3> QED
        BY <1>1, <3>1 DEF Wrong, Shared, Indexed
    <2> QED
      BY <1>1, <2>1, <2>2 DEF IndexInv, IndexIsOfItsSources, Indexed, Wrong, Shared
  <1>3. CASE SourceErrors(s, index) = {}
    <2>1. /\ metadata' = metadata \ {n} /\ ~refused'
          /\ index' = [packs       |-> index.packs \cup {m.pack},
                       definitions |-> index.definitions \cup Elements(m.units) \cup Listed(s.validator),
                       fields      |-> index.fields \cup Elements(m.fields),
                       services    |-> index.services \cup Elements(m.services),
                       caps        |-> index.caps \cup Elements(m.capabilities),
                       operations  |-> index.operations \cup Elements(m.operations)]
      BY <1>1, <1>3 DEF RegisterMetadata
    <2>2. SourceOK(s) /\ \A j \in Indexed : sources[j].metadata.pack # m.pack
      BY <1>1, <1>3, OnlyItsPackStandsInTheWay DEF IndexInv
    <2>3. Indexed' = Indexed \cup {n}
      BY <1>1, <2>1 DEF Indexed
    <2>4. /\ index'.packs = index.packs \cup {m.pack}
          /\ index'.definitions = index.definitions \cup Introduced(s)
          /\ index'.fields = index.fields \cup Elements(m.fields)
          /\ index'.services = index.services \cup Elements(m.services)
          /\ index'.caps = index.caps \cup Elements(m.capabilities)
          /\ index'.operations = index.operations \cup Elements(m.operations)
          /\ index' = [packs |-> index'.packs, definitions |-> index'.definitions,
                       fields |-> index'.fields, services |-> index'.services,
                       caps |-> index'.caps, operations |-> index'.operations]
      BY <2>1 DEF Introduced
    <2>5. \A x : x \in index'.packs <=> \E j \in Indexed' : x = sources[j].metadata.pack
      BY <2>3, <2>4 DEF IndexInv, IndexIsOfItsSources
    <2>6. \A x : x \in index'.definitions <=> \E j \in Indexed' : x \in Introduced(sources[j])
      BY <2>3, <2>4 DEF IndexInv, IndexIsOfItsSources
    <2>7. \A x : x \in index'.fields <=> \E j \in Indexed' : x \in Elements(sources[j].metadata.fields)
      BY <2>3, <2>4 DEF IndexInv, IndexIsOfItsSources
    <2>8. \A x : x \in index'.services <=> \E j \in Indexed' : x \in Elements(sources[j].metadata.services)
      BY <2>3, <2>4 DEF IndexInv, IndexIsOfItsSources
    <2>9. \A x : x \in index'.caps <=> \E j \in Indexed' : x \in Elements(sources[j].metadata.capabilities)
      BY <2>3, <2>4 DEF IndexInv, IndexIsOfItsSources
    <2>10. \A x : x \in index'.operations <=> \E j \in Indexed' : x \in Elements(sources[j].metadata.operations)
      BY <2>3, <2>4 DEF IndexInv, IndexIsOfItsSources
    <2>11. \A j \in Indexed' : SourceOK(sources[j])
      BY <2>2, <2>3 DEF IndexInv, IndexIsOfItsSources
    <2>12. \A i, j \in Indexed' : i # j => sources[i].metadata.pack # sources[j].metadata.pack
      BY <2>2, <2>3 DEF IndexInv, IndexIsOfItsSources
    <2>13. sources' \in Sources /\ metadata' \subseteq DOMAIN sources'
      BY <1>1, <2>1 DEF IndexInv, IndexIsOfItsSources
    <2> QED
      BY <1>1, <2>1, <2>4, <2>5, <2>6, <2>7, <2>8, <2>9, <2>10, <2>11, <2>12, <2>13
         DEF IndexInv, IndexIsOfItsSources
  <1> QED
    BY <1>2, <1>3

\* The empty index is of no source.
LEMMA IndexInit == RegistryInit => IndexInv
  <1> SUFFICES ASSUME RegistryInit PROVE IndexInv
    OBVIOUS
  <1>1. Indexed = {} /\ sources \in Sources /\ metadata \subseteq DOMAIN sources /\ ~refused
    BY DEF RegistryInit, Indexed
  <1>2. /\ index.packs = {} /\ index.definitions = {} /\ index.fields = {} /\ index.services = {}
        /\ index.caps = {} /\ index.operations = {}
        /\ index = [packs |-> index.packs, definitions |-> index.definitions, fields |-> index.fields,
                    services |-> index.services, caps |-> index.caps, operations |-> index.operations]
    BY DEF RegistryInit, EmptyIndex
  <1> QED
    BY <1>1, <1>2 DEF IndexInv, IndexIsOfItsSources

\* No step of either registry spoils the index.
LEMMA IndexStep == IndexInv /\ [RegistryNext]_registry => IndexInv'
  <1> SUFFICES ASSUME IndexInv, [RegistryNext]_registry PROVE IndexInv'
    OBVIOUS
  <1>1. ASSUME UNCHANGED <<sources, metadata, index, refused>> PROVE IndexInv'
    BY <1>1 DEF IndexInv, IndexIsOfItsSources, Indexed, Wrong, Shared
  <1>2. CASE UNCHANGED registry
    BY <1>1, <1>2 DEF registry
  <1>3. ASSUME NEW n \in DOMAIN sources, RegisterValidator(n) PROVE IndexInv'
    BY <1>1, <1>3 DEF RegisterValidator
  <1> QED
    BY <1>2, <1>3, MetadataKeepsIndex DEF RegistryNext

\* RefusalIsOrderless follows from what the index holds.
LEMMA RefusalFollows == IndexInv => RefusalIsOrderless
  BY DEF IndexInv, IndexIsOfItsSources, Indexed, Described, RefusalIsOrderless, Wrong, Shared, SourceOK

\* What the hooks own and what the index holds is so in every registry.
THEOREM RegistryInvHolds == RegistrySpec => [](HooksOwnTheirOwn /\ IndexInv)
  <1>1. RegistryInit => HooksOwnTheirOwn /\ IndexInv
    BY HooksInit, IndexInit
  <1>2. (HooksOwnTheirOwn /\ IndexInv) /\ [RegistryNext]_registry => (HooksOwnTheirOwn /\ IndexInv)'
    BY HooksStep, IndexStep
  <1> QED
    BY <1>1, <1>2, PTL DEF RegistrySpec

\* OneOwnerInAnyOrder: any number of packs, registered in any order, have one
\* owner for each definition, and are taken or refused alike.
THEOREM OwnersAreUnique == RegistrySpec => []OneOwnerInAnyOrder
  <1>1. HooksOwnTheirOwn /\ IndexInv => OneOwnerInAnyOrder
    BY OwnersFollow, RefusalFollows DEF OneOwnerInAnyOrder
  <1> QED
    BY <1>1, RegistryInvHolds, PTL

-----------------------------------------------------------------------------
(* Relations. *)

\* registerFields and the like: a list and the index of its kind name the same
\* definitions, each once.
LEMMA CoversAreExact ==
    ASSUME NEW v, NEW list, NEW kind, CoverErrors(v, list, kind) = {}
    PROVE  Elements(v.index[kind]) = {x.ref : x \in Elements(list)}
  <1> DEFINE refs == [n \in DOMAIN list |-> list[n].ref]
  <1>1. Elements(refs) = Elements(v.index[kind])
    BY Zenon DEF CoverErrors, Flag
  <1>2. Elements(refs) = {x.ref : x \in Elements(list)}
    BY DEF Elements
  <1> QED
    BY <1>1, <1>2

\* A list that covers its index names nothing twice...
LEMMA CoversAreOnce ==
    ASSUME NEW v, NEW list, NEW kind, CoverErrors(v, list, kind) = {}
    PROVE  ~Duplicate([n \in DOMAIN list |-> list[n].ref])
  BY Zenon DEF CoverErrors, Flag

\* ... nothing that is not indexed...
LEMMA ListedIsIndexed ==
    ASSUME NEW v, NEW list, NEW kind, CoverErrors(v, list, kind) = {}, NEW x \in Elements(list)
    PROVE  x.ref \in Elements(v.index[kind])
  BY CoversAreExact

\* ... and everything that is.
LEMMA IndexedIsListed ==
    ASSUME NEW v, NEW list, NEW kind, CoverErrors(v, list, kind) = {},
           NEW ref \in Elements(v.index[kind])
    PROVE  \E x \in Elements(list) : x.ref = ref
  BY CoversAreExact

\* What registerPack found right about a source that is taken.
LEMMA PackParts ==
    ASSUME NEW s, SourceOK(s)
    PROVE  LET v == s.validator
               m == s.metadata
           IN  /\ CoverErrors(v, m.fields, "field") = {}
               /\ CoverErrors(v, m.services, "service") = {}
               /\ CoverErrors(v, m.capabilities, "capability") = {}
               /\ CoverErrors(v, m.operations, "operation") = {}
               /\ Elements(m.units) \cap Listed(v) = {}
               /\ \A c \in Elements(m.capabilities) : \E t \in Elements(m.services) : t.ref = c.service
               /\ \A o \in Elements(m.operations) : OperationErrors(v, m, o) = {}
  <1> DEFINE v == s.validator
             m == s.metadata
  <1>1. PackErrors(v, m, {}) = {}
    BY SourceChecks DEF SourceOK, EmptyIndex
  <1>2. /\ CoverErrors(v, m.fields, "field") = {}
        /\ CoverErrors(v, m.services, "service") = {}
        /\ CoverErrors(v, m.capabilities, "capability") = {}
        /\ CoverErrors(v, m.operations, "operation") = {}
        /\ UNION {OperationErrors(v, m, o) : o \in Elements(m.operations)} = {}
        /\ Flag(Duplicate(m.units) \/ Elements(m.units) \cap (Listed(v) \cup {}) # {},
                "definition_owner_conflict") = {}
        /\ Flag(\E c \in Elements(m.capabilities) : \A t \in Elements(m.services) : t.ref # c.service,
                "definition_owner_missing") = {}
    BY <1>1, Zenon DEF PackErrors
  <1>3. Elements(m.units) \cap (Listed(v) \cup {}) = {}
    BY <1>2, Zenon DEF Flag
  <1>4. \A c \in Elements(m.capabilities) : \E t \in Elements(m.services) : t.ref = c.service
    BY <1>2, Zenon DEF Flag
  <1> QED
    BY <1>2, <1>3, <1>4

\* What the metadata of one source relate.
LEMMA FieldsAreListed ==
    ASSUME NEW s, SourceOK(s), NEW f \in Elements(s.metadata.fields)
    PROVE  /\ f.ref \in Introduced(s) /\ f.ref[1] = s.metadata.pack
           /\ f.dimension[1] = s.metadata.pack
  <1>1. f.ref \in References(s.metadata) /\ f.dimension \in References(s.metadata)
    BY DEF References
  <1>2. f.ref \in Elements(s.validator.index["field"])
    <2>1. CoverErrors(s.validator, s.metadata.fields, "field") = {}
      BY PackParts
    <2> QED
      BY <2>1, ListedIsIndexed
  <1> QED
    BY <1>1, <1>2, IntroducedByItsPack DEF Introduced, Listed, Kinds

\* A service and its dimension are of the pack that lists it.
LEMMA ServicesAreListed ==
    ASSUME NEW s, SourceOK(s), NEW t \in Elements(s.metadata.services)
    PROVE  /\ t.ref \in Introduced(s) /\ t.ref[1] = s.metadata.pack
           /\ t.dimension[1] = s.metadata.pack
  <1>1. t.ref \in References(s.metadata) /\ t.dimension \in References(s.metadata)
    BY DEF References
  <1>2. t.ref \in Elements(s.validator.index["service"])
    <2>1. CoverErrors(s.validator, s.metadata.services, "service") = {}
      BY PackParts
    <2> QED
      BY <2>1, ListedIsIndexed
  <1> QED
    BY <1>1, <1>2, IntroducedByItsPack DEF Introduced, Listed, Kinds

\* A capability and its service are definitions of the pack that lists it.
LEMMA CapabilitiesAreListed ==
    ASSUME NEW s, SourceOK(s), NEW c \in Elements(s.metadata.capabilities)
    PROVE  /\ c.ref \in Introduced(s) /\ c.ref[1] = s.metadata.pack
           /\ c.service \in Introduced(s) /\ c.service[1] = s.metadata.pack
  <1>1. c.ref \in Elements(s.validator.index["capability"])
    <2>1. CoverErrors(s.validator, s.metadata.capabilities, "capability") = {}
      BY PackParts
    <2> QED
      BY <2>1, ListedIsIndexed
  <1>2. c.ref \in Introduced(s)
    BY <1>1 DEF Introduced, Listed, Kinds
  <1>3. PICK t \in Elements(s.metadata.services) : t.ref = c.service
    BY PackParts
  <1>4. c.service \in Introduced(s)
    BY <1>3, ServicesAreListed
  <1> QED
    BY <1>2, <1>4, IntroducedByItsPack

\* No list of capabilities names one twice.
LEMMA CapabilitiesAreOnce ==
    ASSUME NEW s, SourceOK(s),
           DOMAIN s.metadata.capabilities = 1..Len(s.metadata.capabilities),
           Len(s.metadata.capabilities) \in Nat,
           NEW c \in Elements(s.metadata.capabilities), NEW d \in Elements(s.metadata.capabilities),
           c.ref = d.ref
    PROVE  c = d
  <1> DEFINE list == s.metadata.capabilities
             N == Len(list)
             refs == [n \in 1..N |-> list[n].ref]
  <1>1. ~Duplicate(refs)
    <2>1. CoverErrors(s.validator, list, "capability") = {}
      BY PackParts
    <2> QED
      BY <2>1, CoversAreOnce
  <1>2. DOMAIN refs = 1..N /\ Len(refs) = N /\ N \in Nat
    OBVIOUS
  <1>3. PICK i \in 1..N, j \in 1..N : c = list[i] /\ d = list[j]
    BY DEF Elements
  <1>4. refs[i] = refs[j]
    BY <1>3
  <1> HIDE DEF refs, list, N
  <1>5. Cardinality({refs[n] : n \in 1..N}) = N
    BY <1>1, <1>2, Zenon DEF Duplicate, Elements
  <1>6. i = j
    BY <1>2, <1>4, <1>5, ListsWithoutRepetition
  <1> QED
    BY <1>3, <1>6

\* KindsOf says of a reference which indexes it is in.
LEMMA OfOneKind ==
    ASSUME NEW v, NEW ref, NEW kind, KindsOf(v, ref) = {kind}
    PROVE  ref \in Elements(v.index[kind]) /\ kind \in Kinds
  BY DEF KindsOf

\* What an operation names is defined by its pack, its capability is of its service.
LEMMA OperationsAreListed ==
    ASSUME NEW s, SourceOK(s), NEW o \in Elements(s.metadata.operations)
    PROVE  /\ \A ref \in {o.ref, o.capability, o.service, o.argument, o.effect} :
                 ref \in Introduced(s) /\ ref[1] = s.metadata.pack
           /\ \E c \in Elements(s.metadata.capabilities) : c.ref = o.capability /\ c.service = o.service
           /\ \E f \in Elements(s.metadata.fields) : f.ref = o.argument
  <1> DEFINE v == s.validator
             m == s.metadata
  <1>1. OperationErrors(v, m, o) = {}
    BY PackParts
  <1>2. /\ KindsOf(v, o.argument) = {"field"} /\ KindsOf(v, o.effect) = {"effect_rule"}
        /\ \E c \in Elements(m.capabilities) : c.ref = o.capability /\ c.service = o.service
    BY <1>1, Zenon DEF OperationErrors, Flag
  <1>3. o.ref \in Elements(v.index["operation"])
    <2>1. CoverErrors(v, m.operations, "operation") = {}
      BY PackParts
    <2> QED
      BY <2>1, ListedIsIndexed
  <1>4. o.argument \in Elements(v.index["field"]) /\ o.effect \in Elements(v.index["effect_rule"])
    BY <1>2, OfOneKind
  <1>5. o.ref \in Introduced(s) /\ o.argument \in Introduced(s) /\ o.effect \in Introduced(s)
    BY <1>3, <1>4 DEF Introduced, Listed, Kinds
  <1>6. o.capability \in Introduced(s) /\ o.service \in Introduced(s)
    BY <1>2, CapabilitiesAreListed
  <1>7. \E f \in Elements(m.fields) : f.ref = o.argument
    <2>1. CoverErrors(v, m.fields, "field") = {}
      BY PackParts
    <2> QED
      BY <1>4, <2>1, IndexedIsListed
  <1> QED
    BY <1>2, <1>5, <1>6, <1>7, IntroducedByItsPack

\* Where the entries of the index come from.
LEMMA OperationsComeFrom ==
    ASSUME IndexInv, NEW o \in index.operations
    PROVE  \E n \in Indexed : SourceOK(sources[n]) /\ o \in Elements(sources[n].metadata.operations)
  BY DEF IndexInv, IndexIsOfItsSources

\* A capability in the index is one of a source that was taken.
LEMMA CapabilitiesComeFrom ==
    ASSUME IndexInv, NEW c \in index.caps
    PROVE  \E n \in Indexed : SourceOK(sources[n]) /\ c \in Elements(sources[n].metadata.capabilities)
  BY DEF IndexInv, IndexIsOfItsSources

\* What a source that was taken introduces is in the index.
LEMMA IntroducedIsIndexed ==
    ASSUME IndexInv, NEW n \in Indexed
    PROVE  /\ Introduced(sources[n]) \subseteq index.definitions
           /\ Elements(sources[n].metadata.fields) \subseteq index.fields
           /\ Elements(sources[n].metadata.capabilities) \subseteq index.caps
  BY DEF IndexInv, IndexIsOfItsSources

\* What the index says about an operation leads to definitions of one pack.
LEMMA OperationsAreClosed ==
    ASSUME IndexInv, NEW o \in index.operations
    PROVE  /\ OperationMatches(o.ref, o.capability, o.service, o.argument, o.effect)
           /\ ServiceOwnsCapability(o.service, o.capability)
           /\ \A ref \in {o.ref, o.capability, o.service, o.argument, o.effect} :
                 HasDefinition(ref) /\ ref[1] = o.ref[1]
           /\ \E f \in index.fields : f.ref = o.argument
  <1>1. PICK n \in Indexed : SourceOK(sources[n]) /\ o \in Elements(sources[n].metadata.operations)
    BY OperationsComeFrom
  <1> DEFINE s == sources[n]
  <1>2. o = [ref |-> o.ref, capability |-> o.capability, service |-> o.service,
             argument |-> o.argument, effect |-> o.effect]
    <2>1. sources \in Sources /\ n \in DOMAIN sources
      BY DEF IndexInv, IndexIsOfItsSources, Indexed
    <2>2. PICK i \in DOMAIN s.metadata.operations : o = s.metadata.operations[i]
      BY <1>1 DEF Elements
    <2> QED
      BY <2>1, <2>2, DefinitionsAssumption
  <1>3. OperationMatches(o.ref, o.capability, o.service, o.argument, o.effect)
    BY <1>2, Zenon DEF OperationMatches
  <1>4. \A ref \in {o.ref, o.capability, o.service, o.argument, o.effect} :
           ref \in Introduced(s) /\ ref[1] = s.metadata.pack
    BY <1>1, OperationsAreListed
  <1>5. \A ref \in {o.ref, o.capability, o.service, o.argument, o.effect} :
           HasDefinition(ref) /\ ref[1] = o.ref[1]
    BY <1>4, IntroducedIsIndexed DEF HasDefinition
  <1>6. \E f \in index.fields : f.ref = o.argument
    BY <1>1, OperationsAreListed, IntroducedIsIndexed
  <1>7. ServiceOwnsCapability(o.service, o.capability)
    BY <1>1, OperationsAreListed, IntroducedIsIndexed DEF ServiceOwnsCapability
  <1> QED
    BY <1>3, <1>5, <1>6, <1>7

\* No capability is of two services.
LEMMA CapabilitiesAreOfOneService ==
    ASSUME IndexInv, NEW c \in index.caps, NEW d \in index.caps, c.ref = d.ref
    PROVE  c.service = d.service
  <1>1. PICK m \in Indexed : SourceOK(sources[m]) /\ c \in Elements(sources[m].metadata.capabilities)
    BY CapabilitiesComeFrom
  <1>2. PICK n \in Indexed : SourceOK(sources[n]) /\ d \in Elements(sources[n].metadata.capabilities)
    BY CapabilitiesComeFrom
  <1>3. c.ref[1] = sources[m].metadata.pack /\ d.ref[1] = sources[n].metadata.pack
    BY <1>1, <1>2, CapabilitiesAreListed
  <1>4. m = n
    BY <1>3 DEF IndexInv, IndexIsOfItsSources
  <1>5. sources \in Sources /\ m \in DOMAIN sources
    BY DEF IndexInv, IndexIsOfItsSources, Indexed
  <1>6. /\ DOMAIN sources[m].metadata.capabilities = 1..Len(sources[m].metadata.capabilities)
        /\ Len(sources[m].metadata.capabilities) \in Nat
    BY <1>5, DefinitionsAssumption
  <1>7. c = d
    BY <1>1, <1>2, <1>4, <1>6, CapabilitiesAreOnce
  <1> QED
    BY <1>7

\* A field that matches a capability is of the capability's pack.
LEMMA FieldsMatchInTheirPack ==
    ASSUME IndexInv, NEW f \in index.fields, NEW c \in index.caps,
           FieldMatches(f.ref, c.service, c.ref)
    PROVE  f.ref[1] = c.ref[1] /\ HasDefinition(f.ref)
  <1>1. PICK g \in index.fields, t \in index.services :
            g.ref = f.ref /\ t.ref = c.service /\ g.dimension = t.dimension
    BY DEF FieldMatches
  <1>2. PICK n \in Indexed : SourceOK(sources[n]) /\ g \in Elements(sources[n].metadata.fields)
    BY DEF IndexInv, IndexIsOfItsSources
  <1>3. PICK m \in Indexed : SourceOK(sources[m]) /\ t \in Elements(sources[m].metadata.services)
    BY DEF IndexInv, IndexIsOfItsSources
  <1>4. PICK k \in Indexed : SourceOK(sources[k]) /\ c \in Elements(sources[k].metadata.capabilities)
    BY CapabilitiesComeFrom
  <1>5. /\ g.ref \in Introduced(sources[n]) /\ g.ref[1] = sources[n].metadata.pack
        /\ g.dimension[1] = sources[n].metadata.pack
    BY <1>2, FieldsAreListed
  <1>6. t.ref[1] = sources[m].metadata.pack /\ t.dimension[1] = sources[m].metadata.pack
    BY <1>3, ServicesAreListed
  <1>7. c.ref[1] = sources[k].metadata.pack /\ c.service[1] = sources[k].metadata.pack
    BY <1>4, CapabilitiesAreListed
  <1>8. HasDefinition(g.ref)
    BY <1>5, IntroducedIsIndexed DEF HasDefinition
  <1> QED
    BY <1>1, <1>5, <1>6, <1>7, <1>8

\* RelationsAreClosed follows from what the index holds.
LEMMA RelationsFollow == IndexInv => RelationsAreClosed
  <1> SUFFICES ASSUME IndexInv PROVE RelationsAreClosed
    OBVIOUS
  <1>1. \A o \in index.operations :
           /\ OperationMatches(o.ref, o.capability, o.service, o.argument, o.effect)
           /\ ServiceOwnsCapability(o.service, o.capability)
           /\ \A ref \in {o.ref, o.capability, o.service, o.argument, o.effect} :
                 HasDefinition(ref) /\ ref[1] = o.ref[1]
           /\ \E f \in index.fields : f.ref = o.argument
    BY OperationsAreClosed
  <1>2. \A c \in index.caps : \A s, t \in Ref :
           ServiceOwnsCapability(s, c.ref) /\ ServiceOwnsCapability(t, c.ref) => s = t
    BY CapabilitiesAreOfOneService DEF ServiceOwnsCapability
  <1>3. \A f \in index.fields : \A c \in index.caps :
           FieldMatches(f.ref, c.service, c.ref) => f.ref[1] = c.ref[1] /\ HasDefinition(f.ref)
    BY FieldsMatchInTheirPack
  <1> QED
    BY <1>1, <1>2, <1>3 DEF RelationsAreClosed

\* RegistriesAgree follows from what is owned and what is indexed.
LEMMA AgreementFollows == HooksOwnTheirOwn /\ IndexInv => RegistriesAgree
  <1> SUFFICES ASSUME HooksOwnTheirOwn, IndexInv, Registered, Described, NEW ref \in Ref
               PROVE  HasDefinition(ref)
                      /\ ref \notin UNION {Elements(sources[n].metadata.units) : n \in DOMAIN sources}
                      <=> \E kind \in Kinds : Definition(kind, ref) # Nil
    BY DEF RegistriesAgree
  <1> DEFINE units == UNION {Elements(sources[n].metadata.units) : n \in DOMAIN sources}
  <1>1. Taken = DOMAIN sources /\ Indexed = DOMAIN sources /\ conflicts = {}
    BY DEF Registered, Described, Taken, Indexed
  <1>2. \A n \in DOMAIN sources : HookOwns(sources[n].validator) /\ SourceOK(sources[n])
    BY <1>1 DEF HooksOwnTheirOwn, IndexInv, IndexIsOfItsSources
  <1>3. ASSUME HasDefinition(ref), ref \notin units
        PROVE  \E kind \in Kinds : Definition(kind, ref) # Nil
    <2>1. PICK n \in DOMAIN sources : ref \in Introduced(sources[n])
      BY <1>1, <1>3 DEF HasDefinition, IndexInv, IndexIsOfItsSources
    <2>2. ref \in Listed(sources[n].validator)
      BY <1>3, <2>1 DEF Introduced
    <2>3. PICK kind \in Kinds : ref \in Elements(sources[n].validator.index[kind])
      BY <2>2 DEF Listed
    <2>4. /\ <<kind, ref[2]>> \in DOMAIN owners /\ owners[<<kind, ref[2]>>] = ref[1]
          /\ ref[1] \in DOMAIN frozen
      BY <1>2, <2>3 DEF HookOwns
    <2>5. Definition(kind, ref) = ref[1]
      BY <2>4 DEF Definition, Owned
    <2>6. ref[1] # Nil
      BY DefinitionsAssumption DEF Ref
    <2> QED
      BY <2>5, <2>6
  <1>4. ASSUME NEW kind \in Kinds, Definition(kind, ref) # Nil
        PROVE  HasDefinition(ref) /\ ref \notin units
    <2>1. <<kind, ref[2]>> \in DOMAIN owners /\ owners[<<kind, ref[2]>>] = ref[1]
      BY <1>4 DEF Definition, Owned
    <2>2. PICK n \in DOMAIN sources : \E k \in Kinds : \E r \in Elements(sources[n].validator.index[k]) :
                  <<kind, ref[2]>> = <<k, r[2]>> /\ ref[1] = r[1]
      BY <1>1, <2>1 DEF HooksOwnTheirOwn
    <2>10. PICK k \in Kinds : \E r \in Elements(sources[n].validator.index[k]) :
                  <<kind, ref[2]>> = <<k, r[2]>> /\ ref[1] = r[1]
      BY <2>2
    <2>3. PICK r \in Elements(sources[n].validator.index[k]) :
                  <<kind, ref[2]>> = <<k, r[2]>> /\ ref[1] = r[1]
      BY <2>10
    <2>4. r \in Ref
      BY <1>2, <2>3 DEF HookOwns
    <2>5. r = ref
      BY <2>3, <2>4 DEF Ref
    <2>6. ref \in Listed(sources[n].validator)
      BY <2>3, <2>5 DEF Listed
    <2>7. ref \in Introduced(sources[n])
      BY <2>6 DEF Introduced
    <2>8. HasDefinition(ref)
      BY <1>1, <2>7, IntroducedIsIndexed DEF HasDefinition
    <2>9. ASSUME ref \in units PROVE FALSE
      <3>1. PICK m \in DOMAIN sources : ref \in Elements(sources[m].metadata.units)
        BY <2>9
      <3>2. ref \in Introduced(sources[m])
        BY <3>1 DEF Introduced
      <3>3. ref[1] = sources[m].metadata.pack /\ ref[1] = sources[n].metadata.pack
        BY <1>2, <2>7, <3>2, IntroducedByItsPack
      <3>4. m = n
        BY <1>1, <3>3 DEF IndexInv, IndexIsOfItsSources
      <3>5. Elements(sources[n].metadata.units) \cap Listed(sources[n].validator) = {}
        BY <1>2, PackParts
      <3> QED
        BY <2>6, <3>1, <3>4, <3>5
    <2> QED
      BY <2>8, <2>9
  <1> HIDE DEF units
  <1>5. HasDefinition(ref) /\ ref \notin units <=> \E kind \in Kinds : Definition(kind, ref) # Nil
    BY <1>3, <1>4
  <1> QED
    BY <1>5 DEF units

\* RelationsCanBeUsed: what the metadata registry says about definitions stays
\* within one pack and is known to the kernels, whatever packs there are.
THEOREM RelationsAreAlwaysUsable == RegistrySpec => []RelationsCanBeUsed
  <1>1. HooksOwnTheirOwn /\ IndexInv => RelationsCanBeUsed
    BY RelationsFollow, AgreementFollows DEF RelationsCanBeUsed
  <1> QED
    BY <1>1, RegistryInvHolds, PTL

-----------------------------------------------------------------------------
(* The catalog. *)

MemberNames == Top \cup Row \cup {"unknown"}
Texts == UNION {Written(name) : name \in MemberNames}
Entries == [name : MemberNames, exact : BOOLEAN, value : Texts]

\* Whatever its authors do, the document is lists of members.
DocumentIsListed ==
    /\ doc = [p \in DOMAIN doc |-> doc[p]]
    /\ \A p \in DOMAIN doc : doc[p] \in Seq(Entries)

\* The published document is lists of members.
LEMMA PublishedIsListed == CatalogInit => DocumentIsListed
  <1> SUFFICES ASSUME doc = Published PROVE DocumentIsListed
    BY DEF CatalogInit
  <1>1. ASSUME NEW name \in MemberNames, name # "unknown", NEW v \in MemberValues(name)
        PROVE  M(name, TRUE, v) \in Entries
    <2>1. v \in Written(name)
      BY <1>1 DEF Written
    <2> QED
      BY <2>1 DEF M, Entries, Texts
  <1>2. /\ {"contract", "pin", "states", "family_id", "state", "composition", "verified",
            "reason", "evidence"} \subseteq MemberNames
        /\ "v1" \in MemberValues("contract") /\ "commit" \in MemberValues("pin")
        /\ "all" \in MemberValues("states") /\ "candidate" \in MemberValues("state")
        /\ "composed" \in MemberValues("composition") /\ "true" \in MemberValues("verified")
        /\ "no_producer" \in MemberValues("reason") /\ "gateway" \in MemberValues("evidence")
        /\ Required \subseteq MemberValues("family_id")
    BY DEF MemberValues, MemberNames, Top, Row
  <1>3. /\ M("contract", TRUE, "v1") \in Entries /\ M("pin", TRUE, "commit") \in Entries
        /\ M("states", TRUE, "all") \in Entries /\ M("state", TRUE, "candidate") \in Entries
        /\ M("composition", TRUE, "composed") \in Entries /\ M("verified", TRUE, "true") \in Entries
        /\ M("reason", TRUE, "no_producer") \in Entries /\ M("evidence", TRUE, "gateway") \in Entries
        /\ \A p \in Required : M("family_id", TRUE, p) \in Entries
    BY <1>1, <1>2
  <1>4. \A p \in Required \cup {"top"} : Published[p] \in Seq(Entries)
    <2> TAKE p \in Required \cup {"top"}
    <2>1. CASE p = "top"
      <3>1. Published[p] = <<M("contract", TRUE, "v1"), M("pin", TRUE, "commit"), M("states", TRUE, "all")>>
        BY <2>1 DEF Published
      <3> HIDE DEF Entries
      <3> QED
        BY <1>3, <3>1, ThreeInSequence
    <2>2. CASE p # "top"
      <3>1. Published[p] = <<M("family_id", TRUE, p), M("state", TRUE, "candidate"),
                             M("composition", TRUE, "composed"), M("verified", TRUE, "true"),
                             M("reason", TRUE, "no_producer"), M("evidence", TRUE, "gateway")>>
        BY <2>2 DEF Published
      <3> HIDE DEF Entries
      <3>2. M("family_id", TRUE, p) \in Entries
        BY <1>3, <2>2
      <3>3. PICK m1, m2, m3, m4, m5, m6 \in Entries :
               /\ m1 = M("family_id", TRUE, p) /\ m2 = M("state", TRUE, "candidate")
               /\ m3 = M("composition", TRUE, "composed") /\ m4 = M("verified", TRUE, "true")
               /\ m5 = M("reason", TRUE, "no_producer") /\ m6 = M("evidence", TRUE, "gateway")
        BY <1>3, <3>2
      <3>4. <<m1, m2, m3, m4, m5, m6>> \in Seq(Entries)
        BY SixInSequence
      <3> QED
        BY <3>1, <3>3, <3>4
    <2> QED
      BY <2>1, <2>2
  <1>5. DOMAIN Published = Required \cup {"top"} /\ Published = [p \in DOMAIN Published |-> Published[p]]
    BY DEF Published
  <1> QED
    BY <1>4, <1>5 DEF DocumentIsListed

\* An edit replaces one list by another.
LEMMA EditsKeepLists ==
    ASSUME DocumentIsListed, NEW p \in DOMAIN doc, NEW members \in Seq(Entries), Edit(p, members)
    PROVE  DocumentIsListed'
  <1>1. doc' = [q \in DOMAIN doc |-> IF q = p THEN members ELSE doc[q]]
    BY DEF Edit, DocumentIsListed
  <1> QED
    BY <1>1 DEF DocumentIsListed

\* An edit leaves lists of members.
LEMMA ListsStay == DocumentIsListed /\ [CatalogNext]_document => DocumentIsListed'
  <1> SUFFICES ASSUME DocumentIsListed, [CatalogNext]_document PROVE DocumentIsListed'
    OBVIOUS
  <1>1. ASSUME NEW p \in DOMAIN doc, NEW i \in DOMAIN doc[p], Remove(p, i)
        PROVE  DocumentIsListed'
    <2>1. PICK list \in Seq(Entries) : list = doc[p]
      BY DEF DocumentIsListed
    <2> HIDE DEF Entries
    <2>2. i \in 1..Len(list)
      BY <1>1, <2>1
    <2>3. SubSeq(list, 1, i - 1) \in Seq(Entries) /\ SubSeq(list, i + 1, Len(list)) \in Seq(Entries)
      BY <2>2
    <2>4. SubSeq(list, 1, i - 1) \o SubSeq(list, i + 1, Len(list)) \in Seq(Entries)
      BY <2>3
    <2> QED
      BY <1>1, <2>1, <2>4, EditsKeepLists DEF Remove
  <1>2. ASSUME NEW p \in DOMAIN doc, NEW i \in DOMAIN doc[p], Change(p, i)
        PROVE  DocumentIsListed'
    <2>1. doc[p] \in Seq(Entries) /\ doc[p][i] \in Entries
      BY <1>2 DEF DocumentIsListed
    <2>2. PICK v \in Written(doc[p][i].name), exact \in BOOLEAN :
              Edit(p, [doc[p] EXCEPT ![i] = M(@.name, exact, v)])
      BY <1>2 DEF Change
    <2>3. M(doc[p][i].name, exact, v) \in Entries
      BY <2>1, <2>2 DEF M, Entries, Texts
    <2>4. [doc[p] EXCEPT ![i] = M(@.name, exact, v)] \in Seq(Entries)
      <3> HIDE DEF Entries
      <3> QED
        BY <1>2, <2>1, <2>3
    <2> QED
      BY <2>2, <2>4, EditsKeepLists
  <1>3. ASSUME NEW p \in DOMAIN doc, Add(p)
        PROVE  DocumentIsListed'
    <2>1. PICK name \in Members(p) \cup {"unknown"} :
              \E v \in Written(name), exact \in BOOLEAN : Edit(p, Append(doc[p], M(name, exact, v)))
      BY <1>3 DEF Add
    <2>2. PICK v \in Written(name), exact \in BOOLEAN : Edit(p, Append(doc[p], M(name, exact, v)))
      BY <2>1
    <2>3. name \in MemberNames
      BY DEF MemberNames, Members
    <2>4. M(name, exact, v) \in Entries
      BY <2>2, <2>3 DEF M, Entries, Texts
    <2>5. Append(doc[p], M(name, exact, v)) \in Seq(Entries)
      <3> HIDE DEF Entries
      <3> QED
        BY <2>4 DEF DocumentIsListed
    <2> QED
      BY <2>2, <2>5, EditsKeepLists
  <1>4. ASSUME NEW p \in DOMAIN doc, Drop(p)
        PROVE  DocumentIsListed'
    BY <1>4 DEF Drop, DocumentIsListed
  <1>5. CASE UNCHANGED document
    BY <1>5 DEF document, DocumentIsListed
  <1> QED
    BY <1>1, <1>2, <1>3, <1>4, <1>5 DEF CatalogNext

\* OneReading follows: no member is repeated, and each is what is bound.
LEMMA ReadingsFollow == DocumentIsListed => OneReading
  <1> SUFFICES ASSUME DocumentIsListed, Decodes(doc), NEW p \in DOMAIN doc
               PROVE  /\ \A name \in Members(p) : Readings(doc, p, name) \subseteq {Bound(doc, p, name)}
                      /\ \A i \in DOMAIN doc[p] : doc[p][i].exact
                      /\ \A i, j \in DOMAIN doc[p] : i # j => doc[p][i].name # doc[p][j].name
    BY DEF OneReading
  <1>1. /\ \A i, j \in DOMAIN doc[p] : i # j => doc[p][i].name # doc[p][j].name
        /\ \A i \in DOMAIN doc[p] : doc[p][i].exact /\ doc[p][i].name \in Members(p)
    BY DEF Decodes, Duplicates, Canonical
  <1>2. ASSUME NEW name \in Members(p)
        PROVE  \E i \in DOMAIN doc[p] : doc[p][i].name = name /\ doc[p][i].value = Bound(doc, p, name)
    <2> DEFINE at == {i \in DOMAIN doc[p] : doc[p][i].exact /\ doc[p][i].name = name}
               last == CHOOSE i \in at : \A j \in at : j <= i
    <2>1. at # {} /\ doc[p][last].value = Bound(doc, p, name)
      BY DEF Decodes, Canonical
    <2>2. PICK i \in at : TRUE
      BY <2>1
    <2>3. at = {i} /\ i <= i
      <3>1. i \in Int
        BY DEF DocumentIsListed
      <3> QED
        BY <1>1, <2>2, <3>1
    <2>4. last = i
      <3> HIDE DEF at
      <3> QED
        BY <2>3
    <2> HIDE DEF last
    <2> QED
      BY <2>1, <2>2, <2>4
  <1>3. ASSUME NEW name \in Members(p)
        PROVE  Readings(doc, p, name) \subseteq {Bound(doc, p, name)}
    <2>1. PICK i \in DOMAIN doc[p] : doc[p][i].name = name /\ doc[p][i].value = Bound(doc, p, name)
      BY <1>2
    <2>2. {j \in DOMAIN doc[p] : doc[p][j].name = name} = {i}
      BY <1>1, <2>1
    <2> QED
      BY <2>1, <2>2 DEF Readings
  <1> QED
    BY <1>1, <1>3

\* OneReading: whatever edits its authors make, a document that Decode accepts
\* holds no member twice and each under its own name, with the value that is bound.
THEOREM CatalogReadsOneWay == CatalogSpec => []OneReading
  <1>1. CatalogSpec => []DocumentIsListed
    BY PublishedIsListed, ListsStay, PTL DEF CatalogSpec
  <1> QED
    BY <1>1, ReadingsFollow, PTL

-----------------------------------------------------------------------------
(* Powers of ten. *)

\* A set of natural numbers that is not empty has a least member.
LEMMA LeastNumber ==
    ASSUME NEW T, T \subseteq Nat, T # {}
    PROVE  \E m \in T : \A n \in T : m <= n
  <1> DEFINE R == {ss \in Nat \X Nat : ss[1] < ss[2]}
  <1>1. IsWellFoundedOn(R, Nat)
    BY NatLessThanWellFounded DEF OpToRel
  <1> HIDE DEF R
  <1>2. PICK m \in T : \A n \in T : ~(<<n, m>> \in R)
    BY <1>1, WFMin
  <1>3. \A n \in T : ~(n < m)
    BY <1>2 DEF R
  <1> QED
    BY <1>3

\* The first powers of ten, as a list from 0.
Tenfold(f, n) ==
    /\ f \in [0..n -> Nat] /\ f[0] = 1
    /\ \A i \in 1..n : f[i] = 10 * f[i - 1]

\* There is a table of powers of ten of every length...
LEMMA TenfoldExists == \A n \in Nat : \E f : Tenfold(f, n)
  <1> DEFINE T == {n \in Nat : ~\E f : Tenfold(f, n)}
  <1> SUFFICES ASSUME T # {} PROVE FALSE
    OBVIOUS
  <1>1. PICK n \in T : \A m \in T : n <= m
    <2>1. T \subseteq Nat
      OBVIOUS
    <2> HIDE DEF T
    <2> QED
      BY <2>1, LeastNumber
  <1>2. CASE n = 0
    <2> DEFINE f == [i \in 0..0 |-> 1]
    <2>1. Tenfold(f, 0)
      BY DEF Tenfold
    <2> QED
      BY <1>1, <1>2, <2>1
  <1>3. CASE n # 0
    <2>1. n \in Nat /\ n - 1 \in Nat /\ n - 1 \notin T
      BY <1>1, <1>3
    <2>2. PICK g : Tenfold(g, n - 1)
      BY <2>1
    <2> DEFINE f == [i \in 0..n |-> IF i = n THEN 10 * g[n - 1] ELSE g[i]]
    <2>3. g \in [0..(n - 1) -> Nat] /\ g[0] = 1 /\ \A i \in 1..(n - 1) : g[i] = 10 * g[i - 1]
      BY <2>2 DEF Tenfold
    <2>4. f \in [0..n -> Nat] /\ f[0] = 1
      BY <1>3, <2>1, <2>3
    <2>5. \A i \in 1..n : f[i] = 10 * f[i - 1]
      BY <1>3, <2>1, <2>3
    <2>6. Tenfold(f, n)
      <3> HIDE DEF f
      <3> QED
        BY <2>4, <2>5 DEF Tenfold
    <2> QED
      BY <1>1, <2>6
  <1> QED
    BY <1>2, <1>3

\* ... and two of them agree where they overlap.
LEMMA TenfoldIsUnique ==
    ASSUME NEW m \in Nat, NEW n \in Nat, NEW f, NEW g, Tenfold(f, m), Tenfold(g, n)
    PROVE  \A i \in Nat : i <= m /\ i <= n => f[i] = g[i]
  <1> DEFINE T == {i \in Nat : i <= m /\ i <= n /\ f[i] # g[i]}
  <1> SUFFICES ASSUME T # {} PROVE FALSE
    OBVIOUS
  <1>1. PICK i \in T : \A j \in T : i <= j
    <2>1. T \subseteq Nat
      OBVIOUS
    <2> HIDE DEF T
    <2> QED
      BY <2>1, LeastNumber
  <1>2. i \in Nat /\ i <= m /\ i <= n /\ f[i] # g[i]
    BY <1>1
  <1>3. i # 0
    BY <1>2 DEF Tenfold
  <1>4. i - 1 \in Nat /\ i - 1 \notin T
    BY <1>1, <1>2, <1>3
  <1>5. f[i - 1] = g[i - 1]
    BY <1>2, <1>4
  <1>6. f[i] = 10 * f[i - 1] /\ g[i] = 10 * g[i - 1]
    BY <1>2, <1>3 DEF Tenfold
  <1> QED
    BY <1>2, <1>5, <1>6

\* Power is what its recursion says.
LEMMA PowersOfTen == Power[0] = 1 /\ \A n \in Nat : Power[n] \in Nat /\ Power[n + 1] = 10 * Power[n]
  <1> DEFINE list(n) == CHOOSE f : Tenfold(f, n)
             P == [n \in Nat |-> list(n)[n]]
             Body(p) == [n \in Nat |-> IF n = 0 THEN 1 ELSE 10 * p[n - 1]]
  <1>1. \A n \in Nat : Tenfold(list(n), n)
    BY TenfoldExists
  <1> HIDE DEF list
  <1>2. P[0] = 1
    BY <1>1 DEF Tenfold
  <1>3. ASSUME NEW n \in Nat PROVE P[n] \in Nat
    BY <1>1 DEF Tenfold
  <1>4. ASSUME NEW n \in Nat, n # 0 PROVE P[n] = 10 * P[n - 1]
    <2>1. n - 1 \in Nat /\ n \in 1..n /\ P[n] = list(n)[n] /\ P[n - 1] = list(n - 1)[n - 1]
      BY <1>4
    <2>2. list(n)[n] = 10 * list(n)[n - 1]
      BY <1>1, <2>1 DEF Tenfold
    <2>3. list(n)[n - 1] = list(n - 1)[n - 1]
      BY <1>1, <2>1, TenfoldIsUnique
    <2> QED
      BY <2>1, <2>2, <2>3
  <1>5. P = Body(P)
    <2>1. \A n \in Nat : P[n] = IF n = 0 THEN 1 ELSE 10 * P[n - 1]
      BY <1>2, <1>4
    <2>2. P = [n \in Nat |-> P[n]]
      OBVIOUS
    <2> HIDE DEF P
    <2> QED
      BY <2>1, <2>2
  <1> HIDE DEF P
  <1>6. Power = Body(Power)
    <2>1. Power = CHOOSE p : p = Body(p)
      BY DEF Power
    <2> HIDE DEF Body
    <2> QED
      BY <1>5, <2>1
  <1>7. \A n \in Nat : Power[n] = P[n]
    <2> DEFINE T == {n \in Nat : Power[n] # P[n]}
    <2> SUFFICES ASSUME T # {} PROVE FALSE
      OBVIOUS
    <2>1. PICK n \in T : \A j \in T : n <= j
      <3>1. T \subseteq Nat
        OBVIOUS
      <3> HIDE DEF T
      <3> QED
        BY <3>1, LeastNumber
    <2>2. \A j \in Nat : Power[j] = IF j = 0 THEN 1 ELSE 10 * Power[j - 1]
      <3>1. \A p : p = Body(p) => \A j \in Nat : p[j] = IF j = 0 THEN 1 ELSE 10 * p[j - 1]
        OBVIOUS
      <3> HIDE DEF Body
      <3> QED
        BY <1>6, <3>1
    <2>3. n \in Nat /\ Power[n] # P[n]
      BY <2>1
    <2>4. n # 0
      BY <1>2, <2>2, <2>3
    <2>5. n - 1 \in Nat /\ n - 1 \notin T
      BY <2>1, <2>3, <2>4
    <2>6. Power[n - 1] = P[n - 1]
      BY <2>5
    <2> QED
      BY <1>4, <2>2, <2>3, <2>4, <2>6
  <1>8. \A n \in Nat : P[n + 1] = 10 * P[n]
    <2> TAKE n \in Nat
    <2>1. n + 1 \in Nat /\ n + 1 # 0 /\ (n + 1) - 1 = n
      OBVIOUS
    <2> QED
      BY <1>4, <2>1
  <1> QED
    BY <1>2, <1>3, <1>7, <1>8

\* No power of ten is zero.
LEMMA PowersArePositive == \A n \in Nat : Power[n] \in Nat /\ Power[n] > 0
  <1> DEFINE T == {n \in Nat : ~(Power[n] > 0)}
  <1> SUFFICES ASSUME T # {} PROVE FALSE
    BY PowersOfTen
  <1>1. PICK n \in T : \A j \in T : n <= j
    <2>1. T \subseteq Nat
      OBVIOUS
    <2> HIDE DEF T
    <2> QED
      BY <2>1, LeastNumber
  <1>2. n \in Nat /\ ~(Power[n] > 0) /\ n # 0
    BY <1>1, PowersOfTen
  <1>3. n - 1 \in Nat /\ n - 1 \notin T /\ (n - 1) + 1 = n
    BY <1>1, <1>2
  <1>4. Power[n - 1] > 0 /\ Power[n - 1] \in Nat /\ Power[n] = 10 * Power[n - 1]
    BY <1>3, PowersOfTen
  <1> QED
    BY <1>2, <1>4

\* Powers of ten multiply by adding exponents.
LEMMA PowersMultiply == \A m, n \in Nat : Power[m + n] = Power[m] * Power[n]
  <1> SUFFICES ASSUME NEW m \in Nat PROVE \A n \in Nat : Power[m + n] = Power[m] * Power[n]
    OBVIOUS
  <1> DEFINE T == {n \in Nat : Power[m + n] # Power[m] * Power[n]}
  <1> SUFFICES ASSUME T # {} PROVE FALSE
    OBVIOUS
  <1>1. PICK n \in T : \A j \in T : n <= j
    <2>1. T \subseteq Nat
      OBVIOUS
    <2> HIDE DEF T
    <2> QED
      BY <2>1, LeastNumber
  <1>2. n \in Nat /\ Power[m + n] # Power[m] * Power[n]
    BY <1>1
  <1>3. n # 0
    <2>1. Power[m] \in Nat /\ Power[0] = 1 /\ m + 0 = m
      BY PowersOfTen
    <2> QED
      BY <1>2, <2>1
  <1>4. n - 1 \in Nat /\ n - 1 \notin T
    BY <1>1, <1>2, <1>3
  <1>5. Power[m + (n - 1)] = Power[m] * Power[n - 1]
    BY <1>4
  <1>6. Power[m + n] = 10 * Power[m + (n - 1)]
    <2>1. m + (n - 1) \in Nat /\ (m + (n - 1)) + 1 = m + n
      BY <1>4
    <2> QED
      BY <2>1, PowersOfTen
  <1>7. Power[n] = 10 * Power[n - 1]
    <2>1. (n - 1) + 1 = n
      BY <1>2
    <2> QED
      BY <1>4, <2>1, PowersOfTen
  <1>8. PICK p \in Nat, q \in Nat : p = Power[m] /\ q = Power[n - 1]
    BY <1>4, PowersOfTen
  <1>9. 10 * (p * q) = p * (10 * q)
    OBVIOUS
  <1> QED
    BY <1>2, <1>5, <1>6, <1>7, <1>8, <1>9

-----------------------------------------------------------------------------
(* Decimals. *)

\* A factor that is not 0 does not change an order.
LEMMA ScalingKeepsOrder ==
    ASSUME NEW x \in Int, NEW y \in Int, NEW p \in Nat, p > 0
    PROVE  x < y <=> x * p < y * p
  OBVIOUS

\* Nor does it make a number zero.
LEMMA ScalingKeepsZero ==
    ASSUME NEW x \in Int, NEW p \in Nat, p > 0, x * p = 0
    PROVE  x = 0
  OBVIOUS

\* The decimal in units of 10^-MaxExponent.
Units(a) == a.c * Power[a.e + MaxExponent]

\* compare orders decimals as the numbers they stand for.
LEMMA CompareIsNumeric ==
    ASSUME NEW a \in Decimals, NEW b \in Decimals, DecimalOK(a), DecimalOK(b)
    PROVE  /\ Compare(a, b) \in Int /\ Units(a) \in Int /\ Units(b) \in Int
           /\ Compare(a, b) < 0 <=> Units(a) < Units(b)
           /\ Compare(a, b) > 0 <=> Units(a) > Units(b)
  <1> DEFINE low == IF a.e < b.e THEN a.e ELSE b.e
  <1>1. /\ a.c \in Int /\ a.e \in Int /\ b.c \in Int /\ b.e \in Int /\ MaxExponent \in Nat
        /\ a.e >= -MaxExponent /\ b.e >= -MaxExponent
    BY StoragePackAssumption DEF Decimals, DecimalOK
  <1>2. /\ a.e - low \in Nat /\ b.e - low \in Nat /\ low + MaxExponent \in Nat
        /\ (a.e - low) + (low + MaxExponent) = a.e + MaxExponent
        /\ (b.e - low) + (low + MaxExponent) = b.e + MaxExponent
    BY <1>1
  <1>3. Compare(a, b) = a.c * Power[a.e - low] - b.c * Power[b.e - low]
    BY DEF Compare
  <1> HIDE DEF low
  <1>4. PICK p \in Nat, q \in Nat, r \in Nat :
            /\ p = Power[a.e - low] /\ q = Power[b.e - low] /\ r = Power[low + MaxExponent]
            /\ r > 0
    BY <1>2, PowersArePositive
  <1>5. Power[a.e + MaxExponent] = p * r /\ Power[b.e + MaxExponent] = q * r
    <2>1. /\ Power[(a.e - low) + (low + MaxExponent)] = Power[a.e - low] * Power[low + MaxExponent]
          /\ Power[(b.e - low) + (low + MaxExponent)] = Power[b.e - low] * Power[low + MaxExponent]
      BY <1>2, PowersMultiply
    <2> QED
      BY <1>2, <1>4, <2>1
  <1>6. PICK x \in Int, y \in Int : x = a.c * p /\ y = b.c * q
    BY <1>1, <1>4
  <1>7. Units(a) = x * r /\ Units(b) = y * r
    <2>1. a.c * (p * r) = (a.c * p) * r /\ b.c * (q * r) = (b.c * q) * r
      BY <1>1
    <2> QED
      BY <1>5, <1>6, <2>1 DEF Units
  <1>8. Compare(a, b) = x - y
    BY <1>3, <1>4, <1>6
  <1>9. (x < y <=> x * r < y * r) /\ (y < x <=> y * r < x * r)
    BY <1>4, ScalingKeepsOrder
  <1> QED
    BY <1>7, <1>8, <1>9

\* A number has one notation: what compare takes for equal is the same decimal.
LEMMA NotationIsUnique ==
    ASSUME NEW a \in Decimals, NEW b \in Decimals, DecimalOK(a), DecimalOK(b)
    PROVE  Compare(a, b) = 0 <=> a = b
  <1>1. /\ a.c \in Int /\ a.e \in Int /\ b.c \in Int /\ b.e \in Int
        /\ a = [c |-> a.c, e |-> a.e] /\ b = [c |-> b.c, e |-> b.e]
    BY DEF Decimals
  <1>2. ASSUME NEW x \in Decimals, NEW y \in Decimals, DecimalOK(x), DecimalOK(y),
               x.e < y.e, NEW k \in Nat, k = y.e - x.e
        PROVE  x.c - y.c * Power[k] # 0
    <2> SUFFICES ASSUME x.c - y.c * Power[k] = 0 PROVE FALSE
      OBVIOUS
    <2>1. x.c \in Int /\ x.e \in Int /\ y.c \in Int /\ y.e \in Int
      BY DEF Decimals
    <2>2. k - 1 \in Nat /\ (k - 1) + 1 = k
      BY <1>2, <2>1
    <2>3. PICK p \in Nat : p = Power[k - 1] /\ p > 0 /\ Power[k] = 10 * p
      <3>1. Power[k - 1] \in Nat /\ Power[k - 1] > 0 /\ Power[(k - 1) + 1] = 10 * Power[k - 1]
        BY <2>2, PowersOfTen, PowersArePositive
      <3> QED
        BY <2>2, <3>1
    <2>4. PICK z \in Int : z = y.c * p
      BY <2>1
    <2>5. x.c = 10 * z
      <3>1. y.c * (10 * p) = 10 * (y.c * p)
        BY <2>1
      <3>2. x.c - y.c * (10 * p) = 0
        BY <2>3
      <3> QED
        BY <2>1, <2>4, <3>1, <3>2
    <2>6. x.c % 10 = 0
      BY <2>5
    <2>7. x.c = 0 /\ x.e = 0
      BY <1>2, <2>1, <2>6 DEF DecimalOK
    <2>8. y.c = 0
      <3>1. y.c * p = 0
        BY <2>4, <2>5, <2>7
      <3> QED
        BY <2>1, <2>3, <3>1, ScalingKeepsZero
    <2>9. y.e = 0
      BY <1>2, <2>1, <2>8 DEF DecimalOK
    <2> QED
      BY <1>2, <2>1, <2>7, <2>9
  <1>3. CASE a.e < b.e
    <2>1. b.e - a.e \in Nat /\ a.e - a.e = 0
      BY <1>1, <1>3
    <2>2. Compare(a, b) = a.c * Power[0] - b.c * Power[b.e - a.e]
      BY <1>3, <2>1 DEF Compare
    <2>3. Compare(a, b) = a.c - b.c * Power[b.e - a.e]
      BY <1>1, <2>2, PowersOfTen
    <2> QED
      BY <1>1, <1>2, <1>3, <2>1, <2>3
  <1>4. CASE b.e < a.e
    <2>1. a.e - b.e \in Nat /\ b.e - b.e = 0 /\ ~(a.e < b.e)
      BY <1>1, <1>4
    <2>2. Compare(a, b) = a.c * Power[a.e - b.e] - b.c * Power[0]
      BY <1>4, <2>1 DEF Compare
    <2>3. PICK m \in Int : m = a.c * Power[a.e - b.e]
      BY <1>1, <2>1, PowersOfTen
    <2>4. Compare(a, b) = m - b.c
      BY <1>1, <2>2, <2>3, PowersOfTen
    <2>5. b.c - m # 0
      BY <1>1, <1>2, <1>4, <2>1, <2>3
    <2> QED
      BY <1>1, <1>4, <2>4, <2>5
  <1>5. CASE a.e = b.e
    <2>1. a.e - a.e = 0 /\ b.e - a.e = 0 /\ a.e - b.e = 0 /\ b.e - b.e = 0
      BY <1>1, <1>5
    <2>2. Compare(a, b) = a.c * Power[0] - b.c * Power[0]
      BY <1>1, <1>5, <2>1 DEF Compare
    <2>3. Compare(a, b) = a.c - b.c
      BY <1>1, <2>2, PowersOfTen
    <2> QED
      BY <1>1, <1>5, <2>3
  <1> QED
    BY <1>1, <1>3, <1>4, <1>5

\* equal holds of valid values exactly when they are the same.
LEMMA EqualIsIdentity ==
    ASSUME NEW v \in Value, NEW w \in Value, ValueErrors(v) = {}, ValueErrors(w) = {}
    PROVE  Equal(v, w) <=> v = w
  <1>1. CASE v.kind = "quantity" /\ w.kind = "quantity"
    <2>1. v.num \in Decimals /\ w.num \in Decimals /\ v = [kind |-> "quantity", unit |-> v.unit, num |-> v.num]
          /\ w = [kind |-> "quantity", unit |-> w.unit, num |-> w.num]
      BY <1>1 DEF Value
    <2>2. DecimalOK(v.num) /\ DecimalOK(w.num)
      BY <1>1, Zenon DEF ValueErrors, Flag
    <2>3. Compare(v.num, w.num) = 0 <=> v.num = w.num
      BY <2>1, <2>2, NotationIsUnique
    <2>4. Equal(v, w) <=> v.unit = w.unit /\ v.num = w.num
      BY <1>1, <2>3 DEF Equal
    <2> QED
      BY <2>1, <2>4
  <1>2. CASE ~(v.kind = "quantity" /\ w.kind = "quantity")
    BY <1>2 DEF Equal
  <1> QED
    BY <1>1, <1>2

-----------------------------------------------------------------------------
(* The hooks. *)

\* Checks that run one after another all pass, or one of them fails.
LEMMA FirstOfIsBoth == \A a, b : FirstOf(a, b) = {} <=> a = {} /\ b = {}
  BY DEF FirstOf

\* Flag adds nothing exactly when its condition does not hold.
LEMMA FlagIsQuiet == \A b \in BOOLEAN : \A e : Flag(b, e) = {} <=> ~b
  BY DEF Flag

\* A fact that validates has a value of the kind its field has.
LEMMA ValidFactsHaveTheirKind ==
    ASSUME NEW key, NEW v, ValidateFact(key, v) = {}
    PROVE  ValueErrors(v) = {} /\ v.kind = Fields[key.id].kind
  <1>1. ValueErrors(v) = {}
    BY FirstOfIsBoth DEF ValidateFact
  <1>2. key.id \in DOMAIN Fields
    <2>1. (IF key.id \notin DOMAIN Fields THEN {"definition_owner_missing"}
           ELSE FirstOf(DimensionsOK(key.dims, Fields[key.id].dimension), ValueOK(key.id, v))) = {}
      BY FirstOfIsBoth DEF ValidateFact
    <2> QED
      BY <2>1, Zenon
  <1>3. ValueOK(key.id, v) = {}
    BY <1>2, FirstOfIsBoth DEF ValidateFact
  <1> QED
    BY <1>1, <1>3, Zenon DEF ValueOK

\* What an answer says is what was said.
LEMMA SaidIsHeld ==
    ASSUME NEW b \in BOOLEAN, [holds |-> b, errors |-> {}] = [holds |-> TRUE, errors |-> {}]
    PROVE  b
  OBVIOUS

\* A predicate that is said to hold is true of the numbers.
LEMMA PredicatesAreTrue ==
    ASSUME NEW key, NEW v \in Value, NEW op, NEW w \in Value,
           EvaluatePredicate(key, v, op, w) = [holds |-> TRUE, errors |-> {}]
    PROVE  Truly(v, op, w)
  <1> DEFINE n == Compare(v.num, w.num)
             Says(b) == [holds |-> b, errors |-> {}]
             Fails(e) == [holds |-> FALSE, errors |-> e]
  <1>1. ValidateFact(key, v) = {} /\ ValidateFact(key, w) = {}
    <2>1. FirstOf(ValidateFact(key, v), ValidateFact(key, w)) # {}
          => EvaluatePredicate(key, v, op, w) = Fails(FirstOf(ValidateFact(key, v), ValidateFact(key, w)))
      BY DEF EvaluatePredicate
    <2> QED
      BY <2>1, FirstOfIsBoth
  <1>2. ValueErrors(v) = {} /\ ValueErrors(w) = {} /\ v.kind = w.kind
    BY <1>1, ValidFactsHaveTheirKind
  <1>3. FirstOf(ValidateFact(key, v), ValidateFact(key, w)) = {}
    BY <1>1, FirstOfIsBoth
  <1>4. EvaluatePredicate(key, v, op, w).holds = TRUE
    OBVIOUS
  <1>5. op \in {"equal", "not_equal"} => Truly(v, op, w)
    <2> SUFFICES ASSUME op \in {"equal", "not_equal"} PROVE Truly(v, op, w)
      OBVIOUS
    <2>1. EvaluatePredicate(key, v, op, w) = Says(Equal(v, w) <=> op = "equal")
      BY <1>3, Zenon DEF EvaluatePredicate
    <2>2. Equal(v, w) <=> op = "equal"
      <3> DEFINE b == Equal(v, w) <=> op = "equal"
      <3>1. b \in BOOLEAN /\ [holds |-> b, errors |-> {}] = [holds |-> TRUE, errors |-> {}]
        BY <2>1, Zenon
      <3> HIDE DEF b
      <3>2. b
        BY <3>1, SaidIsHeld
      <3> QED
        BY <3>2 DEF b
    <2>3. Equal(v, w) <=> v = w
      BY <1>2, EqualIsIdentity
    <2> QED
      BY <2>2, <2>3 DEF Truly
  <1>6. op \notin {"equal", "not_equal"} => Truly(v, op, w)
    <2> SUFFICES ASSUME op \notin {"equal", "not_equal"} PROVE Truly(v, op, w)
      OBVIOUS
    <2>1. v.kind = "quantity" /\ w.kind = "quantity"
      BY <1>2, <1>3, <1>4 DEF EvaluatePredicate
    <2>2. EvaluatePredicate(key, v, op, w) =
              CASE op = "less" -> Says(n < 0)
                [] op = "less_equal" -> Says(n <= 0)
                [] op = "greater" -> Says(n > 0)
                [] op = "greater_equal" -> Says(n >= 0)
                [] OTHER -> Fails({"invalid_enum"})
      BY <1>3, <2>1 DEF EvaluatePredicate
    <2>3. v.num \in Decimals /\ w.num \in Decimals /\ DecimalOK(v.num) /\ DecimalOK(w.num)
      BY <1>2, <2>1, Zenon DEF Value, ValueErrors, Flag
    <2>4. /\ n \in Int /\ Number(v) \in Int /\ Number(w) \in Int
          /\ n < 0 <=> Number(v) < Number(w)
          /\ n > 0 <=> Number(v) > Number(w)
      BY <2>3, CompareIsNumeric DEF Number, Units
    <2> HIDE DEF n
    <2>5. CASE op = "less"
      <3> DEFINE b == n < 0
      <3>1. [holds |-> b, errors |-> {}] = [holds |-> TRUE, errors |-> {}]
        BY <2>2, <2>5
      <3>2. b \in BOOLEAN
        OBVIOUS
      <3> HIDE DEF b
      <3>3. b
        BY <3>1, <3>2, SaidIsHeld
      <3> QED
        BY <2>4, <2>5, <3>3 DEF Truly, b
    <2>6. CASE op = "less_equal"
      <3> DEFINE b == n <= 0
      <3>1. [holds |-> b, errors |-> {}] = [holds |-> TRUE, errors |-> {}]
        BY <2>2, <2>6
      <3>2. b \in BOOLEAN
        OBVIOUS
      <3> HIDE DEF b
      <3>3. b
        BY <3>1, <3>2, SaidIsHeld
      <3> QED
        BY <2>4, <2>6, <3>3 DEF Truly, b
    <2>7. CASE op = "greater"
      <3> DEFINE b == n > 0
      <3>1. [holds |-> b, errors |-> {}] = [holds |-> TRUE, errors |-> {}]
        BY <2>2, <2>7
      <3>2. b \in BOOLEAN
        OBVIOUS
      <3> HIDE DEF b
      <3>3. b
        BY <3>1, <3>2, SaidIsHeld
      <3> QED
        BY <2>4, <2>7, <3>3 DEF Truly, b
    <2>8. CASE op = "greater_equal"
      <3> DEFINE b == n >= 0
      <3>1. [holds |-> b, errors |-> {}] = [holds |-> TRUE, errors |-> {}]
        BY <2>2, <2>8
      <3>2. b \in BOOLEAN
        OBVIOUS
      <3> HIDE DEF b
      <3>3. b
        BY <3>1, <3>2, SaidIsHeld
      <3> QED
        BY <2>4, <2>8, <3>3 DEF Truly, b
    <2>9. CASE op \notin {"less", "less_equal", "greater", "greater_equal"}
      BY <1>4, <2>2, <2>9
    <2> QED
      BY <2>5, <2>6, <2>7, <2>8, <2>9
  <1> QED
    BY <1>5, <1>6

-----------------------------------------------------------------------------
(* What the pack lets through and how it closes it. *)

\* What is published has passed the hook.
PublishedOK(on) ==
    \A key \in Keys :
        on[key].value # None => on[key].value \in Values /\ ValidateFact(key, on[key].value) = {}

\* The pack has nothing against the intent and its effect.
IntentOK(i) ==
    /\ i \in Asked /\ ValidateIntent(i) = {}
    /\ ValidateFact(i.effect.fact, i.effect.expected) = {}

FactsArePublished ==
    /\ DOMAIN facts = Keys
    /\ \A key \in Keys : facts[key] = [value |-> facts[key].value, revision |-> facts[key].revision]
    /\ PublishedOK(facts)

LetWasJudged ==
    let # None =>
        /\ IntentOK(let.intent) /\ PublishedOK(let.on)
        /\ \A p \in let.intent.preconditions :
              /\ p.fact \in Keys /\ let.on[p.fact].value # None
              /\ EvaluatePredicate(p.fact, let.on[p.fact].value, p.op, p.expected)
                    = [holds |-> TRUE, errors |-> {}]

VerdictWasJudged ==
    verdict # None =>
        /\ IntentOK(verdict.intent)
        /\ verdict.key \in Keys /\ verdict.value \in Values
        /\ ValidateFact(verdict.key, verdict.value) = {}
        /\ verdict.relation = EvaluateReadback(verdict.intent, verdict.key, verdict.value)

StorageInv == FactsArePublished /\ LetWasJudged /\ VerdictWasJudged

\* Nothing is published, let through or closed at first.
LEMMA StorageInvInit == StorageInit => StorageInv
  BY DEF StorageInit, StorageInv, FactsArePublished, PublishedOK, LetWasJudged, VerdictWasJudged

\* Publishing a valid value leaves what was judged as it was.
LEMMA ObserveKeepsStorage ==
    ASSUME StorageInv, NEW key \in Keys, NEW v \in Values, Observe(key, v)
    PROVE  StorageInv'
  <1>1. PICK new : /\ new = [value |-> v, revision |-> facts[key].revision + 1]
                   /\ facts' = [facts EXCEPT ![key] = new]
    BY DEF Observe
  <1>2. new.value = v /\ new = [value |-> new.value, revision |-> new.revision]
    BY <1>1
  <1>3. facts' = [k \in Keys |-> IF k = key THEN new ELSE facts[k]]
    BY <1>1 DEF StorageInv, FactsArePublished
  <1>4. FactsArePublished'
    BY <1>2, <1>3 DEF Observe, StorageInv, FactsArePublished, PublishedOK
  <1> QED
    BY <1>4 DEF Observe, StorageInv, LetWasJudged, VerdictWasJudged

\* What Admit lets through was judged on the facts it is kept with.
LEMMA AdmitKeepsStorage ==
    ASSUME StorageInv, NEW i \in Asked, Admit(i)
    PROVE  StorageInv'
  <1>1. let'.intent = i /\ let'.on = facts
    BY DEF Admit
  <1>2. IntentOK(i) /\ \A p \in i.preconditions : Met(p)
    BY DEF Admit, IntentOK
  <1>3. LetWasJudged'
    BY <1>1, <1>2 DEF StorageInv, FactsArePublished, LetWasJudged, Met
  <1> QED
    BY <1>3 DEF Admit, StorageInv, FactsArePublished, VerdictWasJudged

\* A readback is judged by the intent that was let through.
LEMMA RecordKeepsStorage ==
    ASSUME StorageInv, NEW key \in Keys, Record(key)
    PROVE  StorageInv'
  <1>1. /\ verdict'.intent = let.intent /\ verdict'.key = key /\ verdict'.value = facts[key].value
        /\ verdict'.relation = EvaluateReadback(let.intent, key, facts[key].value)
    BY DEF Record
  <1>2. IntentOK(let.intent)
    BY DEF Record, StorageInv, LetWasJudged
  <1>3. facts[key].value \in Values /\ ValidateFact(key, facts[key].value) = {}
    BY DEF Record, StorageInv, FactsArePublished, PublishedOK
  <1>4. VerdictWasJudged'
    BY <1>1, <1>2, <1>3 DEF VerdictWasJudged
  <1> QED
    BY <1>4 DEF Record, StorageInv, FactsArePublished, LetWasJudged

\* Every call of the kernels keeps the invariant.
LEMMA StorageStep == StorageInv /\ [StorageNext]_storage => StorageInv'
  <1> SUFFICES ASSUME StorageInv, [StorageNext]_storage PROVE StorageInv'
    OBVIOUS
  <1>1. ASSUME NEW cap, NEW constraints, Offer(cap, constraints)
        PROVE  StorageInv'
    BY <1>1 DEF Offer, StorageInv, FactsArePublished, LetWasJudged, VerdictWasJudged
  <1>2. CASE UNCHANGED storage
    BY <1>2 DEF storage, StorageInv, FactsArePublished, LetWasJudged, VerdictWasJudged
  <1>3. CASE StorageNext
    BY <1>1, <1>3, ObserveKeepsStorage, AdmitKeepsStorage, RecordKeepsStorage DEF StorageNext
  <1> QED
    BY <1>2, <1>3

\* What is published is valid, and what is let through or closed was judged so.
THEOREM StorageInvHolds == StorageSpec => []StorageInv
  BY StorageInvInit, StorageStep, PTL DEF StorageSpec

\* What ValidateIntent makes sure of.
LEMMA IntentsFitTheirTable ==
    ASSUME NEW i, IntentOK(i)
    PROVE  /\ i.arguments[1].id = i.effect.fact.id
           /\ i.arguments[1].value \in Value /\ ValueErrors(i.arguments[1].value) = {}
           /\ i.effect.expected \in Value /\ ValueErrors(i.effect.expected) = {}
           /\ Equal(i.arguments[1].value, i.effect.expected)
           /\ InterlockErrors(i) = {}
  <1> DEFINE spec == Operations[i.kind]
             e == i.effect
             a == i.arguments[1]
             f0 == Flag(i.required # spec.capability, "invalid_value")
             f1 == Flag(a.id # spec.argument, "invalid_value")
             f2 == ValidateField(spec.argument, a)
             f3 == Flag(\/ e.rule # spec.effect \/ e.fact.id # spec.argument
                        \/ e.op # "equal", "invalid_value")
             f4 == DimensionsOK(e.fact.dims, Fields[spec.argument].dimension)
             f5 == ValueOK(spec.argument, e.expected)
             f6 == Flag(~Equal(a.value, e.expected), "invalid_value")
             f7 == InterlockErrors(i)
             rest == FirstOf(f1, FirstOf(f2, FirstOf(f3, FirstOf(f4, FirstOf(f5, FirstOf(f6, f7))))))
             checks == FirstOf(f0, IF Len(i.arguments) # 1 THEN {"invalid_value"} ELSE rest)
  <1>1. ValidateIntent(i) = {} /\ i \in Asked
    BY DEF IntentOK
  <1>2. ValidateIntent(i) = IF i.kind \notin DOMAIN Operations THEN {"definition_owner_missing"} ELSE checks
    BY DEF ValidateIntent
  <1>3. checks = {}
    <2> HIDE DEF checks
    <2> QED
      BY <1>1, <1>2
  <1>4. f1 = {} /\ f2 = {} /\ f3 = {} /\ f6 = {} /\ f7 = {} /\ Len(i.arguments) = 1
    <2> HIDE DEF f0, f1, f2, f3, f4, f5, f6, f7
    <2>1. (IF Len(i.arguments) # 1 THEN {"invalid_value"} ELSE rest) = {}
      BY <1>3, FirstOfIsBoth
    <2>2. Len(i.arguments) = 1 /\ rest = {}
      <3> HIDE DEF rest
      <3> QED
        BY <2>1
    <2> QED
      BY <2>2, FirstOfIsBoth
  <1>5. a.id = spec.argument /\ e.fact.id = spec.argument /\ Equal(a.value, e.expected)
    BY <1>4, Zenon DEF Flag
  <1>6. ValueErrors(a.value) = {}
    BY <1>4, FirstOfIsBoth DEF ValidateField
  <1>7. ValueErrors(e.expected) = {}
    BY FirstOfIsBoth DEF IntentOK, ValidateFact, e
  <1>8. a.value \in Value /\ e.expected \in Value
    <2>1. i.arguments \in Seq([id : STRING, value : Value]) /\ i.effect.expected \in Value
      BY <1>1, StoragePackAssumption
    <2>2. i.arguments[1] \in [id : STRING, value : Value]
      <3> DEFINE S == [id : STRING, value : Value]
      <3>1. PICK list \in Seq(S) : list = i.arguments
        BY <2>1
      <3> HIDE DEF S
      <3>2. list[1] \in S
        BY <1>4, <3>1
      <3> QED
        BY <3>1, <3>2 DEF S
    <2> QED
      BY <2>1, <2>2
  <1> QED
    BY <1>4, <1>5, <1>6, <1>7, <1>8

\* VerdictsAreExact follows: valid values that are numerically equal are the same.
LEMMA VerdictsFollow == StorageInv => VerdictsAreExact
  <1> SUFFICES ASSUME StorageInv, verdict # None PROVE VerdictsAreExact
    BY DEF VerdictsAreExact
  <1> DEFINE i == verdict.intent
             asked == i.arguments[1]
             fact == i.effect.fact
             v == verdict.value
  <1>1. /\ IntentOK(i) /\ verdict.key \in Keys /\ v \in Values
        /\ ValidateFact(verdict.key, v) = {}
        /\ verdict.relation = EvaluateReadback(i, verdict.key, v)
    BY DEF StorageInv, VerdictWasJudged
  <1>2. fact = [id |-> asked.id, dims |-> fact.dims]
    <2>1. fact \in Key
      BY <1>1, StoragePackAssumption DEF IntentOK
    <2>2. fact = [id |-> fact.id, dims |-> fact.dims]
      BY <2>1 DEF Key
    <2>3. asked.id = fact.id
      BY <1>1, IntentsFitTheirTable
    <2> QED
      BY <2>2, <2>3, Zenon
  <1>3. Equal(v, i.effect.expected) <=> v = asked.value
    <2>1. v \in Value /\ ValueErrors(v) = {}
      BY <1>1, ValidFactsHaveTheirKind, StoragePackAssumption
    <2>2. /\ asked.value \in Value /\ ValueErrors(asked.value) = {}
          /\ i.effect.expected \in Value /\ ValueErrors(i.effect.expected) = {}
          /\ Equal(asked.value, i.effect.expected)
      BY <1>1, IntentsFitTheirTable
    <2>3. asked.value = i.effect.expected
      BY <2>2, EqualIsIdentity
    <2> QED
      BY <2>1, <2>2, <2>3, EqualIsIdentity
  <1>4. verdict.relation = IF verdict.key # fact THEN "inconclusive"
                           ELSE IF v = asked.value THEN "confirms" ELSE "contradicts"
    BY <1>1, <1>3, Zenon DEF EvaluateReadback
  <1> HIDE DEF fact
  <1>5. verdict.key # [id |-> asked.id, dims |-> fact.dims] <=> verdict.key # fact
    BY <1>2
  <1> QED
    BY <1>4, <1>5, Zenon DEF VerdictsAreExact, fact

\* VerdictsAreExact: however decimals are written, a readback confirms what its
\* interface shows exactly when it is what was asked for.
THEOREM VerdictsAreAlwaysExact == StorageSpec => []VerdictsAreExact
  BY VerdictsFollow, StorageInvHolds, PTL

\* InterlockIsHonoured follows: a valid value equal to "clear" is "clear".
LEMMA InterlockFollows == StorageInv => InterlockIsHonoured
  <1> SUFFICES ASSUME StorageInv, let # None PROVE InterlockIsHonoured
    BY DEF InterlockIsHonoured
  <1> DEFINE i == let.intent
             interlocks == {p \in i.preconditions : p.fact.id = "interlock"}
  <1>1. IntentOK(i) /\ PublishedOK(let.on)
    BY DEF StorageInv, LetWasJudged
  <1>2. InterlockErrors(i) = {}
    BY <1>1, IntentsFitTheirTable
  <1>3. (\A p \in interlocks : CanonicalInterlock(p, i.effect.fact)) /\ Cardinality(interlocks) = 1
    BY <1>2, Zenon DEF InterlockErrors, Flag
  <1>4. interlocks # {}
    <2> HIDE DEF interlocks
    <2> QED
      BY <1>3, FS_EmptySet
  <1>5. PICK p \in i.preconditions : p.fact.id = "interlock" /\ CanonicalInterlock(p, i.effect.fact)
    BY <1>3, <1>4
  <1> HIDE DEF interlocks
  <1>6. /\ p.fact \in Keys /\ let.on[p.fact].value # None
        /\ EvaluatePredicate(p.fact, let.on[p.fact].value, p.op, p.expected)
              = [holds |-> TRUE, errors |-> {}]
    BY <1>5 DEF StorageInv, LetWasJudged
  <1>7. let.on[p.fact].value \in Values
    BY <1>1, <1>6 DEF PublishedOK
  <1>8. p.fact \in Key /\ p.expected \in Value /\ let.on[p.fact].value \in Value
    BY <1>1, <1>5, <1>7, StoragePackAssumption DEF IntentOK
  <1>9. p.op = "equal" /\ Equal(p.expected, Symbol("interlock", "clear")) /\ p.fact.dims = i.effect.fact.dims
    BY <1>5 DEF CanonicalInterlock
  <1>10. let.on[p.fact].value = p.expected
    <2>1. Truly(let.on[p.fact].value, p.op, p.expected)
      BY <1>6, <1>8, PredicatesAreTrue
    <2> QED
      BY <1>9, <2>1 DEF Truly
  <1>11. p.expected = Symbol("interlock", "clear")
    BY <1>9 DEF Equal, Symbol
  <1>12. p.fact = [id |-> "interlock", dims |-> i.effect.fact.dims]
    BY <1>5, <1>8, <1>9 DEF Key
  <1> QED
    BY <1>6, <1>10, <1>11, <1>12 DEF InterlockIsHonoured

\* PreconditionsWereTrue follows from what EvaluatePredicate says of valid values.
LEMMA PreconditionsFollow == StorageInv => PreconditionsWereTrue
  <1> SUFFICES ASSUME StorageInv, let # None, NEW p \in let.intent.preconditions
               PROVE  Truly(let.on[p.fact].value, p.op, p.expected)
    BY DEF PreconditionsWereTrue
  <1>1. /\ let.intent \in Asked /\ PublishedOK(let.on)
        /\ p.fact \in Keys /\ let.on[p.fact].value # None
        /\ EvaluatePredicate(p.fact, let.on[p.fact].value, p.op, p.expected)
              = [holds |-> TRUE, errors |-> {}]
    BY DEF StorageInv, LetWasJudged, IntentOK
  <1>2. let.on[p.fact].value \in Value /\ p.expected \in Value
    BY <1>1, StoragePackAssumption DEF PublishedOK
  <1> QED
    BY <1>1, <1>2, PredicatesAreTrue

\* IntentsWereSafe: whatever changes between an intent and its admission, what is
\* let through had the interlock of its own interface clear and preconditions that
\* are true of the numbers.
THEOREM IntentsAreAlwaysSafe == StorageSpec => []IntentsWereSafe
  <1>1. StorageInv => IntentsWereSafe
    BY InterlockFollows, PreconditionsFollow DEF IntentsWereSafe
  <1> QED
    BY <1>1, StorageInvHolds, PTL
=============================================================================
