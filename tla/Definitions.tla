----------------------------- MODULE Definitions -----------------------------
(***************************************************************************)
(* Who owns a definition.  Packs come as sources [validator, metadata]; the*)
(* two registries built from them are                                      *)
(*                                                                         *)
(*   Registry              (NewRegistry, validation.go), which the kernels *)
(*                         ask for the hook of a definition, and           *)
(*   PackMetadataRegistry  (NewPackMetadataRegistry, pack_metadata.go),    *)
(*                         which readers ask how definitions relate.       *)
(*                                                                         *)
(* Both take their sources one after the other, so the order in which a    *)
(* program happens to list its packs must not show.  A reference is        *)
(* <<pack, id>>, the id standing for id and version; ids outside ID are    *)
(* not well formed.                                                        *)
(***************************************************************************)
EXTENDS Errors, FiniteSets, Sequences

CONSTANTS Pack, ID,
          Nil,         \* no validator, no metadata, no unit
          Sources      \* lists of [validator, metadata] to build the registries from

Kinds == {"field", "service", "capability", "operation", "effect_rule"}
Ref   == Pack \X ID

\* The lists of a pack's metadata are lists, and its operations are complete.
ASSUME DefinitionsAssumption ==
    /\ Nil \notin Pack
    /\ \A list \in Sources : \A n \in DOMAIN list :
          LET m == list[n].metadata
          IN  /\ DOMAIN m.capabilities = 1..Len(m.capabilities) /\ Len(m.capabilities) \in Nat
              /\ \A i \in DOMAIN m.operations :
                    LET o == m.operations[i]
                    IN  o = [ref |-> o.ref, capability |-> o.capability, service |-> o.service,
                             argument |-> o.argument, effect |-> o.effect]

VARIABLES
    sources,     \* the list offered
    validators,  \* positions NewRegistry has not looked at yet
    owners,      \* <<kind, id>> -> pack, of the definition registry
    frozen,      \* pack -> index of its registered validator
    conflicts,   \* identifiers NewRegistry has collected
    metadata,    \* positions NewPackMetadataRegistry has not looked at yet
    index,       \* the metadata registry's maps
    refused      \* the metadata registry gave up

registry == <<sources, validators, owners, frozen, conflicts, metadata, index, refused>>

Elements(list) == {list[n] : n \in DOMAIN list}
Duplicate(list) == Cardinality(Elements(list)) # Len(list)
RefErrors(ref) == Flag(ref \notin Ref, "invalid_identifier")

-----------------------------------------------------------------------------
(* NewRegistry *)

\* DefinitionIndex.validationErrors.  Lists are given in canonical order.
IndexErrors(v, duplicate) ==
    UNION {Flag(Duplicate(v.index[kind]), duplicate)
           \cup UNION {RefErrors(ref) \cup Flag(ref[1] # v.indexPack, "definition_owner_conflict")
                         : ref \in Elements(v.index[kind])}
             : kind \in Kinds}

\* Mutant: an owner is looked up with its pack, so two packs can own one id.
OwnedByPack(kind, ref) == <<kind, ref[2]>> \in DOMAIN owners /\ owners[<<kind, ref[2]>>] = ref[1]

Owned(kind, ref) == <<kind, ref[2]>> \in DOMAIN owners

\* What a hook lists, [kind, reference], and under which name each has an owner.
Claims(v) == {d \in Kinds \X Ref : d[2] \in Elements(v.index[d[1]])}
Name(d) == <<d[1], d[2][2]>>

\* One hook.  A pack that is registered already keeps its first hook.
RegisterValidator(n) ==
    LET v == sources[n].validator
    IN  /\ n \in validators
        /\ validators' = validators \ {n}
        /\ \/ /\ v = Nil
              /\ conflicts' = conflicts \cup {"definition_owner_conflict"}
              /\ UNCHANGED <<owners, frozen>>
           \/ /\ v # Nil
              /\ LET fresh == v.pack \notin DOMAIN frozen
                     new   == {d \in Claims(v) : ~Owned(d[1], d[2])}
                     added == {Name(d) : d \in new}
                 IN  /\ conflicts' = conflicts \cup IndexErrors(v, "definition_owner_conflict")
                            \cup Flag(v.indexPack # v.pack \/ ~fresh \/ new # Claims(v),
                                      "definition_owner_conflict")
                     /\ frozen' = IF fresh
                                  THEN [p \in DOMAIN frozen \cup {v.pack} |->
                                           IF p = v.pack THEN v.index ELSE frozen[p]]
                                  ELSE frozen
                     /\ owners' = IF fresh
                                  THEN [k \in DOMAIN owners \cup added |->
                                           IF k \in added
                                           THEN (CHOOSE d \in new : Name(d) = k)[2][1]
                                           ELSE owners[k]]
                                  ELSE owners
        /\ UNCHANGED <<sources, metadata, index, refused>>

\* Registry.Definition: the pack whose hook answers for the definition, or Nil.
Definition(kind, ref) ==
    IF Owned(kind, ref) /\ owners[<<kind, ref[2]>>] = ref[1] /\ ref[1] \in DOMAIN frozen
    THEN ref[1] ELSE Nil

-----------------------------------------------------------------------------
(* NewPackMetadataRegistry *)

References(m) ==
    Elements(m.units)
    \cup (UNION {{f.ref, f.dimension} : f \in Elements(m.fields)})
    \cup {f.unit : f \in {g \in Elements(m.fields) : g.unit # Nil}}
    \cup (UNION {{s.ref, s.dimension} : s \in Elements(m.services)})
    \cup (UNION {{c.ref, c.service} : c \in Elements(m.capabilities)})
    \cup (UNION {{o.ref, o.capability, o.service, o.argument, o.effect} : o \in Elements(m.operations)})

\* validatePackMetadataReferences, metadataRefOwns
ReferenceErrors(m) ==
    UNION {RefErrors(ref) \cup Flag(ref[1] # m.pack, "definition_owner_conflict")
             : ref \in References(m)}

KindsOf(v, ref) == {kind \in Kinds : ref \in Elements(v.index[kind])}

\* Mutant: the index of effect rules is forgotten.
ListedWithoutEffects(v) == UNION {Elements(v.index[kind]) : kind \in Kinds \ {"effect_rule"}}

Listed(v) == UNION {Elements(v.index[kind]) : kind \in Kinds}

\* One list of the metadata covers the indexed definitions of its kind, once each.
CoverErrors(v, list, kind) ==
    LET refs == [n \in DOMAIN list |-> list[n].ref]
    IN  Flag(\E ref \in Elements(refs) : KindsOf(v, ref) # {kind}, "definition_owner_missing")
        \cup Flag(Duplicate(refs), "definition_owner_conflict")
        \cup Flag(Elements(refs) # Elements(v.index[kind]), "definition_owner_missing")

\* Mutant: an operation may name a capability of another service.
OperationLoosely(v, m, o) ==
    Flag(\/ KindsOf(v, o.argument) # {"field"} \/ KindsOf(v, o.effect) # {"effect_rule"},
         "definition_owner_missing")
    \cup Flag(\A c \in Elements(m.capabilities) : c.ref # o.capability, "definition_owner_conflict")

OperationErrors(v, m, o) ==
    Flag(\/ KindsOf(v, o.argument) # {"field"} \/ KindsOf(v, o.effect) # {"effect_rule"},
         "definition_owner_missing")
    \cup Flag(\A c \in Elements(m.capabilities) : c.ref # o.capability \/ c.service # o.service,
              "definition_owner_conflict")

\* Mutant: units are one namespace for all packs.
PackErrorsByUnit(v, m, known) ==
    Flag(\E unit \in Elements(m.units) : \E ref \in known : ref[2] = unit[2],
         "definition_owner_conflict")
    \cup CoverErrors(v, m.fields, "field") \cup CoverErrors(v, m.services, "service")

\* registerPack, registerFields, ..., registerOperations
PackErrors(v, m, known) ==
    Flag(\E ref \in Listed(v) : ref[1] # m.pack \/ Cardinality(KindsOf(v, ref)) # 1,
         "definition_owner_conflict")
    \cup Flag(Duplicate(m.units) \/ Elements(m.units) \cap (Listed(v) \cup known) # {},
              "definition_owner_conflict")
    \cup Flag(Listed(v) \cap known # {}, "definition_owner_conflict")
    \cup CoverErrors(v, m.fields, "field") \cup CoverErrors(v, m.services, "service")
    \cup CoverErrors(v, m.capabilities, "capability") \cup CoverErrors(v, m.operations, "operation")
    \cup Flag(\E f \in Elements(m.fields) : f.unit # Nil /\ f.unit \notin Elements(m.units),
              "definition_owner_missing")
    \cup Flag(\E c \in Elements(m.capabilities) : \A s \in Elements(m.services) : s.ref # c.service,
              "definition_owner_missing")
    \cup UNION {OperationErrors(v, m, o) : o \in Elements(m.operations)}

\* What is wrong with one source, in the order the code asks; it reports the
\* first.  A validator that describes itself differently is not believed.
SourceErrors(s, idx) ==
    LET v == s.validator
        m == s.metadata
    IN  IF v = Nil THEN {"definition_owner_conflict"}
        ELSE IF v.describes = Nil THEN {"definition_owner_missing"}
        ELSE ReferenceErrors(m)
             \cup Flag(ReferenceErrors(v.describes) # {} \/ v.describes.pack # v.pack,
                       "definition_owner_conflict")
             \cup IndexErrors(v, "duplicate_key")
             \cup Flag(m.pack # v.pack \/ v.indexPack # m.pack \/ m.pack \in idx.packs
                          \/ m # v.describes,
                       "definition_owner_conflict")
             \cup PackErrors(v, m, idx.definitions)

RegisterMetadata(n) ==
    LET s == sources[n]
        m == s.metadata
    IN  /\ ~refused /\ n \in metadata
        /\ \/ /\ SourceErrors(s, index) # {}
              /\ refused' = TRUE
              /\ UNCHANGED <<metadata, index>>
           \/ /\ SourceErrors(s, index) = {}
              /\ metadata' = metadata \ {n}
              /\ index' = [packs       |-> index.packs \cup {m.pack},
                           definitions |-> index.definitions \cup Elements(m.units) \cup Listed(s.validator),
                           fields      |-> index.fields \cup Elements(m.fields),
                           services    |-> index.services \cup Elements(m.services),
                           caps        |-> index.caps \cup Elements(m.capabilities),
                           operations  |-> index.operations \cup Elements(m.operations)]
              /\ UNCHANGED refused
        /\ UNCHANGED <<sources, validators, owners, frozen, conflicts>>

\* The queries of the metadata registry.
HasDefinition(ref) == ref \in index.definitions
ServiceOwnsCapability(service, capability) ==
    \E c \in index.caps : c.ref = capability /\ c.service = service
FieldMatches(field, service, capability) ==
    /\ ServiceOwnsCapability(service, capability)
    /\ \E f \in index.fields, s \in index.services :
          f.ref = field /\ s.ref = service /\ f.dimension = s.dimension
OperationMatches(operation, capability, service, argument, effect) ==
    [ref |-> operation, capability |-> capability, service |-> service,
     argument |-> argument, effect |-> effect] \in index.operations

EmptyIndex == [packs |-> {}, definitions |-> {}, fields |-> {}, services |-> {}, caps |-> {},
               operations |-> {}]

-----------------------------------------------------------------------------
RegistryInit ==
    /\ sources \in Sources
    /\ validators = DOMAIN sources /\ owners = <<>> /\ frozen = <<>> /\ conflicts = {}
    /\ metadata = DOMAIN sources /\ refused = FALSE
    /\ index = EmptyIndex

\* Every order of the list, so that one list stands for all its permutations.
RegistryNext == \E n \in DOMAIN sources : RegisterValidator(n) \/ RegisterMetadata(n)

RegistrySpec == RegistryInit /\ [][RegistryNext]_registry

-----------------------------------------------------------------------------
(* Properties. *)

Registered == validators = {} /\ conflicts = {}
Described  == metadata = {} /\ ~refused

\* A definition has one owner, whatever the order of registration: a registry
\* that is accepted answers every indexed definition with the pack that listed
\* it, and any list in which two packs, or two hooks of one pack, claim the same
\* kind, id and version is refused (NewRegistry, Definition).
OneOwner ==
    LET hooks == {n \in DOMAIN sources : sources[n].validator # Nil}
        claims(n) == {Name(d) : d \in Claims(sources[n].validator)}
    IN  /\ Registered =>
              /\ hooks = DOMAIN sources
              /\ \A n \in hooks : \A kind \in Kinds :
                    \A ref \in Elements(sources[n].validator.index[kind]) :
                        Definition(kind, ref) = sources[n].validator.pack
        /\ validators = {} /\ (\E m, n \in hooks : m # n /\ claims(m) \cap claims(n) # {})
              => conflicts # {}

\* Relations stay inside one pack and lead to definitions that exist: whatever
\* the metadata registry confirms about an operation, a capability or a field
\* names only definitions it has, of one pack and of the right kinds, and agrees
\* with what it says about the capability alone (NewPackMetadataRegistry and its
\* queries).
RelationsAreClosed ==
    Described =>
        /\ \A o \in index.operations :
              /\ OperationMatches(o.ref, o.capability, o.service, o.argument, o.effect)
              /\ ServiceOwnsCapability(o.service, o.capability)
              /\ \A ref \in {o.ref, o.capability, o.service, o.argument, o.effect} :
                    HasDefinition(ref) /\ ref[1] = o.ref[1]
              /\ \E f \in index.fields : f.ref = o.argument
        /\ \A c \in index.caps : \A s, t \in Ref :
              ServiceOwnsCapability(s, c.ref) /\ ServiceOwnsCapability(t, c.ref) => s = t
        /\ \A f \in index.fields : \A c \in index.caps :
              FieldMatches(f.ref, c.service, c.ref) => f.ref[1] = c.ref[1] /\ HasDefinition(f.ref)

\* The kernels and the readers see the same definitions: when both registries
\* accept a list, a definition is known to the one exactly when it is known to
\* the other, units apart, and each of its relations can be acted on.
RegistriesAgree ==
    Registered /\ Described =>
        LET units == UNION {Elements(sources[n].metadata.units) : n \in DOMAIN sources}
        IN  \A ref \in Ref :
                HasDefinition(ref) /\ ref \notin units
                    <=> \E kind \in Kinds : Definition(kind, ref) # Nil

\* A source is judged by itself: the metadata registry gives up exactly when one
\* of the sources would be refused alone or two describe the same pack, so no
\* order of the list, and no other pack in it, decides (NewPackMetadataRegistry).
RefusalIsOrderless ==
    LET wrong  == \E n \in DOMAIN sources : SourceErrors(sources[n], EmptyIndex) # {}
        shared == \E m, n \in DOMAIN sources :
                     m # n /\ sources[m].metadata.pack = sources[n].metadata.pack
    IN  /\ Described => ~wrong /\ ~shared
        /\ refused => wrong \/ shared

\* Whatever the order in which a program lists its packs, each registry takes or
\* refuses the list alike, and what is taken has one owner.
OneOwnerInAnyOrder == OneOwner /\ RefusalIsOrderless

\* What a reader is told about a definition can be acted on: both registries know
\* it, and what it is related to belongs together.
RelationsCanBeUsed == RelationsAreClosed /\ RegistriesAgree
=============================================================================
