----------------------------- MODULE StoragePack -----------------------------
(***************************************************************************)
(* The storage pack (packs/storage): the hooks that give the kernels'      *)
(* `hook`, `unmet`, `accepts` and `judge` of the module Operation their    *)
(* meaning for batteries, at work on a site with several interfaces.  The  *)
(* pack keeps no state; the variables are what the kernels hand it.  The   *)
(* other packs share these hooks but for the interlock, which only storage *)
(* has, and bounds, which only storage leaves open.                        *)
(*                                                                         *)
(* A decimal is [c, e] for c * 10^e; a fact key is [id, dims], with dims   *)
(* the sequence of [id, text].                                             *)
(***************************************************************************)
EXTENDS Errors, Sequences, FiniteSets

CONSTANTS Keys,        \* fact keys that occur
          Values,      \* values that occur
          Asked,       \* intents that occur
          Offered,     \* capabilities that occur
          MaxRevision, \* observations of one fact
          MaxExponent, \* 18 in Decimal.Validate
          None

\* Numbers, what is no number, and fact keys.
Decimals == [c : Int, e : Int]
Key   == [id : STRING, dims : Seq([id : STRING, text : STRING])]
Value == [kind : {"quantity"}, unit : STRING, num : Decimals]
         \cup [kind : STRING \ {"quantity"}, unit : STRING, num : STRING]

ASSUME StoragePackAssumption ==
    /\ MaxExponent \in Nat
    /\ Keys \subseteq Key /\ Values \subseteq Value /\ None \notin Values
    /\ \A i \in Asked :
          /\ i.effect.fact \in Key /\ i.effect.expected \in Value
          /\ i.arguments \in Seq([id : STRING, value : Value])
          /\ \A p \in i.preconditions : p.fact \in Key /\ p.expected \in Value

VARIABLES facts,     \* key -> [value, revision], what is published
          offers,    \* capability -> its constraints, or None
          let,       \* the intent let through, with the facts it was judged on, or None
          verdict    \* the readback that closed it, [intent, key, value, relation], or None

storage == <<facts, offers, let, verdict>>

-----------------------------------------------------------------------------
(* The tables of definitions.go, one row of a kind. *)

Dec(c, e) == [c |-> c, e |-> e]
Quantity(unit, n) == [kind |-> "quantity", unit |-> unit, num |-> n]
Symbol(ns, token) == [kind |-> "symbol", unit |-> ns, num |-> token]

Field(kind, unit, dimension, min, max, symbols) ==
    [kind |-> kind, unit |-> unit, dimension |-> dimension,
     min |-> min, max |-> max, symbols |-> symbols]

Fields ==
    [soc       |-> Field("quantity", "percent", "pack", Dec(0, 0), Dec(1, 2), {}),
     current   |-> Field("quantity", "ampere", "pack", None, None, {}),
     charge    |-> Field("quantity", "watt", "interface", Dec(0, 0), None, {}),
     discharge |-> Field("quantity", "watt", "interface", Dec(0, 0), None, {}),
     interlock |-> Field("symbol", None, "interface", None, None, {"active", "clear"})]

Capabilities ==
    [read_pack |-> <<>>, set_charge |-> <<"charge">>, set_discharge |-> <<"discharge">>]

Operations ==
    [set_charge_limit |->
        [capability |-> "set_charge", argument |-> "charge", effect |-> "charge_limit"],
     set_discharge_limit |->
        [capability |-> "set_discharge", argument |-> "discharge", effect |-> "discharge_limit"]]

-----------------------------------------------------------------------------
(* Values. *)

\* Decimal.Validate: one notation for every number.
DecimalOK(n) ==
    /\ n.e \in (-MaxExponent)..MaxExponent
    /\ n.c = 0 => n.e = 0
    /\ n.c # 0 => n.c % 10 # 0

\* Mutant: the larger exponent is taken for the larger number.
CompareByExponent(a, b) == IF a.e # b.e THEN a.e - b.e ELSE a.c - b.c

\* 10^n
Power[n \in Nat] == IF n = 0 THEN 1 ELSE 10 * Power[n - 1]

\* compare, rat: exact, whatever the exponents.
Compare(a, b) ==
    LET low == IF a.e < b.e THEN a.e ELSE b.e
    IN  a.c * Power[a.e - low] - b.c * Power[b.e - low]

\* equal
Equal(v, w) ==
    IF v.kind = "quantity" /\ w.kind = "quantity"
    THEN v.unit = w.unit /\ Compare(v.num, w.num) = 0
    ELSE v = w

\* Value.Validate
ValueErrors(v) ==
    Flag(v.kind = "quantity" /\ ~DecimalOK(v.num), "invalid_decimal")

\* valueOK of field id
ValueOK(id, v) ==
    LET s == Fields[id]
    IN  IF v.kind # s.kind THEN {"invalid_value"}
        ELSE IF s.kind = "symbol"
        THEN Flag(v.unit # id \/ v.num \notin s.symbols, "invalid_value")
        ELSE IF v.unit # s.unit THEN {"invalid_value"}
        ELSE Flag(\/ s.min # None /\ Compare(v.num, s.min) < 0
                  \/ s.max # None /\ Compare(v.num, s.max) > 0, "bounds_exceeded")

DimensionsOK(dims, want) ==
    Flag(Len(dims) # 1 \/ (Len(dims) = 1 /\ dims[1].id # want), "invalid_value")

\* The errors of checks that run one after another until one fails.
FirstOf(a, b) == IF a # {} THEN a ELSE b

ValidateFact(key, v) ==
    FirstOf(ValueErrors(v),
        IF key.id \notin DOMAIN Fields THEN {"definition_owner_missing"}
        ELSE FirstOf(DimensionsOK(key.dims, Fields[key.id].dimension), ValueOK(key.id, v)))

ValidateField(id, f) ==
    FirstOf(ValueErrors(f.value),
        IF f.id # id \/ id \notin DOMAIN Fields THEN {"definition_owner_missing"}
        ELSE ValueOK(id, f.value))

-----------------------------------------------------------------------------
(* Capabilities and predicates. *)

\* constraintsOK
ConstraintErrors(cap, fs) ==
    IF Len(fs) # Len(Capabilities[cap]) THEN {"invalid_value"}
    ELSE UNION {IF fs[i].id # Capabilities[cap][i] THEN {"invalid_value"}
                ELSE ValidateField(fs[i].id, fs[i]) : i \in DOMAIN fs}

\* MatchConstraints: the arguments are the capability's constraints.
MatchConstraints(cap, constraints, fs) ==
    FirstOf(ConstraintErrors(cap, constraints),
    FirstOf(ConstraintErrors(cap, fs),
        Flag(\E i \in DOMAIN fs : ~Equal(fs[i].value, constraints[i].value), "invalid_value")))

\* EvaluatePredicate: [holds, errors]
EvaluatePredicate(key, v, op, expected) ==
    LET invalid == FirstOf(ValidateFact(key, v), ValidateFact(key, expected))
        n == Compare(v.num, expected.num)
        Says(b) == [holds |-> b, errors |-> {}]
        Fails(e) == [holds |-> FALSE, errors |-> e]
    IN  IF invalid # {} THEN Fails(invalid)
        ELSE IF op \in {"equal", "not_equal"} THEN Says(Equal(v, expected) <=> op = "equal")
        ELSE IF v.kind # "quantity" THEN Fails({"invalid_value"})
        ELSE CASE op = "less" -> Says(n < 0)
               [] op = "less_equal" -> Says(n <= 0)
               [] op = "greater" -> Says(n > 0)
               [] op = "greater_equal" -> Says(n >= 0)
               [] OTHER -> Fails({"invalid_enum"})

-----------------------------------------------------------------------------
(* Intents. *)

\* Mutant: any interlock will do.
SomeInterlockClear(p, effect) ==
    p.op = "equal" /\ Equal(p.expected, Symbol("interlock", "clear"))

\* canonicalInterlock: the interlock of the interface the effect is on.
CanonicalInterlock(p, effect) ==
    /\ Len(p.fact.dims) = 1 /\ p.fact.dims[1].id = "interface"
    /\ p.fact.dims = effect.dims
    /\ p.op = "equal" /\ Equal(p.expected, Symbol("interlock", "clear"))

InterlockErrors(i) ==
    LET interlocks == {p \in i.preconditions : p.fact.id = "interlock"}
    IN  Flag(\/ \E p \in interlocks : ~CanonicalInterlock(p, i.effect.fact)
             \/ Cardinality(interlocks) # 1, "invalid_value")

\* The hook's ValidateIntent.
ValidateIntent(i) ==
    IF i.kind \notin DOMAIN Operations THEN {"definition_owner_missing"} ELSE
    LET spec == Operations[i.kind]
        e == i.effect
    IN  FirstOf(Flag(i.required # spec.capability, "invalid_value"),
        IF Len(i.arguments) # 1 THEN {"invalid_value"} ELSE
        FirstOf(Flag(i.arguments[1].id # spec.argument, "invalid_value"),
        FirstOf(ValidateField(spec.argument, i.arguments[1]),
        FirstOf(Flag(\/ e.rule # spec.effect \/ e.fact.id # spec.argument
                     \/ e.op # "equal", "invalid_value"),
        FirstOf(DimensionsOK(e.fact.dims, Fields[spec.argument].dimension),
        FirstOf(ValueOK(spec.argument, e.expected),
        FirstOf(Flag(~Equal(i.arguments[1].value, e.expected), "invalid_value"),
                InterlockErrors(i))))))))

\* Mutant: the fact is looked at, its interface is not.
ReadbackOfField(i, key, v) ==
    IF key.id # i.effect.fact.id \/ ValidateFact(key, v) # {} THEN "inconclusive"
    ELSE IF Equal(v, i.effect.expected) THEN "confirms" ELSE "contradicts"

\* The hook validates the intent once more; one that was let through passes.
EvaluateReadback(i, key, v) ==
    IF key # i.effect.fact \/ ValidateFact(key, v) # {} THEN "inconclusive"
    ELSE IF Equal(v, i.effect.expected) THEN "confirms" ELSE "contradicts"

-----------------------------------------------------------------------------
(* The kernels' calls. *)

\* A commit publishes a value the hook accepts.
Observe(key, v) ==
    /\ ValidateFact(key, v) = {}
    /\ facts[key].revision < MaxRevision
    /\ facts' = [facts EXCEPT ![key] = [value |-> v, revision |-> @.revision + 1]]
    /\ UNCHANGED <<offers, let, verdict>>

Offer(cap, constraints) ==
    /\ ConstraintErrors(cap, constraints) = {}
    /\ offers' = [offers EXCEPT ![cap] = constraints]
    /\ UNCHANGED <<facts, let, verdict>>

\* preconditionError, for one precondition.
Met(p) ==
    /\ p.fact \in Keys /\ facts[p.fact].value # None
    /\ facts[p.fact].revision = p.revision
    /\ EvaluatePredicate(p.fact, facts[p.fact].value, p.op, p.expected)
          = [holds |-> TRUE, errors |-> {}]

\* Admit, as far as the pack decides it.
Admit(i) ==
    /\ let = None
    /\ \A p \in i.preconditions : ValidateFact(p.fact, p.expected) = {}
    /\ ValidateFact(i.effect.fact, i.effect.expected) = {}
    /\ ValidateIntent(i) = {}
    /\ \A p \in i.preconditions : Met(p)
    /\ offers[i.required] # None
    /\ MatchConstraints(i.required, offers[i.required], i.arguments) = {}
    /\ let' = [intent |-> i, on |-> facts]
    /\ verdict' = None
    /\ UNCHANGED <<facts, offers>>

\* Record, as far as the pack decides it: a readback of fact key.
Record(key) ==
    /\ let # None /\ facts[key].value # None
    /\ verdict' = [intent |-> let.intent, key |-> key, value |-> facts[key].value,
                   relation |-> EvaluateReadback(let.intent, key, facts[key].value)]
    /\ let' = None
    /\ UNCHANGED <<facts, offers>>

StorageInit ==
    /\ facts = [key \in Keys |-> [value |-> None, revision |-> 0]]
    /\ offers = [cap \in DOMAIN Capabilities |-> None]
    /\ let = None /\ verdict = None

StorageNext ==
    \/ \E key \in Keys, v \in Values : Observe(key, v)
    \/ \E cap \in Offered : Offer(cap, <<>>)
    \/ \E cap \in Offered, id \in DOMAIN Fields, v \in Values :
          Offer(cap, <<[id |-> id, value |-> v]>>)
    \/ \E i \in Asked : Admit(i)
    \/ \E key \in Keys : Record(key)

StorageSpec == StorageInit /\ [][StorageNext]_storage

-----------------------------------------------------------------------------
(* Properties. *)

\* The number a decimal stands for, in units of 10^-MaxExponent.
Number(v) == v.num.c * Power[v.num.e + MaxExponent]

Truly(v, op, w) ==
    CASE op = "equal" -> v = w
      [] op = "not_equal" -> v # w
      [] op = "less" -> Number(v) < Number(w)
      [] op = "less_equal" -> Number(v) <= Number(w)
      [] op = "greater" -> Number(v) > Number(w)
      [] op = "greater_equal" -> Number(v) >= Number(w)

\* A limit is only changed on an interface whose own interlock was clear in the
\* snapshot the intent was judged on; the interlock of no other interface, and
\* none the issuer saw earlier, stands in for it (canonicalInterlock).
InterlockIsHonoured ==
    let # None =>
        \E key \in Keys :
            /\ key = [id |-> "interlock", dims |-> let.intent.effect.fact.dims]
            /\ let.on[key].value = Symbol("interlock", "clear")

\* Every precondition of an intent that was let through is true of the numbers
\* in that snapshot, however their decimals are written (EvaluatePredicate,
\* compare).
PreconditionsWereTrue ==
    let # None =>
        \A p \in let.intent.preconditions : Truly(let.on[p.fact].value, p.op, p.expected)

\* What was let through was safe in the snapshot it was judged on: by the
\* interlock of its own interface and by what its issuer asked for.
IntentsWereSafe == InterlockIsHonoured /\ PreconditionsWereTrue

\* A readback confirms an operation exactly when the interface it was on shows
\* the limit that was asked for, and contradicts it exactly when that
\* interface shows another one (EvaluateReadback, equal).
VerdictsAreExact ==
    verdict # None =>
        LET asked == verdict.intent.arguments[1]
            same == verdict.key = [id |-> asked.id, dims |-> verdict.intent.effect.fact.dims]
        IN  verdict.relation = IF ~same THEN "inconclusive"
                               ELSE IF verdict.value = asked.value THEN "confirms"
                               ELSE "contradicts"
=============================================================================
