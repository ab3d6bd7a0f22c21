------------------------------ MODULE MCPacks --------------------------------
(***************************************************************************)
(* Packs: a program builds its registries from a list of them, reads their *)
(* catalog, and asks the storage pack about intents and readbacks.  These  *)
(* share nothing, so a behaviour is about one of them.                     *)
(***************************************************************************)
EXTENDS Definitions, Catalog, StoragePack

VARIABLE scene

-----------------------------------------------------------------------------
(* Lists of up to three packs.  Each pack is sound, or has one of the      *)
(* defects a hand-written pack could have, in its index, in its metadata,  *)
(* or in both.                                                             *)

\* The metadata of pack p whose definitions are called after t.
Tables(p, t) ==
    [pack   |-> p,
     units  |-> <<<<p, <<t, "u">>>>>>,
     fields |-> <<[ref |-> <<p, <<t, "f">>>>, unit |-> <<p, <<t, "u">>>>, dimension |-> <<p, <<t, "d">>>>]>>,
     services |-> <<[ref |-> <<p, <<t, "s">>>>, dimension |-> <<p, <<t, "d">>>>],
                    [ref |-> <<p, <<t, "s2">>>>, dimension |-> <<p, <<t, "d">>>>]>>,
     capabilities |-> <<[ref |-> <<p, <<t, "c">>>>, service |-> <<p, <<t, "s">>>>]>>,
     operations |-> <<[ref |-> <<p, <<t, "o">>>>, capability |-> <<p, <<t, "c">>>>, service |-> <<p, <<t, "s">>>>,
                       argument |-> <<p, <<t, "f">>>>, effect |-> <<p, <<t, "e">>>>]>>]

Defined(p, t) ==
    [field |-> <<<<p, <<t, "f">>>>>>, service |-> <<<<p, <<t, "s">>>>, <<p, <<t, "s2">>>>>>,
     capability |-> <<<<p, <<t, "c">>>>>>, operation |-> <<<<p, <<t, "o">>>>>>,
     effect_rule |-> <<<<p, <<t, "e">>>>>>]

Hook(p, idx, tables) == [pack |-> p, indexPack |-> p, index |-> idx, describes |-> tables]
Source(p, idx, tables) == [validator |-> Hook(p, idx, tables), metadata |-> tables]
Sound(p, t) == Source(p, Defined(p, t), Tables(p, t))

Broken ==
    LET m == Tables("p1", "a")
        i == Defined("p1", "a")
        By(tables) == Source("p1", i, tables)
        Of(idx)    == Source("p1", idx, m)
    IN  {\* the operation names the other service
         By([m EXCEPT !.operations = <<[@[1] EXCEPT !.service = <<"p1", <<"a", "s2">>>>]>>]),
         \* its argument is no field
         By([m EXCEPT !.operations = <<[@[1] EXCEPT !.argument = <<"p1", <<"a", "c">>>>]>>]),
         \* a capability of another pack's service
         By([m EXCEPT !.capabilities = <<[@[1] EXCEPT !.service = <<"p2", <<"b", "s">>>>]>>]),
         \* a capability of no service
         By([m EXCEPT !.capabilities = <<[@[1] EXCEPT !.service = <<"p1", <<"a", "e">>>>]>>]),
         \* a service listed twice, one not at all
         By([m EXCEPT !.services = <<@[1], [@[1] EXCEPT !.dimension = <<"p1", <<"b", "d">>>>]>>]),
         \* a canonical unit that is none
         By([m EXCEPT !.fields = <<[@[1] EXCEPT !.unit = <<"p1", <<"a", "e">>>>]>>]),
         \* a unit that is also a field
         By([m EXCEPT !.units = <<<<"p1", <<"a", "u">>>>, <<"p1", <<"a", "f">>>>>>]),
         \* an identifier that is none
         By([m EXCEPT !.units = <<<<"p1", <<"a", "u">>>>, <<"p1", <<"a", "bad">>>>>>]),
         \* one id under two kinds, one id twice, one id of another pack
         Of([i EXCEPT !.effect_rule = <<<<"p1", <<"a", "e">>>>, <<"p1", <<"a", "f">>>>>>]),
         Of([i EXCEPT !.effect_rule = <<<<"p1", <<"a", "e">>>>, <<"p1", <<"a", "e">>>>>>]),
         Of([i EXCEPT !.effect_rule = <<<<"p1", <<"a", "e">>>>, <<"p2", <<"b", "e">>>>>>]),
         \* metadata other than the validator's own
         [validator |-> Hook("p1", i, m), metadata |-> [m EXCEPT !.operations = <<>>]],
         [validator |-> Hook("p1", i, Nil), metadata |-> m],
         [validator |-> [Hook("p1", i, m) EXCEPT !.indexPack = "p2"], metadata |-> m],
         [validator |-> Nil, metadata |-> m]}

\* p2 under ids of its own, under p1's ids, and twice under different ones.
All == Broken \cup {Sound("p1", "a"), Sound("p1", "b"), Sound("p2", "b"), Sound("p2", "a")}

Lists == {<<x>> : x \in All} \cup (All \X All) \cup
         ({Sound("p1", "a"), Sound("p2", "b"), Sound("p2", "a")} \X All \X {Sound("p3", "a"), Sound("p3", "c")})

DefinedNames == {"a", "b", "c"} \X {"u", "f", "d", "s", "s2", "c", "o", "e"}

-----------------------------------------------------------------------------
(* Two interfaces of one battery.  Intents vary one part at a time from a  *)
(* sound one, so that each check of the hook is what decides some of them. *)

On(id, dim, text) == [id |-> id, dims |-> <<[id |-> dim, text |-> text]>>]
Soc == On("soc", "pack", "p")
Interlock(t) == On("interlock", "interface", t)
Charge(t) == On("charge", "interface", t)

KeysGuarding == {Soc, Interlock("i"), Interlock("j")}
KeysReadBack == {Interlock("i"), Charge("i"), Charge("j")}
KeysUsed == KeysGuarding \cup KeysReadBack

Nine == Quantity("watt", Dec(9, 0))
Ten == Quantity("watt", Dec(1, 1))
TenTwice == Quantity("watt", Dec(10, 0))
Minus == Quantity("watt", Dec(-1, 1))
Percent(n) == Quantity("percent", n)
Clear == Symbol("interlock", "clear")
Active == Symbol("interlock", "active")

ValuesUsed ==
    {Nine, Ten, TenTwice, Minus, Clear, Active, Symbol("soc", "clear"),
     Percent(Dec(9, 0)), Percent(Dec(1, 1)), Percent(Dec(101, 0))}

Pre(fact, op, expected, revision) ==
    [fact |-> fact, op |-> op, expected |-> expected, revision |-> revision]

Intent(kind, args, effect, pre) ==
    [kind |-> kind, required |-> "set_charge", arguments |-> args, effect |-> effect,
     preconditions |-> pre]

Arg(id, v) == [id |-> id, value |-> v]
Effect(fact, op, v) == [rule |-> "charge_limit", fact |-> fact, op |-> op, expected |-> v]

Guards ==
    {{}} \cup
    {{Pre(Interlock(t), op, v, r)} :
        t \in {"i", "j"}, op \in {"equal", "not_equal"}, v \in {Clear, Active}, r \in 1..2}
    \cup {{Pre(Interlock("i"), "equal", Clear, 1), Pre(Interlock("j"), "equal", Clear, 1)}}

Charged == {Pre(Soc, op, Percent(n), 1) :
                op \in {"less", "less_equal", "greater", "greater_equal", "contains"},
                n \in {Dec(9, 0), Dec(1, 1)}}

Wanted(v, t, pre) == Intent("set_charge_limit", <<Arg("charge", v)>>,
                           Effect(Charge(t), "equal", v), pre)

AskedUsed ==
    {Wanted(v, t, g) : v \in {Nine, Ten, TenTwice, Minus}, t \in {"i", "j"}, g \in Guards}
    \cup {Wanted(Ten, "i", {Pre(Interlock("i"), "equal", Clear, 1), p}) : p \in Charged}
    \cup {Intent("set_charge_limit", args, e, {Pre(Interlock("i"), "equal", Clear, 1)}) :
            args \in {<<>>, <<Arg("charge", Ten)>>, <<Arg("discharge", Ten)>>},
            e \in {Effect(Charge("i"), op, v) : op \in {"equal", "greater"}, v \in {Nine, Ten}}}
    \cup {Intent(k, <<Arg("charge", Ten)>>, Effect(Charge("i"), "equal", Ten),
                 {Pre(Interlock("i"), "equal", Clear, 1)}) :
            k \in {"set_discharge_limit", "unknown"}}

\* Interlocks that trip and clear between an intent and its admission...
Guarding == INSTANCE StoragePack WITH Keys <- KeysGuarding, Offered <- {"set_charge"}

\* ... and whatever the interfaces show afterwards.
Confirming == INSTANCE StoragePack WITH Keys <- KeysReadBack

-----------------------------------------------------------------------------
(* One scene at a time; nothing happens to what the others are about: a    *)
(* sound pack nobody has registered yet, the document as it was published, *)
(* and a battery nobody has heard of.                                      *)

Unregistered == RegistryInit /\ sources = <<Sound("p1", "a")>>

MCInit ==
    \/ scene = "registries" /\ RegistryInit /\ CatalogInit /\ StorageInit
    \/ scene = "families"   /\ Unregistered /\ CatalogInit /\ StorageInit
    \/ scene = "guarding"   /\ Unregistered /\ CatalogInit /\ Guarding!StorageInit
    \/ scene = "confirming" /\ Unregistered /\ CatalogInit /\ Confirming!StorageInit

MCNext ==
    /\ UNCHANGED scene
    /\ \/ scene = "registries" /\ RegistryNext           /\ UNCHANGED <<document, storage>>
       \/ scene = "families"   /\ CatalogNext            /\ UNCHANGED <<registry, storage>>
       \/ scene = "guarding"   /\ Guarding!StorageNext   /\ UNCHANGED <<registry, document>>
       \/ scene = "confirming" /\ Confirming!StorageNext /\ UNCHANGED <<registry, document>>

MCSpec == MCInit /\ [][MCNext]_<<registry, document, storage, scene>>
=============================================================================
