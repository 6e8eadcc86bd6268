------------------------------ MODULE RuntimeProfiles ------------------------------
(***************************************************************************)
(* The profiles of the runtime: custom definitions that inherit from each  *)
(* other and from the built-in profiles (config/runtime-profile.ts), and   *)
(* the resolution of a target's profile from selectors and settings        *)
(* (config/profile-resolver.ts).  All of it is pure.                       *)
(***************************************************************************)
EXTENDS Naturals, Sequences, FiniteSets, SequencesExt

CONSTANT None

Rejected == [rejected |-> TRUE]     \* a configuration error

---------------------------------------------------------------------------
(* Profiles: config/runtime-profile.ts.  A definition is [id, extends,     *)
(* sets]; sets gives the fields it declares, None for the others.  The     *)
(* retrieval switch is inherited and resolved as the other two are.        *)

Fields == {"hardBlocking", "warningsEnabled", "captureEnabled"}
BuiltIn ==
    [normal       |-> [hardBlocking |-> TRUE,  warningsEnabled |-> TRUE,  captureEnabled |-> TRUE],
     learning     |-> [hardBlocking |-> FALSE, warningsEnabled |-> TRUE,  captureEnabled |-> TRUE],
     observe_only |-> [hardBlocking |-> FALSE, warningsEnabled |-> FALSE, captureEnabled |-> TRUE]]

BuiltInRegistry ==
    [rejected |-> FALSE, profiles |-> BuiltIn, learning |-> {"learning"}, resolving |-> {}]

Overlay(below, above) == [f \in Fields |-> IF above[f] = None THEN below[f] ELSE above[f]]
Fail(registry) == [registry EXCEPT !.rejected = TRUE]

Learns(d, registry) == d.extends \in registry.learning

(* The closure resolve of defineRuntimeProfiles: it resolves the parent first
   and threads what is resolved, of learning lineage, and being resolved. *)
RECURSIVE Resolve(_, _, _)
Resolve(defs, id, registry) ==
    IF registry.rejected \/ id \in DOMAIN registry.profiles THEN registry
    ELSE IF id \in registry.resolving \/ id \notin DOMAIN defs THEN Fail(registry)
    ELSE LET d == defs[id]
             above == Resolve(defs, d.extends, [registry EXCEPT !.resolving = @ \cup {id}])
             learns == Learns(d, above)
             profile == Overlay(above.profiles[d.extends], d.sets)
         IN  IF above.rejected THEN above
             ELSE IF learns /\ ~profile.captureEnabled THEN Fail(above)
             ELSE [rejected |-> FALSE,
                   profiles |-> [i \in DOMAIN above.profiles \cup {id} |->
                                    IF i = id THEN profile ELSE above.profiles[i]],
                   learning |-> IF learns THEN above.learning \cup {id} ELSE above.learning,
                   resolving |-> above.resolving \ {id}]

\* defineRuntimeProfiles, on the definitions in the order of the configuration.
DefinedProfiles(definitions) ==
    LET ids == {d.id : d \in ToSet(definitions)}
        defs == [i \in ids |-> CHOOSE d \in ToSet(definitions) : d.id = i]
        InOrder(registry, d) == Resolve(defs, d.id, registry)
    IN  IF Cardinality(ids) # Len(definitions) \/ ids \cap DOMAIN BuiltIn # {} THEN Fail(BuiltInRegistry)
        ELSE FoldLeft(InOrder, BuiltInRegistry, definitions)

---------------------------------------------------------------------------
(* Resolution for a target: config/profile-resolver.ts.  A setting is      *)
(* [profile, sets], a selector that matches the target [literals,          *)
(* wildcards, setting].                                                    *)

\* Mutant: the fewest wildcards are kept from a pattern with fewer literals.
BetterWildcardKept(best, m) ==
    IF m.literals < best.literals THEN best
    ELSE [literals |-> m.literals,
          wildcards |-> IF best.wildcards = 0 \/ m.wildcards < best.wildcards THEN m.wildcards ELSE best.wildcards]

(* The loop of selectWildcard keeps the most literals seen so far, and the
   fewest wildcards seen with them. *)
BetterWildcard(best, m) ==
    IF m.literals > best.literals THEN [literals |-> m.literals, wildcards |-> m.wildcards]
    ELSE IF m.literals = best.literals /\ m.wildcards < best.wildcards
         THEN [best EXCEPT !.wildcards = m.wildcards]
    ELSE best

BestWildcard(selectors) == FoldLeft(BetterWildcard, [literals |-> 0, wildcards |-> 0], selectors)

Chosen(selectors, exact) ==
    LET wild == SelectSeq(selectors, LAMBDA m : m.wildcards > 0)
        best == BestWildcard(wild)
        Fits(m) == IF exact THEN m.wildcards = 0
                   ELSE m.wildcards = best.wildcards /\ m.literals = best.literals
    IN  SelectSeq(selectors, Fits)

\* resolveSetting: what a setting says of the identity and of each field.
SettingValues(setting, registry) ==
    [id |-> setting.profile] @@
    (IF setting.profile = None THEN setting.sets ELSE Overlay(registry.profiles[setting.profile], setting.sets))

(* resolveProfileTarget: candidates in the order of precedence, each a
   sequence of the settings found there; each field comes from the first
   candidate that has it. *)
ResolvedTarget(registry, session, local, shared, globals, default) ==
    LET selected(s) == [i \in DOMAIN s |-> s[i].setting]
        sources == << session, selected(Chosen(local, TRUE)), selected(Chosen(local, FALSE)), shared,
                      selected(Chosen(globals, TRUE)), selected(Chosen(globals, FALSE)), default >>
        settings == FlattenSeq(sources) \o << [profile |-> "normal", sets |-> [f \in Fields |-> None]] >>
        values == [i \in DOMAIN settings |-> SettingValues(settings[i], registry)]
        FirstOf(f) == values[SelectInSeq(values, LAMBDA v : v[f] # None)][f]
        profile == [f \in Fields |-> FirstOf(f)]
        id == FirstOf("id")
    IN  IF \/ registry.rejected
           \/ \E i \in DOMAIN sources : Len(sources[i]) > 1
           \/ \E i \in DOMAIN settings : settings[i].profile \notin DOMAIN registry.profiles \cup {None}
           \/ id \in registry.learning /\ ~profile.captureEnabled
        THEN Rejected
        ELSE [rejected |-> FALSE, id |-> id, profile |-> profile]
---------------------------------------------------------------------------
(* The same, declaratively: the chain of a definition to a built-in profile. *)

RECURSIVE Chain(_, _, _)
Chain(defs, id, seen) ==
    IF id \in DOMAIN BuiltIn THEN <<id>>
    ELSE IF id \in seen \/ id \notin DOMAIN defs THEN <<None>>
    ELSE <<id>> \o Chain(defs, defs[id].extends, seen \cup {id})

Declared(defs, chain, f) ==
    LET says(i) == IF i \in DOMAIN BuiltIn THEN BuiltIn[i][f] ELSE defs[i].sets[f]
    IN  says(chain[SelectInSeq(chain, LAMBDA i : says(i) # None)])

LearningChain(chain) == "learning" \in ToSet(chain)
=============================================================================
