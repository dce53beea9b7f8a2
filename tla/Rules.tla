------------------------------- MODULE Rules -------------------------------
(***************************************************************************)
(* A ruleset: what internal/rules loads of it (load.go), how an ability    *)
(* composed of atoms is compiled (compile.go), and what using one makes of *)
(* a state (resolve.go).                                                   *)
(*                                                                         *)
(* The texts of formulas are trees here, and a parameter is a leaf of one, *)
(* which Formula.tla shows a spliced text to be.  As in Engine.tla an      *)
(* actor has at most one resource; an attribute never changes, so a        *)
(* formula over one is a formula over a number and is not modelled.        *)
(***************************************************************************)
EXTENDS Engine, Trees, FiniteSets, TLC

Resource == <<"hp">>

\* int32(n), as the contract carries it.
Narrowed(n) == ((n + MaxInt + 1) % (2 * (MaxInt + 1))) - (MaxInt + 1)

-----------------------------------------------------------------------------
(* What a file decodes to, before anything of it is judged.                *)

IsSeq(s) == s \in Seq(ToSet(s))

Thresholds == [when : Exprs, apply : Conditions, removes : BOOLEAN]
IsRuleset(rs) == rs.thresholds \in Seq(Thresholds) /\ rs.conditions \subseteq Conditions

Effects == [is : {"change"}, by : Exprs]
             \cup [is : {"apply", "remove"}, condition : Conditions \cup Words]
Contributions ==
  [is : {"targeting"}, range : Exprs, max : Exprs]
    \cup [is : {"resolution"}, roll : Exprs, vs : Exprs, key : STRING, branches : STRING \X STRING]
    \cup [is : {"outcome"}, key : STRING \cup {None}, branch : STRING, effects : Seq(Effects)]

\* What is bound to a parameter is of its kind, or does not decode; Refused is a
\* formula that does not parse.
IsBound(kind, v) ==
  CASE kind = "int" -> v \in Exprs /\ Len(v) = 1 /\ IsLit(v)
    [] kind = "expr" -> v \in Exprs \cup {Refused}
    [] OTHER -> TRUE

\* An ability is [cost, compose], each entry of compose an atom and what is bound to
\* its parameters; cost is None at will.
IsAbility(ability) ==
  /\ ability.cost \in Int \cup {None}
  /\ IsSeq(ability.compose)
  /\ \A e \in ToSet(ability.compose) :
       /\ e.atom.contributes \in Seq(Contributions)
       /\ \A p \in DOMAIN e.bind \cap DOMAIN e.atom.params : IsBound(e.atom.params[p], e.bind[p])

-----------------------------------------------------------------------------
(* Loading.  rs is [types, thresholds, conditions]: what each property is, *)
(* the thresholds of the resource, and the declared conditions.            *)

ReservedWords == {<<"caster">>, <<"target">>}

\* checkPropertyRef, for each reference of a formula.
RefsDeclared(rs, t) == \A r \in RefsOf(t) :
  r[3] \in DOMAIN rs.types /\ rs.types[r[3]] = IF r[1] = "@" THEN "number" ELSE "resource"

\* Mutation: dice may stand where their rolls go unrecorded.
SingleActorOrDice(rs, t) == ScopesOf(t) \subseteq {"none"} /\ RefsDeclared(rs, t)

\* A formula of one actor: its rolls would not be recorded, so it has none.
SingleActor(rs, t) == ~HasDice(t) /\ ScopesOf(t) \subseteq {"none"} /\ RefsDeclared(rs, t)

\* A formula of two, each reference of which says whose it is.
TwoActor(rs, t) == "none" \notin ScopesOf(t) /\ RefsDeclared(rs, t)

LoadsRuleset(rs) ==
  /\ DOMAIN rs.types \cap ReservedWords = {}
  /\ \A th \in ToSet(rs.thresholds) : SingleActor(rs, th.when) /\ th.apply \in rs.conditions

\* A parameter is a leaf that no reference is.
Param(p) == Ref(Hole, "param", p)
IsParam(x) == x.op = "ref" /\ x.ref[1] = Hole
ParamsOf(t) == {x.ref[3] : x \in {y \in ToSet(t) : IsParam(y)}}

ReservedBranches == {"always", "usage", "effect"}

\* What is bound in a formula is a value: a name would not parse there.
Declared(atom, t) == \A p \in ParamsOf(t) :
  p \in DOMAIN atom.params /\ atom.params[p] \in {"int", "expr"}

\* checkIntOrPlaceholderField: a number, or one parameter and nothing around it,
\* which has to be bound to one (resolveIntField).
IntOrParam(atom, t) ==
  \/ IsLit(t)
  \/ \E p \in DOMAIN atom.params : atom.params[p] = "int" /\ t = Param(p)

TargetingLoads(atom, c) == IntOrParam(atom, c.range) /\ IntOrParam(atom, c.max)

ResolutionLoads(atom, c) ==
  /\ ToSet(c.branches) \cap ReservedBranches = {} /\ c.branches[1] # c.branches[2]
  /\ Declared(atom, c.roll) /\ Declared(atom, c.vs)

\* A key names the resolution whose branch an outcome is of; always is of none.
OutcomeLoads(atom, c) ==
  /\ c.key = None <=> c.branch = "always"
  /\ \A e \in ToSet(c.effects) : e.is = "change" => Declared(atom, e.by)

ContributionLoads(atom, c) ==
  CASE c.is = "targeting" -> TargetingLoads(atom, c)
    [] c.is = "resolution" -> ResolutionLoads(atom, c)
    [] c.is = "outcome" -> OutcomeLoads(atom, c)

\* checkAtomContributionKeys: without it a contribution would gain no order.
KeysDeclared(atom) == \A c \in ToSet(atom.contributes) :
  /\ c.is = "resolution" => c.key \in atom.provides
  /\ c.is = "outcome" /\ c.branch # "always" => c.key \in atom.consumes

LoadsAtom(atom) ==
  /\ atom.contributes # <<>>
  /\ \A c \in ToSet(atom.contributes) : ContributionLoads(atom, c)
  /\ KeysDeclared(atom)

\* bindAtom: each parameter, of its kind, and no other.  A number spliced into a
\* formula cannot be negative, which the grammar has no way to write.
Binds(rs, atom, bind) ==
  /\ DOMAIN bind = DOMAIN atom.params
  /\ \A p \in DOMAIN bind :
       CASE atom.params[p] = "int" -> NumberIn(bind[p]) >= 0
         [] atom.params[p] = "expr" -> bind[p] # Refused
         [] atom.params[p] = "condition" -> bind[p] \in rs.conditions

\* substTemplate: every parameter at once.
Substituted(t, bind) ==
  FlattenSeq([i \in DOMAIN t |-> IF IsParam(t[i]) THEN bind[t[i].ref[3]] ELSE <<t[i]>>])
BoundName(c, bind) == IF c \in DOMAIN bind THEN bind[c] ELSE c

-----------------------------------------------------------------------------
(* Compiling.                                                              *)

AtomsOf(ability) == [i \in DOMAIN ability.compose |-> ability.compose[i].atom]

Phases == [targeting |-> 0, resolution |-> 1, branch |-> 2, effects |-> 3]
ContributionPhase(c) ==
  CASE c.is = "targeting" -> Phases.targeting
    [] c.is = "resolution" -> Phases.resolution
    [] c.is = "outcome" -> IF c.branch = "always" THEN Phases.effects ELSE Phases.branch

\* When a key is there: with the resolution that makes it, or with the last of
\* its atom's outcomes.
ProducePhase(atom, key) ==
  IF \E c \in ToSet(atom.contributes) : c.is = "resolution" /\ c.key = key
  THEN Phases.resolution
  ELSE Largest(<<Phases.targeting>> \o
         [i \in DOMAIN atom.contributes |->
            IF atom.contributes[i].is = "outcome" THEN ContributionPhase(atom.contributes[i]) ELSE 0])

\* When an atom's keys are needed: by the earliest of what it contributes.
ConsumePhase(atom) ==
  Smallest(<<Phases.effects>> \o
    [i \in DOMAIN atom.contributes |-> ContributionPhase(atom.contributes[i])])

ProvidersOf(atoms, key) == {i \in DOMAIN atoms : key \in atoms[i].provides}
Provided(atoms) == UNION {atoms[i].provides : i \in DOMAIN atoms}

OneProvider(atoms) == \A i, j \in DOMAIN atoms : i # j => atoms[i].provides \cap atoms[j].provides = {}
ConsumedIsProvided(atoms) == \A i \in DOMAIN atoms : atoms[i].consumes \subseteq Provided(atoms)

\* Mutation: the order of the phases is taken to be any.
PhasesUnchecked(atoms) == TRUE

\* A provider runs in no later phase than what needs it.
PhasesAgree(atoms) == \A i \in DOMAIN atoms : \A k \in atoms[i].consumes :
  \A p \in ProvidersOf(atoms, k) : ProducePhase(atoms[p], k) <= ConsumePhase(atoms[i])

\* The atoms whose keys are all provided by those placed.
Ready(atoms, placed) == {i \in DOMAIN atoms \ ToSet(placed) :
  \A k \in atoms[i].consumes : ProvidersOf(atoms, k) \subseteq ToSet(placed)}

\* Kahn's sort, the first ready entry of the composition first; a cycle has none.
Sorted(atoms) ==
  FoldLeft(LAMBDA placed, i :
             IF placed = Refused \/ Ready(atoms, placed) = {} THEN Refused
             ELSE Append(placed, Smallest(SetToSeq(Ready(atoms, placed)))),
           <<>>, [i \in DOMAIN atoms |-> i])

\* Mutation: an acyclic composition runs in the order it is written.
OrderAsWritten(atoms) ==
  IF Sorted(atoms) = Refused THEN Refused ELSE [i \in DOMAIN atoms |-> i]

\* buildAndSortDAG.
RunOrder(atoms) ==
  IF OneProvider(atoms) /\ ConsumedIsProvided(atoms) /\ PhasesAgree(atoms)
  THEN Sorted(atoms) ELSE Refused

\* The contributions of one kind, and the entry each is of.
OfKind(ability, kind) ==
  FlattenSeq([i \in DOMAIN ability.compose |->
    LET e == ability.compose[i] IN
    FlattenSeq([j \in DOMAIN e.atom.contributes |->
      LET c == e.atom.contributes[j] IN
      IF c.is = kind THEN <<[entry |-> i, c |-> c, bind |-> e.bind]>> ELSE <<>>])])

\* compileTargeting: exactly one, whose two numbers are in range.
TargetingOf(t) == [range |-> NumberIn(Substituted(t.c.range, t.bind)),
                   max |-> NumberIn(Substituted(t.c.max, t.bind))]
CompiledTargeting(ts) ==
  IF Len(ts) = 1 /\ TargetingOf(ts[1]).range >= 0 /\ TargetingOf(ts[1]).max >= 1
  THEN TargetingOf(ts[1]) ELSE Refused

\* compileResolution: at most one, of two-actor formulas.
ResolutionOf(r) == [roll |-> Substituted(r.c.roll, r.bind), vs |-> Substituted(r.c.vs, r.bind),
                    key |-> r.c.key, branches |-> r.c.branches, entry |-> r.entry]
CompiledResolution(rs, r) ==
  CASE r = <<>> -> None
    [] Len(r) = 1 /\ TwoActor(rs, ResolutionOf(r[1]).roll) /\ TwoActor(rs, ResolutionOf(r[1]).vs) ->
         ResolutionOf(r[1])
    [] OTHER -> Refused

EffectOf(e, o) ==
  IF e.is = "change" THEN [is |-> "change", by |-> Substituted(e.by, o.bind), entry |-> o.entry]
  ELSE [is |-> e.is, condition |-> BoundName(e.condition, o.bind), entry |-> o.entry]

\* compileEffects.
EffectCompiles(rs, e) ==
  IF e.is = "change" THEN TwoActor(rs, e.by) ELSE e.condition \in rs.conditions

\* The effects of the outcomes of one branch, in run order.
EffectsOn(ability, order, branch) ==
  FlattenSeq([k \in DOMAIN order |->
    FlattenSeq([n \in DOMAIN OfKind(ability, "outcome") |->
      LET o == OfKind(ability, "outcome")[n] IN
      IF o.entry = order[k] /\ o.c.branch = branch
      THEN [m \in DOMAIN o.c.effects |-> EffectOf(o.c.effects[m], o)] ELSE <<>>])])

OutcomeFits(resolution, c) ==
  c.branch = "always" \/
    (resolution # None /\ c.key = resolution.key /\ c.branch \in ToSet(resolution.branches))

Powered(ability, order, targeting, resolution) ==
  [range |-> targeting.range, max |-> targeting.max, cost |-> ability.cost,
   resolution |-> resolution, effects |-> EffectsOn(ability, order, "always"),
   outcomes |-> IF resolution = None THEN <<<<>>, <<>>>>
                ELSE [b \in 1 .. 2 |-> EffectsOn(ability, order, resolution.branches[b])]]

PowerCompiles(rs, ability, p) ==
  /\ \A o \in ToSet(OfKind(ability, "outcome")) : OutcomeFits(p.resolution, o.c)
  /\ \A e \in ToSet(p.effects \o p.outcomes[1] \o p.outcomes[2]) : EffectCompiles(rs, e)

CompiledOrRefused(rs, ability, p) == IF PowerCompiles(rs, ability, p) THEN p ELSE Refused

Assembled(rs, ability, order, targeting, resolution) ==
  IF order = Refused \/ targeting = Refused \/ resolution = Refused THEN Refused
  ELSE CompiledOrRefused(rs, ability, Powered(ability, order, targeting, resolution))

\* compilePower, of a ruleset and atoms that load.
Compile(rs, ability) ==
  IF /\ LoadsRuleset(rs)
     /\ ability.cost # None => ability.cost >= 0
     /\ ability.compose # <<>>
     /\ \A e \in ToSet(ability.compose) : LoadsAtom(e.atom) /\ Binds(rs, e.atom, e.bind)
  THEN Assembled(rs, ability, RunOrder(AtomsOf(ability)),
                 CompiledTargeting(OfKind(ability, "targeting")),
                 CompiledResolution(rs, OfKind(ability, "resolution")))
  ELSE Refused

-----------------------------------------------------------------------------
(* Resolving.  A command is [caster, targets]; luck[i] is the dice's, for  *)
(* the i-th target.  While it resolves, an ability carries what it has     *)
(* done so far: nothing of it is in the state until all of it is.          *)

InOrder(S) == CHOOSE s \in [1 .. Cardinality(S) -> S] : ToSet(s) = S

\* findToken: the one of lowest id.  The ids have an order, and which is not said.
TokensIn(st, a, scene) == {t \in Standing(st, a) : scene = None \/ st.tokens[t].scene = scene}
FindToken(st, a, scene) == st.tokens[InOrder(TokensIn(st, a, scene))[1]]

Gap(i, j) == IF i > j THEN i - j ELSE j - i
TokenDistance(a, b) == Largest(<<Gap(a.at[1], b.at[1]), Gap(a.at[2], b.at[2])>>)

\* The target has a token where the caster's is, near enough.
InRange(st, power, mine, t) ==
  /\ TokensIn(st, t, mine.scene) # {}
  /\ TokenDistance(mine, FindToken(st, t, mine.scene)) <= power.range

CanPay(power, sheet) == power.cost # None => sheet.body # None /\ sheet.cur >= power.cost

\* The checks of Resolve before anything is decided.
MayUse(power, st, cmd) ==
  /\ HasActor(st, cmd.caster)
  /\ Len(cmd.targets) \in 1 .. power.max
  /\ Cardinality(ToSet(cmd.targets)) = Len(cmd.targets)
  /\ \A t \in ToSet(cmd.targets) : HasActor(st, t)
  /\ CanPay(power, st.actors[cmd.caster])
  /\ Standing(st, cmd.caster) # {}
  /\ \A t \in ToSet(cmd.targets) : InRange(st, power, FindToken(st, cmd.caster, None), t)

Begun(st) ==
  [cur |-> [a \in Actors |-> IF HasActor(st, a) THEN st.actors[a].cur ELSE 0],
   conditions |-> st.conditions, changed |-> <<>>, events |-> <<>>, dice |-> 0, recorded |-> 0]

\* A formula's view of the actors it has a scope for: the resource each has, as it
\* stands by now.
SheetOf(st, run, who) ==
  [r \in {<<"#", scope, Resource>> : scope \in {s \in DOMAIN who : st.actors[who[s]].body # None}} |->
     run.cur[who[r[2]]]]

EvalScoped(st, run, t, caster, target, luck) ==
  Eval(t, SheetOf(st, run, [caster |-> caster, target |-> target]), luck)

IsInt32(n) == n \in Int32

\* Mutation: what comes of a change is not capped.
AppliedUncapped(st, run, a, delta) ==
  LET n == IF run.cur[a] + delta < 0 THEN 0 ELSE run.cur[a] + delta IN
  [run EXCEPT !.cur[a] = n,
              !.changed = IF a \in ToSet(@) THEN @ ELSE Append(@, a),
              !.events = Append(@, [type |-> "ResourceChanged", actor |-> a,
                                    delta |-> Narrowed(delta), to |-> Narrowed(n)])]

\* applyDelta and its event: floored at zero, capped at a maximum there is.
AppliedTo(st, run, a, delta) ==
  LET floored == IF run.cur[a] + delta < 0 THEN 0 ELSE run.cur[a] + delta
      upper == st.actors[a].body
      n == IF upper # None /\ upper > 0 /\ floored > upper THEN upper ELSE floored
  IN  [run EXCEPT !.cur[a] = n,
                  !.changed = IF a \in ToSet(@) THEN @ ELSE Append(@, a),
                  !.events = Append(@, [type |-> "ResourceChanged", actor |-> a,
                                        delta |-> Narrowed(delta), to |-> Narrowed(n)])]

Threw(run, v) == [run EXCEPT !.dice = @ + v.dice]
Recorded(run, v) == [run EXCEPT !.dice = @ + v.dice, !.recorded = @ + v.dice]

\* Mutation: a condition is applied whether or not it is there.
ConditionedAgain(run, a, c, present) ==
  [run EXCEPT !.conditions[a] = IF present THEN @ \cup {c} ELSE @ \ {c},
              !.events = Append(@, [type |-> IF present THEN "ConditionApplied" ELSE "ConditionRemoved",
                                    actor |-> a, condition |-> c])]

\* A condition that is there already is not applied again, nor one removed that is not.
Conditioned(run, a, c, present) ==
  IF (c \in run.conditions[a]) = present THEN run
  ELSE [run EXCEPT !.conditions[a] = IF present THEN @ \cup {c} ELSE @ \ {c},
                   !.events = Append(@, [type |-> IF present THEN "ConditionApplied"
                                                  ELSE "ConditionRemoved",
                                         actor |-> a, condition |-> c])]

\* A change of v, which has to fit the contract, as has what comes of it.
Changing(st, run, a, v) ==
  IF v = Refused \/ ~IsInt32(v.n) THEN Refused
  ELSE IF IsInt32(AppliedTo(st, run, a, v.n).cur[a]) THEN AppliedTo(st, Recorded(run, v), a, v.n)
  ELSE Refused

OneEffect(st, run, e, caster, target, luck) ==
  CASE e.is = "change" ->
         IF st.actors[target].body = None THEN Refused
         ELSE Changing(st, run, target, EvalScoped(st, run, e.by, caster, target, luck))
    [] e.is = "apply" -> Conditioned(run, target, e.condition, TRUE)
    [] e.is = "remove" -> Conditioned(run, target, e.condition, FALSE)

\* applyOutcomes.
Effected(st, run, es, caster, target, luck) ==
  FoldLeft(LAMBDA r, e : IF r = Refused THEN Refused ELSE OneEffect(st, r, e, caster, target, luck),
           run, es)

\* A roll against another: both are recorded, and a tie is a hit.
Branched(st, run, power, caster, target, luck, roll, vs) ==
  IF roll = Refused \/ vs = Refused \/ ~IsInt32(roll.n) \/ ~IsInt32(vs.n) THEN Refused
  ELSE Effected(st, Recorded(Recorded(run, roll), vs),
                power.outcomes[IF roll.n >= vs.n THEN 1 ELSE 2], caster, target, luck)

Targeted(st, run, power, caster, target, luck) ==
  IF power.resolution = None THEN run
  ELSE Branched(st, run, power, caster, target, luck,
                EvalScoped(st, run, power.resolution.roll, caster, target, luck),
                EvalScoped(st, run, power.resolution.vs, caster, target, luck))

OneTarget(st, run, power, caster, target, luck) ==
  IF run = Refused THEN Refused
  ELSE LET hit == Targeted(st, run, power, caster, target, luck) IN
       IF hit = Refused THEN Refused ELSE Effected(st, hit, power.effects, caster, target, luck)

\* The threshold's rolls, had it any, are recorded nowhere.
Crossed(run, a, th, v) ==
  CASE v = Refused -> Refused
    [] v # Refused /\ v.n # 0 -> Conditioned(Threw(run, v), a, th.apply, TRUE)
    [] v # Refused /\ v.n = 0 ->
         IF th.removes THEN Conditioned(Threw(run, v), a, th.apply, FALSE) ELSE Threw(run, v)

CrossedOne(st, run, a, th) ==
  IF run = Refused THEN Refused ELSE Crossed(run, a, th, Eval(th.when, SheetOf(st, run, [none |-> a]), 1))
CrossedAll(rs, st, run, a) == FoldLeft(LAMBDA r, th : CrossedOne(st, r, a, th), run, rs.thresholds)

\* evalThresholds: of each actor that changed, in the order they did.
AfterThresholds(rs, st, run) ==
  IF run = Refused THEN Refused
  ELSE FoldLeft(LAMBDA r, a : CrossedAll(rs, st, r, a), run, run.changed)

\* The usage is paid first.
Paid(st, power, caster) ==
  IF power.cost = None THEN Begun(st) ELSE AppliedTo(st, Begun(st), caster, -power.cost)

Ran(rs, power, st, cmd, luck) ==
  AfterThresholds(rs, st,
    FoldLeft(LAMBDA r, i : OneTarget(st, r, power, cmd.caster, cmd.targets[i], luck[i]),
             Paid(st, power, cmd.caster), [i \in DOMAIN cmd.targets |-> i]))

Resolve(rs, power, st, cmd, luck) == IF MayUse(power, st, cmd) THEN Ran(rs, power, st, cmd, luck) ELSE Refused

\* What is appended: the use, and all that came of it.
Batch(run) == <<[type |-> "AbilityUsed"]>> \o run.events

-----------------------------------------------------------------------------
(* The phases are fixed and the entries of each are sorted, so a key is    *)
(* made before it is needed only because compilePower refuses the rest.    *)

\* What a compiled ability runs, in order, where its resolution takes branch b.
RunOn(targeting, power, b) ==
  <<[entry |-> targeting.entry, is |-> "targeting"]>>
  \o (IF power.resolution = None THEN <<>>
      ELSE <<[entry |-> power.resolution.entry, is |-> "resolution"]>>)
  \o [i \in DOMAIN power.outcomes[b] |-> [entry |-> power.outcomes[b][i].entry, is |-> "outcome"]]
  \o [i \in DOMAIN power.effects |-> [entry |-> power.effects[i].entry, is |-> "outcome"]]

MakesKey(atom, step, key) ==
  IF \E c \in ToSet(atom.contributes) : c.is = "resolution" /\ c.key = key
  THEN step.is = "resolution" ELSE step.is = "outcome"

\* Every key an atom consumes was made, by all that makes it, before any of the
\* atom's own contributions runs.
HonouredIn(atoms, run) ==
  \A i, j \in DOMAIN run :
    \A key \in atoms[run[i].entry].provides \cap atoms[run[j].entry].consumes :
      MakesKey(atoms[run[i].entry], run[i], key) => i < j

Honoured(ability, power) == \A b \in 1 .. 2 :
  HonouredIn(AtomsOf(ability), RunOn(OfKind(ability, "targeting")[1], power, b))

\* What a run made of the state is what the fold makes of its events.
FoldsAsRun(st, run) ==
  LET folded == Folded(st, Batch(run)) IN
  /\ folded # None
  /\ folded.conditions = run.conditions
  /\ \A a \in ToSet(run.changed) : folded.actors[a].cur = run.cur[a]

AllRecorded(run) == run.dice = run.recorded
=============================================================================
