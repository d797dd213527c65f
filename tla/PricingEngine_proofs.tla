-------------------------- MODULE PricingEngine_proofs --------------------------
(***************************************************************************)
(* What is resolved and priced of any template is what was deployed, as    *)
(* far as it bears no mark of doubt.                                       *)
(***************************************************************************)
EXTENDS PricingEngine, ConditionEvaluator_proofs

(***************************************************************************)
(* Expressions are trees of bounded depth, so what is defined of each by   *)
(* its parts is defined of all.                                            *)
(***************************************************************************)

LEMMA PartsAre ==
  ASSUME NEW e
  PROVE  /\ e.fn = "array" => Parts(e) = {e.items[i] : i \in DOMAIN e.items}
         /\ e.fn = "object" => Parts(e) = {e.fields[f] : f \in DOMAIN e.fields}
         /\ e.fn = "if" => Parts(e) = {e.yes, e.no}
         /\ e.fn = "find" => Parts(e) = {e.key, e.default}
         /\ e.fn \in {"dynamic", "select", "join", "split"} => Parts(e) = {e.of}
BY Zenon DEF Parts

(* An array and an object have their members as parts. *)
LEMMA Members ==
  ASSUME NEW e
  PROVE  /\ e.fn = "array" => \A i \in DOMAIN e.items : e.items[i] \in Parts(e)
         /\ e.fn = "object" => \A f \in DOMAIN e.fields : e.fields[f] \in Parts(e)
<1>1. e.fn = "array" => \A i \in DOMAIN e.items : e.items[i] \in Parts(e)
  BY PartsAre
<1>2. e.fn = "object" => \A f \in DOMAIN e.fields : e.fields[f] \in Parts(e)
  BY PartsAre
<1> QED BY <1>1, <1>2

(* What the resolver makes of an expression, form by form. *)
Formed(e, strict, member, whole, value) ==
  /\ e.fn = "literal" => value = Scalar(e.parts)
  /\ e.fn = "array" =>
       value = Sequence([i \in DOMAIN e.items |-> member[e.items[i]]], strict)
  /\ e.fn = "object" =>
       value = Mapping([f \in DOMAIN e.fields |-> member[e.fields[f]]], strict)
  /\ e.fn = "ref" => value = RefValue(e.name)
  /\ e.fn = "runtime" => value = Unresolved
  /\ e.fn = "dynamic" => value = whole[e.of]
  /\ e.fn = "if" =>
       \/ Verdict(e.condition) = "true" /\ value = whole[e.yes]
       \/ Verdict(e.condition) = "false" /\ value = whole[e.no]
       \/ value = Unresolved
  /\ e.fn = "find" =>
       \/ value = Unresolved
       \/ /\ IsResolved(whole[e.key])
          /\ \/ /\ Stringify(whole[e.key]) \in DOMAIN template.mappings
                /\ value = Scalar(template.mappings[Stringify(whole[e.key])])
             \/ /\ Stringify(whole[e.key]) \notin DOMAIN template.mappings
                /\ value = whole[e.default]
  /\ e.fn = "select" =>
       \/ value = Unresolved
       \/ /\ whole[e.of].kind = "list"
          /\ value = SelectItem(whole[e.of].v, e.index)
  /\ e.fn = "join" =>
       \/ value = Unresolved
       \/ whole[e.of].kind = "list" /\ value = Scalar(Stringify(whole[e.of]))
  /\ e.fn = "split" =>
       \/ value = Unresolved
       \/ IsResolved(whole[e.of]) /\ value = Texts(Stringify(whole[e.of]))

LEMMA ResolveForms ==
  ASSUME NEW e, NEW strict, NEW member, NEW whole,
         NEW value, value = ResolveWith(e, strict, member, whole)
  PROVE  Formed(e, strict, member, whole, value)
<1>1. e.fn \in {"literal", "array", "object", "ref", "runtime", "dynamic"} =>
        /\ e.fn = "literal" => value = Scalar(e.parts)
        /\ e.fn = "array" =>
             value = Sequence([i \in DOMAIN e.items |-> member[e.items[i]]], strict)
        /\ e.fn = "object" =>
             value = Mapping([f \in DOMAIN e.fields |-> member[e.fields[f]]], strict)
        /\ e.fn = "ref" => value = RefValue(e.name)
        /\ e.fn = "runtime" => value = Unresolved
        /\ e.fn = "dynamic" => value = whole[e.of]
  BY Zenon DEF ResolveWith
<1>2. e.fn = "if" => \/ Verdict(e.condition) = "true" /\ value = whole[e.yes]
                     \/ Verdict(e.condition) = "false" /\ value = whole[e.no]
                     \/ value = Unresolved
  BY Zenon DEF ResolveWith
<1>3. e.fn = "find" =>
        \/ value = Unresolved
        \/ /\ IsResolved(whole[e.key])
           /\ \/ /\ Stringify(whole[e.key]) \in DOMAIN template.mappings
                 /\ value = Scalar(template.mappings[Stringify(whole[e.key])])
              \/ /\ Stringify(whole[e.key]) \notin DOMAIN template.mappings
                 /\ value = whole[e.default]
  BY Zenon DEF ResolveWith
<1>4. e.fn = "select" => \/ value = Unresolved
                         \/ /\ whole[e.of].kind = "list"
                            /\ value = SelectItem(whole[e.of].v, e.index)
  BY Zenon DEF ResolveWith
<1>5. e.fn = "join" => \/ value = Unresolved
                       \/ whole[e.of].kind = "list" /\ value = Scalar(Stringify(whole[e.of]))
  BY Zenon DEF ResolveWith
<1>6. e.fn = "split" => \/ value = Unresolved
                        \/ /\ IsResolved(whole[e.of])
                           /\ value = Texts(Stringify(whole[e.of]))
  BY Zenon DEF ResolveWith
<1> QED BY <1>1, <1>2, <1>3, <1>4, <1>5, <1>6, Zenon DEF Formed

(* Two functions that make the same of the parts of an expression.         *)
Alike(e, v, w) == \A part \in Parts(e) : v[part] = w[part]

LEMMA ResolveCongruence ==
  ASSUME NEW e, e.fn \in Forms, NEW strict, NEW m, NEW n, Alike(e, m, n),
         NEW v, NEW w, Alike(e, v, w)
  PROVE  ResolveWith(e, strict, m, v) = ResolveWith(e, strict, n, w)
<1>1. CASE e.fn = "array"
  <2>1. [i \in DOMAIN e.items |-> m[e.items[i]]] = [i \in DOMAIN e.items |-> n[e.items[i]]]
    BY <1>1, Members DEF Alike
  <2>2. /\ ResolveWith(e, strict, m, v)
             = Sequence([i \in DOMAIN e.items |-> m[e.items[i]]], strict)
        /\ ResolveWith(e, strict, n, w)
             = Sequence([i \in DOMAIN e.items |-> n[e.items[i]]], strict)
    BY <1>1, Zenon DEF ResolveWith
  <2> QED BY <2>1, <2>2, Zenon
<1>2. CASE e.fn = "object"
  <2>1. [f \in DOMAIN e.fields |-> m[e.fields[f]]] = [f \in DOMAIN e.fields |-> n[e.fields[f]]]
    BY <1>2, Members DEF Alike
  <2>2. /\ ResolveWith(e, strict, m, v)
             = Mapping([f \in DOMAIN e.fields |-> m[e.fields[f]]], strict)
        /\ ResolveWith(e, strict, n, w)
             = Mapping([f \in DOMAIN e.fields |-> n[e.fields[f]]], strict)
    BY <1>2, Zenon DEF ResolveWith
  <2> QED BY <2>1, <2>2, Zenon
<1>3. CASE e.fn \in {"literal", "ref", "runtime"}
  BY <1>3, Zenon DEF ResolveWith
<1>4. CASE e.fn = "if"
  <2>1. v[e.yes] = w[e.yes] /\ v[e.no] = w[e.no]
    BY <1>4, PartsAre DEF Alike
  <2> QED BY <1>4, <2>1 DEF ResolveWith
<1>5. CASE e.fn = "find"
  <2>1. v[e.key] = w[e.key] /\ v[e.default] = w[e.default]
    BY <1>5, PartsAre DEF Alike
  <2> QED BY <1>5, <2>1 DEF ResolveWith
<1>6. CASE e.fn \in {"dynamic", "select", "join", "split"}
  <2>1. v[e.of] = w[e.of]
    BY <1>6, PartsAre DEF Alike
  <2> QED BY <1>6, <2>1 DEF ResolveWith
<1> QED BY <1>1, <1>2, <1>3, <1>4, <1>5, <1>6 DEF Forms

(* The expressions of some depth. *)
Shallow(d) == {e \in Expressions : Depth[e] < d}

LEMMA ShallowFacts ==
  /\ Shallow(0) = {} /\ Shallow(MaxDepth + 1) = Expressions
  /\ \A d \in Nat : \A e \in Shallow(d + 1) : Parts(e) \subseteq Shallow(d)
  /\ \A d \in Nat : Shallow(d) \subseteq Expressions
BY ExpressionsAssumption DEF Shallow

(* Induction over the depth of expressions. *)
LEMMA DepthInduction ==
  ASSUME NEW S,
         \A e \in Expressions : Parts(e) \subseteq S => e \in S
  PROVE  Expressions \subseteq S
<1> DEFINE Reached == {d \in Nat : Shallow(d) \subseteq S}
<1>1. 0 \in Reached
  BY ShallowFacts
<1>2. \A d \in Nat : d \in Reached => d + 1 \in Reached
  <2> SUFFICES ASSUME NEW d \in Nat, Shallow(d) \subseteq S
               PROVE  Shallow(d + 1) \subseteq S
    OBVIOUS
  <2> QED BY ShallowFacts DEF Shallow
<1> HIDE DEF Reached
<1>3. Nat \subseteq Reached
  BY <1>1, <1>2, NaturalsReached
<1>4. MaxDepth + 1 \in Nat
  BY ExpressionsAssumption
<1> QED BY <1>3, <1>4, ShallowFacts DEF Reached

(* One round of resolving each expression with what another one made of    *)
(* its parts.                                                              *)
StrictRound(v) == [e \in Expressions |-> ResolveWith(e, TRUE, v, v)]

LEMMA StrictRoundAgrees ==
  ASSUME NEW v, NEW w, NEW e \in Expressions, Alike(e, v, w)
  PROVE  StrictRound(v)[e] = StrictRound(w)[e]
<1>1. e.fn \in Forms
  BY ExpressionsAssumption
<1>2. \A strict : ResolveWith(e, strict, v, v) = ResolveWith(e, strict, w, w)
  BY <1>1, ResolveCongruence
<1>3. ResolveWith(e, TRUE, v, v) = ResolveWith(e, TRUE, w, w)
  BY <1>2, Zenon
<1> QED BY <1>3, Zenon DEF StrictRound
(* A round more settles the expressions of one depth more. *)
LEMMA StrictRoundsEnd == \E v : v = StrictRound(v)
<1> DEFINE Fixed(v, d) == \A e \in Shallow(d) : v[e] = StrictRound(v)[e]
           Reached == {d \in Nat : \E v : Fixed(v, d)}
<1>1. 0 \in Reached
  BY ShallowFacts
<1>2. \A d \in Nat : d \in Reached => d + 1 \in Reached
  <2> SUFFICES ASSUME NEW d \in Nat, NEW v, Fixed(v, d)
               PROVE  Fixed(StrictRound(v), d + 1)
    OBVIOUS
  <2> QED BY StrictRoundAgrees, ShallowFacts DEF Shallow, Alike
<1> HIDE DEF Reached
<1>3. MaxDepth + 1 \in Reached
  BY <1>1, <1>2, NaturalsReached, ExpressionsAssumption
<1>4. PICK v : \A e \in Expressions : v[e] = StrictRound(v)[e]
  BY <1>3, ShallowFacts DEF Reached
<1>5. \A e \in Expressions : StrictRound(v)[e] = StrictRound(StrictRound(v))[e]
  BY <1>4, StrictRoundAgrees, ExpressionsAssumption DEF Alike
<1>6. StrictRound(v) = StrictRound(StrictRound(v))
  BY <1>5, Zenon DEF StrictRound
<1> QED BY <1>6, Zenon

LEMMA ResolveStrictlyUnfolds == ResolveStrictly = StrictRound(ResolveStrictly)
BY StrictRoundsEnd, Zenon DEF ResolveStrictly, StrictRound

(* The same, not strictly. *)
LenientRound(v) == [e \in Expressions |-> ResolveWith(e, FALSE, v, ResolveStrictly)]

LEMMA LenientRoundAgrees ==
  ASSUME NEW v, NEW w, NEW e \in Expressions, Alike(e, v, w)
  PROVE  LenientRound(v)[e] = LenientRound(w)[e]
<1>1. e.fn \in Forms /\ Alike(e, ResolveStrictly, ResolveStrictly)
  BY ExpressionsAssumption DEF Alike
<1>2. \A strict : ResolveWith(e, strict, v, ResolveStrictly)
                   = ResolveWith(e, strict, w, ResolveStrictly)
  BY <1>1, ResolveCongruence
<1>3. ResolveWith(e, FALSE, v, ResolveStrictly) = ResolveWith(e, FALSE, w, ResolveStrictly)
  BY <1>2, Zenon
<1> QED BY <1>3, Zenon DEF LenientRound

LEMMA LenientRoundsEnd == \E v : v = LenientRound(v)
<1> DEFINE Fixed(v, d) == \A e \in Shallow(d) : v[e] = LenientRound(v)[e]
           Reached == {d \in Nat : \E v : Fixed(v, d)}
<1>1. 0 \in Reached
  BY ShallowFacts
<1>2. \A d \in Nat : d \in Reached => d + 1 \in Reached
  <2> SUFFICES ASSUME NEW d \in Nat, NEW v, Fixed(v, d)
               PROVE  Fixed(LenientRound(v), d + 1)
    OBVIOUS
  <2> QED BY LenientRoundAgrees, ShallowFacts DEF Shallow, Alike
<1> HIDE DEF Reached
<1>3. MaxDepth + 1 \in Reached
  BY <1>1, <1>2, NaturalsReached, ExpressionsAssumption
<1>4. PICK v : \A e \in Expressions : v[e] = LenientRound(v)[e]
  BY <1>3, ShallowFacts DEF Reached
<1>5. \A e \in Expressions : LenientRound(v)[e] = LenientRound(LenientRound(v))[e]
  BY <1>4, LenientRoundAgrees, ExpressionsAssumption DEF Alike
<1>6. LenientRound(v) = LenientRound(LenientRound(v))
  BY <1>5, Zenon DEF LenientRound
<1> QED BY <1>6, Zenon

LEMMA ResolveUnfolds == Resolve = LenientRound(Resolve)
BY LenientRoundsEnd, Zenon DEF Resolve, LenientRound

(* What was deployed for an expression, form by form. *)
FormedAs(t, e, v, value) ==
  /\ e.fn = "literal" => value = Scalar(e.parts)
  /\ e.fn = "array" => value = Sequence([i \in DOMAIN e.items |-> v[e.items[i]]], TRUE)
  /\ e.fn = "object" => value = Mapping([f \in DOMAIN e.fields |-> v[e.fields[f]]], TRUE)
  /\ e.fn = "ref" => value = IF e.name = "AWS::NoValue" THEN NoValue
                             ELSE AsDeclared(GivenText(t, e.name), e.name \in t.listTyped)
  /\ e.fn = "if" => value = IF t.truth[e.condition] THEN v[e.yes] ELSE v[e.no]
  /\ e.fn = "find" => value = IF Stringify(v[e.key]) \in DOMAIN t.mappings
                              THEN Scalar(t.mappings[Stringify(v[e.key])])
                              ELSE v[e.default]
  /\ e.fn = "select" => value = v[e.of].v[e.index + 1]
  /\ e.fn = "join" => value = Scalar(Stringify(v[e.of]))
  /\ e.fn = "split" => value = Texts(Stringify(v[e.of]))

LEMMA DeployForms ==
  ASSUME NEW t, NEW e, NEW v,
         NEW value, value = DeployWith(t, e, v)
  PROVE  FormedAs(t, e, v, value)
<1>1. /\ e.fn = "literal" => value = Scalar(e.parts)
      /\ e.fn = "array" => value = Sequence([i \in DOMAIN e.items |-> v[e.items[i]]], TRUE)
      /\ e.fn = "object" => value = Mapping([f \in DOMAIN e.fields |-> v[e.fields[f]]], TRUE)
  BY Zenon DEF DeployWith
<1>2. e.fn = "ref" => value = IF e.name = "AWS::NoValue" THEN NoValue
                              ELSE AsDeclared(GivenText(t, e.name), e.name \in t.listTyped)
  BY Zenon DEF DeployWith
<1>3. /\ e.fn = "if" => value = IF t.truth[e.condition] THEN v[e.yes] ELSE v[e.no]
      /\ e.fn = "find" => value = IF Stringify(v[e.key]) \in DOMAIN t.mappings
                                  THEN Scalar(t.mappings[Stringify(v[e.key])])
                                  ELSE v[e.default]
  BY Zenon DEF DeployWith
<1>4. /\ e.fn = "select" => value = v[e.of].v[e.index + 1]
      /\ e.fn = "join" => value = Scalar(Stringify(v[e.of]))
      /\ e.fn = "split" => value = Texts(Stringify(v[e.of]))
  BY Zenon DEF DeployWith
<1> QED BY <1>1, <1>2, <1>3, <1>4, Zenon DEF FormedAs

LEMMA DeployCongruence ==
  ASSUME NEW t, NEW e, e.fn \in Forms, NEW v, NEW w, Alike(e, v, w)
  PROVE  DeployWith(t, e, v) = DeployWith(t, e, w)
<1>1. CASE e.fn = "array"
  <2>1. [i \in DOMAIN e.items |-> v[e.items[i]]] = [i \in DOMAIN e.items |-> w[e.items[i]]]
    BY <1>1, Members DEF Alike
  <2>2. /\ DeployWith(t, e, v) = Sequence([i \in DOMAIN e.items |-> v[e.items[i]]], TRUE)
        /\ DeployWith(t, e, w) = Sequence([i \in DOMAIN e.items |-> w[e.items[i]]], TRUE)
    BY <1>1, Zenon DEF DeployWith
  <2> QED BY <2>1, <2>2, Zenon
<1>2. CASE e.fn = "object"
  <2>1. [f \in DOMAIN e.fields |-> v[e.fields[f]]] = [f \in DOMAIN e.fields |-> w[e.fields[f]]]
    BY <1>2, Members DEF Alike
  <2>2. /\ DeployWith(t, e, v) = Mapping([f \in DOMAIN e.fields |-> v[e.fields[f]]], TRUE)
        /\ DeployWith(t, e, w) = Mapping([f \in DOMAIN e.fields |-> w[e.fields[f]]], TRUE)
    BY <1>2, Zenon DEF DeployWith
  <2> QED BY <2>1, <2>2, Zenon
<1>3. CASE e.fn \in {"literal", "ref", "runtime", "dynamic"}
  BY <1>3, Zenon DEF DeployWith
<1>4. CASE e.fn = "if"
  <2>1. v[e.yes] = w[e.yes] /\ v[e.no] = w[e.no]
    BY <1>4, PartsAre DEF Alike
  <2> QED BY <1>4, <2>1 DEF DeployWith
<1>5. CASE e.fn = "find"
  <2>1. v[e.key] = w[e.key] /\ v[e.default] = w[e.default]
    BY <1>5, PartsAre DEF Alike
  <2> QED BY <1>5, <2>1 DEF DeployWith
<1>6. CASE e.fn \in {"select", "join", "split"}
  <2>1. v[e.of] = w[e.of]
    BY <1>6, PartsAre DEF Alike
  <2> QED BY <1>6, <2>1 DEF DeployWith
<1> QED BY <1>1, <1>2, <1>3, <1>4, <1>5, <1>6 DEF Forms

(* One round of what CloudFormation makes of expressions. *)
DeployRound(t, v) == [e \in Expressions |-> DeployWith(t, e, v)]

LEMMA DeployRoundAgrees ==
  ASSUME NEW t, NEW v, NEW w, NEW e \in Expressions, Alike(e, v, w)
  PROVE  DeployRound(t, v)[e] = DeployRound(t, w)[e]
<1>1. e.fn \in Forms
  BY ExpressionsAssumption
<1>2. DeployWith(t, e, v) = DeployWith(t, e, w)
  BY <1>1, DeployCongruence
<1> QED BY <1>2, Zenon DEF DeployRound

LEMMA DeployRoundsEnd == ASSUME NEW t PROVE \E v : v = DeployRound(t, v)
<1> DEFINE Fixed(v, d) == \A e \in Shallow(d) : v[e] = DeployRound(t, v)[e]
           Reached == {d \in Nat : \E v : Fixed(v, d)}
<1>1. 0 \in Reached
  BY ShallowFacts
<1>2. \A d \in Nat : d \in Reached => d + 1 \in Reached
  <2> SUFFICES ASSUME NEW d \in Nat, NEW v, Fixed(v, d)
               PROVE  Fixed(DeployRound(t, v), d + 1)
    OBVIOUS
  <2> QED BY DeployRoundAgrees, ShallowFacts DEF Shallow, Alike
<1> HIDE DEF Reached
<1>3. MaxDepth + 1 \in Reached
  BY <1>1, <1>2, NaturalsReached, ExpressionsAssumption
<1>4. PICK v : \A e \in Expressions : v[e] = DeployRound(t, v)[e]
  BY <1>3, ShallowFacts DEF Reached
<1>5. \A e \in Expressions : DeployRound(t, v)[e] = DeployRound(t, DeployRound(t, v))[e]
  <2> SUFFICES ASSUME NEW e \in Expressions
               PROVE  DeployRound(t, v)[e] = DeployRound(t, DeployRound(t, v))[e]
    OBVIOUS
  <2> DEFINE w == DeployRound(t, v)
  <2>1. Alike(e, v, w)
    BY <1>4, ExpressionsAssumption DEF Alike
  <2> HIDE DEF w
  <2> QED BY <2>1, DeployRoundAgrees DEF w
<1>6. DeployRound(t, v) = DeployRound(t, DeployRound(t, v))
  BY <1>5, Zenon DEF DeployRound
<1> QED BY <1>6, Zenon

LEMMA DeployedUnfolds == ASSUME NEW t PROVE Deployed(t) = DeployRound(t, Deployed(t))
BY DeployRoundsEnd, Zenon DEF Deployed, DeployRound

(* One round of the failures of expressions. *)
SinkRound(v) == [e \in Expressions |-> SinkWith(e, v)]

LEMMA SinkRoundAgrees ==
  ASSUME NEW v, NEW w, NEW e \in Expressions, Alike(e, v, w)
  PROVE  SinkRound(v)[e] = SinkRound(w)[e]
<1>1. UNION {v[part] : part \in Parts(e)} = UNION {w[part] : part \in Parts(e)}
  BY DEF Alike
<1>2. SinkWith(e, v) = SinkWith(e, w)
  BY <1>1, Zenon DEF SinkWith
<1> QED BY <1>2, Zenon DEF SinkRound

LEMMA SinkRoundsEnd == \E v : v = SinkRound(v)
<1> DEFINE Fixed(v, d) == \A e \in Shallow(d) : v[e] = SinkRound(v)[e]
           Reached == {d \in Nat : \E v : Fixed(v, d)}
<1>1. 0 \in Reached
  BY ShallowFacts
<1>2. \A d \in Nat : d \in Reached => d + 1 \in Reached
  <2> SUFFICES ASSUME NEW d \in Nat, NEW v, Fixed(v, d)
               PROVE  Fixed(SinkRound(v), d + 1)
    OBVIOUS
  <2> QED BY SinkRoundAgrees, ShallowFacts DEF Shallow, Alike
<1> HIDE DEF Reached
<1>3. MaxDepth + 1 \in Reached
  BY <1>1, <1>2, NaturalsReached, ExpressionsAssumption
<1>4. PICK v : \A e \in Expressions : v[e] = SinkRound(v)[e]
  BY <1>3, ShallowFacts DEF Reached
<1>5. \A e \in Expressions : SinkRound(v)[e] = SinkRound(SinkRound(v))[e]
  BY <1>4, SinkRoundAgrees, ExpressionsAssumption DEF Alike
<1>6. SinkRound(v) = SinkRound(SinkRound(v))
  BY <1>5, Zenon DEF SinkRound
<1> QED BY <1>6, Zenon

LEMMA SinkUnfolds == Sink = SinkRound(Sink)
BY SinkRoundsEnd, Zenon DEF Sink, SinkRound

(* One round of the texts that stand in for others. *)
StandInsRound(v) == [e \in Expressions |-> StandInsWith(e, v)]

LEMMA StandInsRoundAgrees ==
  ASSUME NEW v, NEW w, NEW e \in Expressions, Alike(e, v, w)
  PROVE  StandInsRound(v)[e] = StandInsRound(w)[e]
<1>1. UNION {v[part] : part \in Parts(e)} = UNION {w[part] : part \in Parts(e)}
  BY DEF Alike
<1>2. e.fn = "if" => v[e.yes] = w[e.yes] /\ v[e.no] = w[e.no]
  BY PartsAre DEF Alike
<1>3. StandInsWith(e, v) = StandInsWith(e, w)
  <2>1. CASE e.fn = "if"
    BY <1>2, <2>1 DEF StandInsWith
  <2>2. CASE e.fn # "if"
    BY <1>1, <2>2, Zenon DEF StandInsWith
  <2> QED BY <2>1, <2>2
<1> QED BY <1>3, Zenon DEF StandInsRound

LEMMA StandInsRoundsEnd == \E v : v = StandInsRound(v)
<1> DEFINE Fixed(v, d) == \A e \in Shallow(d) : v[e] = StandInsRound(v)[e]
           Reached == {d \in Nat : \E v : Fixed(v, d)}
<1>1. 0 \in Reached
  BY ShallowFacts
<1>2. \A d \in Nat : d \in Reached => d + 1 \in Reached
  <2> SUFFICES ASSUME NEW d \in Nat, NEW v, Fixed(v, d)
               PROVE  Fixed(StandInsRound(v), d + 1)
    OBVIOUS
  <2> QED BY StandInsRoundAgrees, ShallowFacts DEF Shallow, Alike
<1> HIDE DEF Reached
<1>3. MaxDepth + 1 \in Reached
  BY <1>1, <1>2, NaturalsReached, ExpressionsAssumption
<1>4. PICK v : \A e \in Expressions : v[e] = StandInsRound(v)[e]
  BY <1>3, ShallowFacts DEF Reached
<1>5. \A e \in Expressions : StandInsRound(v)[e] = StandInsRound(StandInsRound(v))[e]
  BY <1>4, StandInsRoundAgrees, ExpressionsAssumption DEF Alike
<1>6. StandInsRound(v) = StandInsRound(StandInsRound(v))
  BY <1>5, Zenon DEF StandInsRound
<1> QED BY <1>6, Zenon

LEMMA StandInsUnfolds == StandIns = StandInsRound(StandIns)
BY StandInsRoundsEnd, Zenon DEF StandIns, StandInsRound

(* Where none stands in for an expression, none does for what it is of.    *)
LEMMA ClearForms ==
  ASSUME NEW e, NEW v, StandInsWith(e, v) = {}
  PROVE  /\ e.fn # "dynamic"
         /\ e.fn = "ref" => ~StandInRef(e.name)
         /\ e.fn = "if" => v[IF template.truth[e.condition] THEN e.yes ELSE e.no] = {}
         /\ e.fn \notin {"ref", "if"} => \A part \in Parts(e) : v[part] = {}
<1>1. e.fn = "dynamic" => StandInsWith(e, v) = {e}
  BY Zenon DEF StandInsWith
<1>2. e.fn = "ref" => StandInsWith(e, v) = IF StandInRef(e.name) THEN {e} ELSE {}
  BY Zenon DEF StandInsWith
<1>3. e.fn = "if" =>
        StandInsWith(e, v) = v[IF template.truth[e.condition] THEN e.yes ELSE e.no]
  BY Zenon DEF StandInsWith
<1>4. e.fn \notin {"dynamic", "ref", "if"} =>
        StandInsWith(e, v) = UNION {v[part] : part \in Parts(e)}
  BY Zenon DEF StandInsWith
<1>5. e.fn # "dynamic"
  BY <1>1
<1>6. e.fn = "ref" => ~StandInRef(e.name)
  BY <1>2, Zenon
<1>7. e.fn \notin {"ref", "if"} => \A part \in Parts(e) : v[part] = {}
  <2>1. e.fn \notin {"ref", "if"} => UNION {v[part] : part \in Parts(e)} = {}
    BY <1>4, <1>5
  <2> QED BY <2>1
<1> QED BY <1>3, <1>5, <1>6, <1>7, Zenon

(***************************************************************************)
(* Values                                                                  *)
(***************************************************************************)

(* The sequences of a sequence are put together. *)
LEMMA FlattenInSeq ==
  ASSUME NEW S, NEW seqs \in Seq(Seq(S))
  PROVE  FlattenSeq(seqs) \in Seq(S)
<1> DEFINE N == Len(seqs)
           Joined(f, i) == IF i = 1 THEN seqs[i] ELSE f[i - 1] \o seqs[i]
           Built(f, n) == \A i \in 1..n : f[i] = Joined(f, i)
           Reached == {n \in Nat : n <= N => \E f : Built(f, n)}
<1>1. N \in Nat /\ \A i \in 1..N : seqs[i] \in Seq(S)
  OBVIOUS
<1>2. CASE N = 0
  <2>1. FlattenSeq(seqs) = seqs
    BY <1>2, Zenon DEF FlattenSeq
  <2> QED BY <1>2, <2>1
<1>3. CASE N # 0
  <2>1. 0 \in Reached
    OBVIOUS
  <2>2. \A n \in Nat : n \in Reached => n + 1 \in Reached
    <3>1. ASSUME NEW n \in Nat, NEW f, Built(f, n)
          PROVE  \E g : Built(g, n + 1)
      <4> DEFINE g == [i \in 1..(n + 1) |-> IF i = n + 1 THEN Joined(f, i) ELSE f[i]]
      <4>1. Built(g, n + 1)
        BY <3>1
      <4> QED BY <4>1
    <3>2. \A n \in Nat : n + 1 <= N => n <= N
      BY <1>1
    <3> HIDE DEF Built, N
    <3> QED BY <3>1, <3>2
  <2> HIDE DEF Reached
  <2>3. N \in Reached
    BY <1>1, <2>1, <2>2, NaturalsReached
  <2>4. PICK f : Built(f, N)
    <3> HIDE DEF Built, N
    <3> QED BY <1>1, <2>3 DEF Reached
  <2> DEFINE fixed == [i \in 1..N |-> f[i]]
             flat == CHOOSE g : g = [i \in 1..N |-> Joined(g, i)]
  <2>5. fixed = [i \in 1..N |-> Joined(fixed, i)]
    BY <1>1, <2>4
  <2>6. flat = [i \in 1..N |-> Joined(flat, i)]
    <3> HIDE DEF fixed, N
    <3> QED BY <2>5, Zenon
  <2>7. FlattenSeq(seqs) = flat[N]
    BY <1>3, Zenon DEF FlattenSeq
  <2> HIDE DEF flat
  <2> DEFINE Typed == {n \in Nat : n \in 1..N => flat[n] \in Seq(S)}
  <2>8. 0 \in Typed
    OBVIOUS
  <2>9. \A n \in Nat : n \in Typed => n + 1 \in Typed
    <3> SUFFICES ASSUME NEW n \in Nat, n + 1 \in 1..N, n \in 1..N => flat[n] \in Seq(S)
                 PROVE  flat[n + 1] \in Seq(S)
      BY <1>1
    <3>1. flat[n + 1] = Joined(flat, n + 1)
      BY <2>6
    <3>3. n + 1 # 1 => n \in 1..N
      BY <1>1
    <3>2. seqs[n + 1] \in Seq(S)
      BY <1>1
    <3> QED BY <3>1, <3>2, <3>3
  <2> HIDE DEF Typed
  <2>10. N \in Typed
    BY <1>1, <2>8, <2>9, NaturalsReached
  <2> QED BY <1>1, <1>3, <2>7, <2>10 DEF Typed
<1> QED BY <1>2, <1>3

(* All strings; the provers do not see that STRING has this one. *)
Words == STRING \cup {"object"}

LEMMA SeqMore == ASSUME NEW S, NEW T, S \subseteq T PROVE Seq(S) \subseteq Seq(T)
OBVIOUS

LEMMA WordsFacts == "object" \in Words /\ Seq(STRING) \subseteq Seq(Words)
BY SeqMore DEF Words

LEMMA SingletonSeq == ASSUME NEW S, NEW x \in S PROVE <<x>> \in Seq(S)
OBVIOUS

(* Keeping one, or none, of each of a sequence. *)
LEMMA KeptSeq ==
  ASSUME NEW S, NEW n \in Nat, NEW kept, DOMAIN kept = 1..n, kept = [i \in 1..n |-> kept[i]],
         \A i \in 1..n : kept[i] \in S
  PROVE  kept \in Seq(S)
OBVIOUS

(* A set of values in which lists are of present values of the set. *)
Present(V) == {x \in V : IsPresent(x)}

Fits(y, V) ==
  /\ y.text \in Seq(Words)
  /\ y.kind = "list" => y.v \in Seq(Present(V))
  /\ y.kind = "novalue" => y = NoValue

Proper(V) == \A y \in V : Fits(y, V)

Good(x) == \E V : x \in V /\ Proper(V)

LEMMA FitsMore ==
  ASSUME NEW V, NEW W, V \subseteq W, NEW y, Fits(y, V)
  PROVE  Fits(y, W)
<1>1. Present(V) \subseteq Present(W)
  BY DEF Present
<1>2. y.kind = "list" => y.v \in Seq(Present(W))
  BY <1>1 DEF Fits
<1> QED BY <1>2 DEF Fits

LEMMA OneIsGood ==
  ASSUME NEW x, Fits(x, {x})
  PROVE  Good(x)
BY Zenon DEF Good, Proper

LEMMA SimpleGood ==
  /\ \A parts \in Seq(Words) : Good(Scalar(parts)) /\ IsPresent(Scalar(parts))
  /\ \A fields : Good(Object(fields)) /\ IsPresent(Object(fields))
  /\ Good(NoValue) /\ Good(Unresolved)
<1>1. ASSUME NEW parts \in Seq(Words) PROVE Good(Scalar(parts)) /\ IsPresent(Scalar(parts))
  <2>1. Fits(Scalar(parts), {Scalar(parts)}) /\ IsPresent(Scalar(parts))
    BY DEF Fits, Scalar, IsPresent
  <2> QED BY <2>1, OneIsGood
<1>2. ASSUME NEW fields PROVE Good(Object(fields)) /\ IsPresent(Object(fields))
  <2>1. Object(fields).text = <<"object">> /\ Object(fields).kind = "object"
    BY DEF Object
  <2>2. <<"object">> \in Seq(Words)
    BY WordsFacts, SingletonSeq, Zenon
  <2>3. Fits(Object(fields), {Object(fields)}) /\ IsPresent(Object(fields))
    BY <2>1, <2>2 DEF Fits, IsPresent
  <2> QED BY <2>3, OneIsGood
<1>3. <<>> \in Seq(Words)
  OBVIOUS
<1>4. Good(NoValue)
  <2>1. NoValue.text = <<>> /\ NoValue.kind = "novalue"
    BY DEF NoValue
  <2>2. Fits(NoValue, {NoValue})
    BY <1>3, <2>1 DEF Fits
  <2> QED BY <2>2, OneIsGood
<1>5. Good(Unresolved)
  <2>1. Unresolved.text = <<>> /\ Unresolved.kind = "unresolved"
    BY DEF Unresolved
  <2>2. Fits(Unresolved, {Unresolved})
    BY <1>3, <2>1 DEF Fits
  <2> QED BY <2>2, OneIsGood
<1> QED BY <1>1, <1>2, <1>4, <1>5

LEMMA ListGood ==
  ASSUME NEW U, \A x \in U : Good(x) /\ IsPresent(x), NEW items \in Seq(U)
  PROVE  Good(List(items)) /\ IsPresent(List(items))
<1> DEFINE within(x) == CHOOSE V : x \in V /\ Proper(V)
           V == (UNION {within(x) : x \in U}) \cup {List(items)}
<1>1. \A x \in U : x \in within(x) /\ Proper(within(x))
  BY Zenon DEF Good
<1> HIDE DEF within
<1>2. [i \in DOMAIN items |-> items[i].text] \in Seq(Seq(Words))
  <2>1. \A x \in U : x.text \in Seq(Words)
    BY <1>1 DEF Proper, Fits
  <2> DEFINE texts == [i \in DOMAIN items |-> items[i].text]
  <2>2. /\ Len(items) \in Nat /\ DOMAIN texts = 1..Len(items)
        /\ texts = [i \in 1..Len(items) |-> texts[i]]
        /\ \A i \in 1..Len(items) : texts[i] \in Seq(Words)
    BY <2>1
  <2> HIDE DEF texts
  <2>3. texts \in Seq(Seq(Words))
    BY <2>2, KeptSeq
  <2> QED BY <2>3 DEF texts
<1>3. List(items).text \in Seq(Words)
  BY <1>2, FlattenInSeq DEF List
<1>4. List(items).kind = "list" /\ List(items).v = items
  BY DEF List
<1>5. U \subseteq V /\ \A x \in U : within(x) \subseteq V
  BY <1>1
<1>6. \A y \in V : y = List(items) \/ \E x \in U : y \in within(x)
  OBVIOUS
<1>7. List(items) \in V
  OBVIOUS
<1> HIDE DEF V
<1>8. Fits(List(items), V)
  <2>1. U \subseteq Present(V)
    BY <1>5 DEF Present
  <2>2. items \in Seq(Present(V))
    BY <2>1
  <2> QED BY <1>3, <1>4, <2>2 DEF Fits
<1>9. \A x \in U : \A y \in within(x) : Fits(y, V)
  BY <1>1, <1>5, FitsMore DEF Proper
<1>10. Proper(V)
  BY <1>6, <1>8, <1>9 DEF Proper
<1> QED BY <1>4, <1>7, <1>10 DEF Good, IsPresent

LEMMA TextsGood ==
  ASSUME NEW parts \in Seq(Words)
  PROVE  Good(Texts(parts)) /\ IsPresent(Texts(parts))
<1> DEFINE U == {Scalar(<<x>>) : x \in Words}
<1>1. \A x \in Words : <<x>> \in Seq(Words)
  BY SingletonSeq
<1>2. \A x \in U : Good(x) /\ IsPresent(x)
  BY <1>1, SimpleGood
<1>3. [i \in DOMAIN parts |-> Scalar(<<parts[i]>>)] \in Seq(U)
  OBVIOUS
<1> HIDE DEF U
<1>4. /\ Good(List([i \in DOMAIN parts |-> Scalar(<<parts[i]>>)]))
      /\ IsPresent(List([i \in DOMAIN parts |-> Scalar(<<parts[i]>>)]))
  BY <1>2, <1>3, ListGood
<1> QED BY <1>4, Zenon DEF Texts

(* Numbers are written as text again. *)
LEMMA RewrittenFacts ==
  ASSUME NEW parts \in Seq(STRING)
  PROVE  /\ [i \in DOMAIN parts |-> Rewritten(parts[i])] \in Seq(STRING)
         /\ (\A i \in DOMAIN parts : parts[i] \notin DOMAIN Canonical) =>
              [i \in DOMAIN parts |-> Rewritten(parts[i])] = parts
<1> DEFINE written == [i \in DOMAIN parts |-> Rewritten(parts[i])]
<1>1. \A text \in STRING : Rewritten(text) \in STRING
  BY CanonicalAssumption DEF Rewritten
<1>2. /\ Len(parts) \in Nat /\ DOMAIN parts = 1..Len(parts)
      /\ \A i \in 1..Len(parts) : parts[i] \in STRING
      /\ parts = [i \in 1..Len(parts) |-> parts[i]]
  OBVIOUS
<1>3. DOMAIN written = 1..Len(parts) /\ written = [i \in 1..Len(parts) |-> written[i]]
  BY <1>2
<1>4. \A i \in 1..Len(parts) : written[i] \in STRING
  BY <1>1, <1>2
<1>5. ASSUME \A i \in DOMAIN parts : parts[i] \notin DOMAIN Canonical
      PROVE  written = parts
  <2>1. \A i \in DOMAIN parts : Rewritten(parts[i]) = parts[i]
    BY <1>5 DEF Rewritten
  <2> QED BY <1>2, <2>1
<1> HIDE DEF written
<1>6. written \in Seq(STRING)
  BY <1>2, <1>3, <1>4, KeptSeq
<1> QED BY <1>5, <1>6 DEF written

LEMMA CoerceGood ==
  ASSUME NEW parts \in Seq(STRING), NEW isList, NEW isNumber
  PROVE  /\ Good(Coerce(parts, isList, isNumber))
         /\ IsPresent(Coerce(parts, isList, isNumber))
<1> DEFINE written == IF isNumber THEN [i \in DOMAIN parts |-> Rewritten(parts[i])] ELSE parts
<1>1. [i \in DOMAIN parts |-> Rewritten(parts[i])] \in Seq(STRING)
  BY RewrittenFacts
<1>2. written \in Seq(STRING)
  BY <1>1, Zenon
<1>3. Coerce(parts, isList, isNumber) = AsDeclared(written, isList)
  BY Zenon DEF Coerce
<1> HIDE DEF written
<1>4. written \in Seq(Words)
  BY <1>2, WordsFacts
<1>5. AsDeclared(written, isList) \in {Texts(written), Scalar(written)}
  BY DEF AsDeclared
<1> QED BY <1>3, <1>4, <1>5, TextsGood, SimpleGood

LEMMA SequenceGood ==
  ASSUME NEW U, \A x \in U : Good(x), NEW items \in Seq(U), NEW strict
  PROVE  Good(Sequence(items, strict))
<1> DEFINE kept == [i \in DOMAIN items |->
                      IF IsPresent(items[i]) THEN <<items[i]>> ELSE <<>>]
<1>1. kept \in Seq(Seq(Present(U)))
  <2>1. \A x \in U : (IF IsPresent(x) THEN <<x>> ELSE <<>>) \in Seq(Present(U))
    <3> SUFFICES ASSUME NEW x \in U
                 PROVE  (IF IsPresent(x) THEN <<x>> ELSE <<>>) \in Seq(Present(U))
      OBVIOUS
    <3>1. IsPresent(x) => x \in Present(U)
      BY DEF Present
    <3>2. IsPresent(x) => <<x>> \in Seq(Present(U))
      BY <3>1
    <3>3. <<>> \in Seq(Present(U))
      OBVIOUS
    <3> QED BY <3>2, <3>3
  <2>2. \A i \in 1..Len(items) : kept[i] \in Seq(Present(U))
    BY <2>1
  <2>3. kept = [i \in 1..Len(items) |-> kept[i]] /\ Len(items) \in Nat
    OBVIOUS
  <2> HIDE DEF kept
  <2> QED BY <2>2, <2>3
<1> HIDE DEF kept
<1>2. FlattenSeq(kept) \in Seq(Present(U))
  BY <1>1, FlattenInSeq
<1>3. Good(List(FlattenSeq(kept)))
  BY <1>2, ListGood DEF Present
<1> QED BY <1>3, SimpleGood, Zenon DEF Sequence, kept

LEMMA SelectGood ==
  ASSUME NEW value, Good(value), value.kind = "list", NEW index \in Nat
  PROVE  /\ Len(value.v) \in Nat
         /\ Good(SelectItem(value.v, index))
         /\ \/ SelectItem(value.v, index) = Unresolved
            \/ SelectItem(value.v, index) = value.v[index + 1]
<1>1. PICK V : value \in V /\ Proper(V)
  BY DEF Good
<1> DEFINE items == value.v
<1>2. items \in Seq(Present(V))
  BY <1>1 DEF Proper, Fits
<1> HIDE DEF items
<1>3. Len(items) \in Nat /\ \A i \in 1..Len(items) : items[i] \in V
  BY <1>2 DEF Present
<1>4. SelectItem(items, index) = IF index \in 0..(Len(items) - 1) THEN items[index + 1]
                                                                ELSE Unresolved
  BY <1>3 DEF SelectItem
<1>5. \/ SelectItem(items, index) = Unresolved
      \/ SelectItem(items, index) = items[index + 1] /\ items[index + 1] \in V
  BY <1>3, <1>4
<1> QED BY <1>1, <1>3, <1>5, SimpleGood DEF Good, items
LEMMA GoodText == ASSUME NEW x, Good(x) PROVE x.text \in Seq(Words)
BY DEF Good, Proper, Fits

LEMMA ParameterTextType ==
  ASSUME NEW t \in Templates, NEW p \in Parameters(t)
  PROVE  ParameterText(t, p) \in Seq(STRING)
BY ResourcesAssumption DEF Parameters, ParameterText

LEMMA ParameterGood ==
  ASSUME NEW t \in Templates, NEW p \in DOMAIN ParameterValues(t)
  PROVE  Good(ParameterValues(t)[p]) /\ IsPresent(ParameterValues(t)[p])
<1> DEFINE text == ParameterText(t, p)
           isList == p \in t.listTyped
           isNumber == p \in t.numberTyped
<1>1. p \in Parameters(t) /\ ParameterValues(t)[p] = Coerce(text, isList, isNumber)
  BY DEF ParameterValues
<1>2. text \in Seq(STRING)
  BY <1>1, ParameterTextType
<1> HIDE DEF text, isList, isNumber
<1> QED BY <1>1, <1>2, CoerceGood

(* What is made of good values is good. *)
LEMMA ResolveGood ==
  ASSUME template \in Templates, NEW e \in Expressions, NEW strict, NEW member, NEW whole,
         \A part \in Parts(e) : Good(member[part]) /\ Good(whole[part])
  PROVE  Good(ResolveWith(e, strict, member, whole))
<1> DEFINE value == ResolveWith(e, strict, member, whole)
<1>0. value = ResolveWith(e, strict, member, whole)
  OBVIOUS
<1> HIDE DEF value
<1>00. Formed(e, strict, member, whole, value)
  BY <1>0, ResolveForms
<1>1. CASE e.fn = "literal"
  <2>1. value = Scalar(e.parts)
    BY <1>00, <1>1, Zenon DEF Formed
  <2>2. e.parts \in Seq(Words)
    BY <1>1, ExpressionsAssumption, WordsFacts
  <2> QED BY <1>0, <2>1, <2>2, SimpleGood
<1>2. CASE e.fn = "array"
  <2> DEFINE items == [i \in DOMAIN e.items |-> member[e.items[i]]]
             U == {member[part] : part \in Parts(e)}
  <2>1. value = Sequence(items, strict)
    BY <1>00, <1>2, Zenon DEF Formed
  <2>2. /\ Len(e.items) \in Nat /\ DOMAIN items = 1..Len(e.items)
        /\ items = [i \in 1..Len(e.items) |-> items[i]]
        /\ \A i \in 1..Len(e.items) : items[i] \in U
    BY <1>2, ExpressionsAssumption, Members
  <2>3. \A x \in U : Good(x)
    OBVIOUS
  <2> HIDE DEF items, U
  <2>4. items \in Seq(U)
    BY <2>2, KeptSeq
  <2> QED BY <1>0, <2>1, <2>3, <2>4, SequenceGood
<1>3. CASE e.fn = "object"
  <2> DEFINE fields == [f \in DOMAIN e.fields |-> member[e.fields[f]]]
  <2>1. value = Mapping(fields, strict)
    BY <1>00, <1>3, Zenon DEF Formed
  <2> HIDE DEF fields
  <2>2. value = Unresolved \/ \E kept : value = Object(kept)
    BY <2>1, Zenon DEF Mapping
  <2> QED BY <1>0, <2>2, SimpleGood
<1>4. CASE e.fn = "ref"
  <2>1. value = RefValue(e.name)
    BY <1>00, <1>4, Zenon DEF Formed
  <2> QED BY <1>0, <2>1, ParameterGood, SimpleGood DEF RefValue
<1>5. CASE e.fn = "runtime"
  <2>1. value = Unresolved
    BY <1>00, <1>5, Zenon DEF Formed
  <2> QED BY <1>0, <2>1, SimpleGood
<1>11. CASE e.fn = "dynamic"
  <2>1. value = whole[e.of]
    BY <1>00, <1>11, Zenon DEF Formed
  <2>2. Good(whole[e.of])
    BY <1>11, PartsAre
  <2> QED BY <1>0, <2>1, <2>2
<1>6. CASE e.fn = "if"
  <2>1. value = whole[e.yes] \/ value = whole[e.no] \/ value = Unresolved
    BY <1>00, <1>6, Zenon DEF Formed
  <2>2. Good(whole[e.yes]) /\ Good(whole[e.no])
    BY <1>6, PartsAre
  <2> QED BY <1>0, <2>1, <2>2, SimpleGood
<1>7. CASE e.fn = "find"
  <2> DEFINE key == Stringify(whole[e.key])
  <2>1. \/ value = Unresolved
        \/ key \in DOMAIN template.mappings /\ value = Scalar(template.mappings[key])
        \/ value = whole[e.default]
    BY <1>00, <1>7, Zenon DEF Formed
  <2>2. Good(whole[e.default])
    BY <1>7, PartsAre
  <2> HIDE DEF key
  <2>3. key \in DOMAIN template.mappings => template.mappings[key] \in Seq(Words)
    BY ResourcesAssumption, WordsFacts
  <2> QED BY <1>0, <2>1, <2>2, <2>3, SimpleGood
<1>8. CASE e.fn = "select"
  <2>1. value = Unresolved \/ /\ whole[e.of].kind = "list"
                              /\ value = SelectItem(whole[e.of].v, e.index)
    BY <1>00, <1>8, Zenon DEF Formed
  <2>2. Good(whole[e.of]) /\ e.index \in Nat
    BY <1>8, PartsAre, ExpressionsAssumption
  <2> QED BY <1>0, <2>1, <2>2, SelectGood, SimpleGood
<1>9. CASE e.fn = "join"
  <2>1. value = Unresolved \/ value = Scalar(Stringify(whole[e.of]))
    BY <1>00, <1>9, Zenon DEF Formed
  <2>2. Stringify(whole[e.of]) \in Seq(Words)
    BY <1>9, PartsAre, GoodText DEF Stringify
  <2> QED BY <1>0, <2>1, <2>2, SimpleGood
<1>10. CASE e.fn = "split"
  <2>1. value = Unresolved \/ value = Texts(Stringify(whole[e.of]))
    BY <1>00, <1>10, Zenon DEF Formed
  <2>2. Stringify(whole[e.of]) \in Seq(Words)
    BY <1>10, PartsAre, GoodText DEF Stringify
  <2>3. Good(Texts(Stringify(whole[e.of])))
    BY <2>2, TextsGood
  <2> QED BY <1>0, <2>1, <2>3, SimpleGood
<1> QED BY <1>1, <1>2, <1>3, <1>4, <1>5, <1>6, <1>7, <1>8, <1>9, <1>10, <1>11,
           ExpressionsAssumption DEF Forms

LEMMA StrictlyIsRound ==
  ASSUME NEW e \in Expressions
  PROVE  ResolveStrictly[e] = ResolveWith(e, TRUE, ResolveStrictly, ResolveStrictly)
BY ResolveStrictlyUnfolds, Zenon DEF StrictRound

LEMMA ResolveIsRound ==
  ASSUME NEW e \in Expressions
  PROVE  Resolve[e] = ResolveWith(e, FALSE, Resolve, ResolveStrictly)
BY ResolveUnfolds, Zenon DEF LenientRound

LEMMA DeployedIsRound ==
  ASSUME NEW t, NEW e \in Expressions
  PROVE  Deployed(t)[e] = DeployWith(t, e, Deployed(t))
BY DeployedUnfolds, Zenon DEF DeployRound

LEMMA SinkIsRound ==
  ASSUME NEW e \in Expressions
  PROVE  Sink[e] = SinkWith(e, Sink)
BY SinkUnfolds, Zenon DEF SinkRound

LEMMA StandInsIsRound ==
  ASSUME NEW e \in Expressions
  PROVE  StandIns[e] = StandInsWith(e, StandIns)
BY StandInsUnfolds, Zenon DEF StandInsRound

LEMMA AllGood ==
  ASSUME template \in Templates
  PROVE  \A e \in Expressions : Good(ResolveStrictly[e]) /\ Good(Resolve[e])
<1> DEFINE S == {e \in Expressions : Good(ResolveStrictly[e])}
           T == {e \in Expressions : Good(Resolve[e])}
<1>1. ASSUME NEW e \in Expressions, Parts(e) \subseteq S PROVE e \in S
  <2>1. \A strict : Good(ResolveWith(e, strict, ResolveStrictly, ResolveStrictly))
    BY <1>1, ResolveGood
  <2>2. Good(ResolveWith(e, TRUE, ResolveStrictly, ResolveStrictly))
    BY <2>1, Zenon
  <2> QED BY <2>2, StrictlyIsRound
<1>2. Expressions \subseteq S
  <2> HIDE DEF S
  <2> QED BY <1>1, DepthInduction
<1>3. ASSUME NEW e \in Expressions, Parts(e) \subseteq T PROVE e \in T
  <2>0. Parts(e) \subseteq Expressions
    BY ExpressionsAssumption
  <2>1. \A strict : Good(ResolveWith(e, strict, Resolve, ResolveStrictly))
    BY <1>2, <1>3, <2>0, ResolveGood
  <2>2. Good(ResolveWith(e, FALSE, Resolve, ResolveStrictly))
    BY <2>1, Zenon
  <2> QED BY <2>2, ResolveIsRound
<1>4. Expressions \subseteq T
  <2> HIDE DEF T
  <2> QED BY <1>3, DepthInduction
<1> QED BY <1>2, <1>4
(***************************************************************************)
(* What is resolved is what was deployed                                   *)
(***************************************************************************)

(* The verdicts on conditions are true.                                    *)
Truthful ==
  \A n \in Nodes : Def(n).op = "ref" =>
    /\ Verdict(n) = "true" => template.truth[n]
    /\ Verdict(n) = "false" => ~template.truth[n]

LEMMA VerdictsAreTruthful ==
  ASSUME template \in Templates, Shape, Sound
  PROVE  Truthful
<1> SUFFICES ASSUME NEW n \in Nodes, Def(n).op = "ref"
             PROVE  /\ Verdict(n) = "true" => template.truth[n]
                    /\ Verdict(n) = "false" => ~template.truth[n]
  BY Zenon DEF Truthful
<1>1. CASE Def(n).name \notin DOMAIN cache
  BY <1>1 DEF Verdict
<1>2. CASE Def(n).name \in DOMAIN cache
  <2>1. Verdict(n) = cache[Def(n).name]
    BY <1>2 DEF Verdict
  <2>2. Def(n).name \in Defined
    BY <1>2 DEF Shape, ConditionTypeOK
  <2>3. template.truth[n] <=> template.truth[Body(Def(n).name)]
    BY <2>2, TruthOfNode
  <2>4. cache[Def(n).name] # "unknown" =>
          Truth(cache[Def(n).name]) = template.truth[Body(Def(n).name)]
    BY <1>2 DEF Sound, VerdictsAreSound
  <2>5. template.truth[Body(Def(n).name)] \in BOOLEAN /\ template.truth[n] \in BOOLEAN
    BY <2>2, TemplateFacts
  <2> QED BY <2>1, <2>3, <2>4, <2>5 DEF Truth
<1> QED BY <1>1, <1>2

LEMMA NotResolved == ~IsResolved(Unresolved)
BY DEF IsResolved, Unresolved

(* A parameter whose text is its own has the value it was deployed with.   *)
LEMMA ParameterIsDeployed ==
  ASSUME template \in Templates, NEW name \in Parameters(template), ~StandInRef(name)
  PROVE  ParameterValues(template)[name]
           = AsDeclared(GivenText(template, name), name \in template.listTyped)
<1> DEFINE text == ParameterText(template, name)
           isList == name \in template.listTyped
           isNumber == name \in template.numberTyped
           written == IF isNumber THEN [i \in DOMAIN text |-> Rewritten(text[i])] ELSE text
<1>1. ParameterValues(template)[name] = AsDeclared(written, isList)
  BY Zenon DEF ParameterValues, Coerce
<1>2. GivenText(template, name) = text
  BY DEF StandInRef, GivenText
<1>3. text \in Seq(STRING)
  BY ParameterTextType
<1>4. isNumber => \A i \in DOMAIN text : text[i] \notin DOMAIN Canonical
  BY Zenon DEF StandInRef
<1> HIDE DEF text, isNumber
<1>5. written = text
  BY <1>3, <1>4, RewrittenFacts
<1> HIDE DEF written, isList
<1>6. ParameterValues(template)[name] = AsDeclared(GivenText(template, name), isList)
  BY <1>1, <1>2, <1>5
<1> QED BY <1>6 DEF isList

(* Strictly, what resolves does so to what was deployed if its parts do.   *)
LEMMA StrictStep ==
  ASSUME template \in Templates, Truthful, NEW e \in Expressions, NEW v, NEW d, NEW s,
         StandInsWith(e, s) = {},
         \A part \in Parts(e) :
           /\ Good(v[part])
           /\ IsResolved(v[part]) /\ s[part] = {} => v[part] = d[part],
         NEW strict, strict,
         NEW value, value = ResolveWith(e, strict, v, v), IsResolved(value)
  PROVE  value = DeployWith(template, e, d)
<1> DEFINE deployed == DeployWith(template, e, d)
<1>1. Formed(e, strict, v, v, value)
  BY ResolveForms
<1>2. FormedAs(template, e, d, deployed)
  BY DeployForms
<1>3. value # Unresolved
  BY NotResolved
<1>15. e.fn \notin {"ref", "if"} =>
        \A part \in Parts(e) :
          Good(v[part]) /\ (IsResolved(v[part]) => v[part] = d[part])
  BY ClearForms
<1> HIDE DEF deployed
<1>4. CASE e.fn = "literal"
  BY <1>1, <1>2, <1>4, Zenon DEF Formed, FormedAs, deployed
<1>5. CASE e.fn = "array"
  <2> DEFINE items == [i \in DOMAIN e.items |-> v[e.items[i]]]
             those == [i \in DOMAIN e.items |-> d[e.items[i]]]
  <2>1. value = Sequence(items, strict) /\ deployed = Sequence(those, TRUE)
    BY <1>1, <1>2, <1>5, Zenon DEF Formed, FormedAs
  <2>2. ~Fails(items, strict)
    <3> HIDE DEF items
    <3> QED BY <1>3, <2>1, Zenon DEF Sequence
  <2>3. items = those
    BY <1>5, <1>15, <2>2, Members DEF Fails
  <2>4. strict = TRUE
    OBVIOUS
  <2> HIDE DEF items, those
  <2> QED BY <2>1, <2>3, <2>4 DEF deployed
<1>6. CASE e.fn = "object"
  <2> DEFINE fields == [f \in DOMAIN e.fields |-> v[e.fields[f]]]
             those == [f \in DOMAIN e.fields |-> d[e.fields[f]]]
  <2>1. value = Mapping(fields, strict) /\ deployed = Mapping(those, TRUE)
    BY <1>1, <1>2, <1>6, Zenon DEF Formed, FormedAs
  <2>2. ~Fails(fields, strict)
    <3> HIDE DEF fields
    <3> QED BY <1>3, <2>1, Zenon DEF Mapping
  <2>3. fields = those
    BY <1>6, <1>15, <2>2, Members DEF Fails
  <2>4. strict = TRUE
    OBVIOUS
  <2> HIDE DEF fields, those
  <2> QED BY <2>1, <2>3, <2>4 DEF deployed
<1>7. CASE e.fn = "ref"
  <2>1. value = RefValue(e.name)
    BY <1>1, <1>7, Zenon DEF Formed
  <2>2. deployed = IF e.name = "AWS::NoValue" THEN NoValue
                   ELSE AsDeclared(GivenText(template, e.name), e.name \in template.listTyped)
    BY <1>2, <1>7, Zenon DEF FormedAs
  <2>3. ~StandInRef(e.name) /\ DOMAIN ParameterValues(template) = Parameters(template)
    BY <1>7, ClearForms DEF ParameterValues
  <2>4. CASE e.name = "AWS::NoValue"
    BY <2>1, <2>2, <2>4, Zenon DEF RefValue, deployed
  <2>5. CASE e.name # "AWS::NoValue"
    <3>1. /\ e.name \in Parameters(template)
          /\ value = ParameterValues(template)[e.name]
      BY <1>3, <2>1, <2>3, <2>5, Zenon DEF RefValue
    <3>2. ParameterValues(template)[e.name]
            = AsDeclared(GivenText(template, e.name), e.name \in template.listTyped)
      BY <2>3, <3>1, ParameterIsDeployed
    <3> QED BY <2>2, <2>5, <3>1, <3>2, Zenon DEF deployed
  <2> QED BY <2>4, <2>5
<1>14. CASE e.fn = "dynamic"
  BY <1>14, ClearForms
<1>8. CASE e.fn = "runtime"
  BY <1>1, <1>3, <1>8, Zenon DEF Formed
<1>9. CASE e.fn = "if"
  <2>1. e.condition \in Nodes /\ Def(e.condition).op = "ref"
    BY <1>9, ExpressionsAssumption DEF Def
  <2>2. \/ Verdict(e.condition) = "true" /\ value = v[e.yes]
        \/ Verdict(e.condition) = "false" /\ value = v[e.no]
    BY <1>1, <1>3, <1>9, Zenon DEF Formed
  <2>3. \/ template.truth[e.condition] /\ value = v[e.yes]
        \/ ~template.truth[e.condition] /\ value = v[e.no]
    BY <2>1, <2>2 DEF Truthful
  <2>4. \/ template.truth[e.condition] /\ s[e.yes] = {}
        \/ ~template.truth[e.condition] /\ s[e.no] = {}
    <3>1. s[IF template.truth[e.condition] THEN e.yes ELSE e.no] = {}
      BY <1>9, ClearForms
    <3> QED BY <3>1, Zenon
  <2>5. \/ template.truth[e.condition] /\ value = d[e.yes]
        \/ ~template.truth[e.condition] /\ value = d[e.no]
    BY <1>9, <2>3, <2>4, PartsAre
  <2> QED BY <1>2, <1>9, <2>5, Zenon DEF FormedAs, deployed
<1>10. CASE e.fn = "find"
  <2> DEFINE key == Stringify(v[e.key])
  <2>1. /\ IsResolved(v[e.key])
        /\ \/ key \in DOMAIN template.mappings /\ value = Scalar(template.mappings[key])
           \/ key \notin DOMAIN template.mappings /\ value = v[e.default]
    BY <1>1, <1>3, <1>10, Zenon DEF Formed
  <2>2. v[e.key] = d[e.key]
    BY <1>10, <1>15, <2>1, PartsAre
  <2>3. value = v[e.default] => value = d[e.default]
    BY <1>10, <1>15, PartsAre
  <2> QED BY <1>2, <1>10, <2>1, <2>2, <2>3, Zenon DEF FormedAs, deployed
<1>11. CASE e.fn = "select"
  <2>1. v[e.of].kind = "list" /\ value = SelectItem(v[e.of].v, e.index)
    BY <1>1, <1>3, <1>11, Zenon DEF Formed
  <2>2. v[e.of] = d[e.of] /\ Good(v[e.of])
    BY <1>11, <1>15, <2>1, PartsAre DEF IsResolved
  <2>3. value = v[e.of].v[e.index + 1]
    BY <1>3, <1>11, <2>1, <2>2, SelectGood, ExpressionsAssumption
  <2>4. deployed = d[e.of].v[e.index + 1]
    BY <1>2, <1>11, Zenon DEF FormedAs
  <2> QED BY <2>2, <2>3, <2>4 DEF deployed
<1>12. CASE e.fn = "join"
  <2>1. v[e.of].kind = "list" /\ value = Scalar(Stringify(v[e.of]))
    BY <1>1, <1>3, <1>12, Zenon DEF Formed
  <2>2. v[e.of] = d[e.of]
    BY <1>12, <1>15, <2>1, PartsAre DEF IsResolved
  <2> QED BY <1>2, <1>12, <2>1, <2>2, Zenon DEF FormedAs, deployed
<1>13. CASE e.fn = "split"
  <2>1. IsResolved(v[e.of]) /\ value = Texts(Stringify(v[e.of]))
    BY <1>1, <1>3, <1>13, Zenon DEF Formed
  <2>2. v[e.of] = d[e.of]
    BY <1>13, <1>15, <2>1, PartsAre
  <2> QED BY <1>2, <1>13, <2>1, <2>2, Zenon DEF FormedAs, deployed
<1> QED BY <1>4, <1>5, <1>6, <1>7, <1>8, <1>9, <1>10, <1>11, <1>12, <1>13, <1>14,
           ExpressionsAssumption DEF Forms, deployed

LEMMA StrictIsDeployed ==
  ASSUME template \in Templates, Truthful
  PROVE  \A e \in Expressions :
           IsResolved(ResolveStrictly[e]) /\ StandIns[e] = {} =>
             ResolveStrictly[e] = Deployed(template)[e]
<1> DEFINE S == {e \in Expressions : IsResolved(ResolveStrictly[e]) /\ StandIns[e] = {} =>
                                       ResolveStrictly[e] = Deployed(template)[e]}
<1>1. ASSUME NEW e \in Expressions, Parts(e) \subseteq S, StandIns[e] = {} PROVE e \in S
  <2>1. \A part \in Parts(e) :
          /\ Good(ResolveStrictly[part])
          /\ IsResolved(ResolveStrictly[part]) /\ StandIns[part] = {} =>
               ResolveStrictly[part] = Deployed(template)[part]
    BY <1>1, AllGood
  <2>6. StandInsWith(e, StandIns) = {}
    BY <1>1, StandInsIsRound
  <2> DEFINE value(strict) == ResolveWith(e, strict, ResolveStrictly, ResolveStrictly)
  <2>2. \A strict : strict /\ IsResolved(value(strict)) =>
          value(strict) = DeployWith(template, e, Deployed(template))
    BY <2>1, <2>6, StrictStep
  <2>3. IsResolved(value(TRUE)) => value(TRUE) = DeployWith(template, e, Deployed(template))
    BY <2>2, Zenon
  <2>4. ResolveStrictly[e] = value(TRUE)
    BY StrictlyIsRound
  <2>5. Deployed(template)[e] = DeployWith(template, e, Deployed(template))
    BY DeployedIsRound
  <2> HIDE DEF value
  <2> QED BY <2>3, <2>4, <2>5
<1>2. \A e \in Expressions : Parts(e) \subseteq S => e \in S
  BY <1>1
<1>3. Expressions \subseteq S
  <2> HIDE DEF S
  <2> QED BY <1>2, DepthInduction
<1> QED BY <1>3

(* Other than an array or an object, nothing is resolved more leniently.   *)
LEMMA LenientIsStrict ==
  ASSUME NEW e \in Expressions, e.fn \notin {"array", "object"}
  PROVE  Resolve[e] = ResolveStrictly[e]
<1>1. /\ Resolve[e] = ResolveWith(e, FALSE, Resolve, ResolveStrictly)
      /\ ResolveStrictly[e] = ResolveWith(e, TRUE, ResolveStrictly, ResolveStrictly)
  BY ResolveIsRound, StrictlyIsRound
<1>2. e.fn \in Forms
  BY ExpressionsAssumption
<1>3. ResolveWith(e, FALSE, Resolve, ResolveStrictly)
       = ResolveWith(e, TRUE, ResolveStrictly, ResolveStrictly)
  <2>1. CASE e.fn \in {"literal", "ref", "runtime", "dynamic", "if"}
    BY <2>1, Zenon DEF ResolveWith
  <2>2. CASE e.fn \in {"find", "select", "join", "split"}
    BY <2>2, Zenon DEF ResolveWith
  <2> QED BY <1>2, <2>1, <2>2 DEF Forms
<1> QED BY <1>1, <1>3

(* Without a failure in the sink, what no text stands in for is resolved   *)
(* to what was deployed.                                                   *)
LEMMA ClearIsDeployed ==
  ASSUME template \in Templates, Truthful
  PROVE  \A e \in Expressions : Sink[e] = {} /\ StandIns[e] = {} =>
           IsResolved(Resolve[e]) /\ Resolve[e] = Deployed(template)[e]
<1> DEFINE S == {e \in Expressions : Sink[e] = {} /\ StandIns[e] = {} =>
                   IsResolved(Resolve[e]) /\ Resolve[e] = Deployed(template)[e]}
<1>1. ASSUME NEW e \in Expressions, Parts(e) \subseteq S, Sink[e] = {}, StandIns[e] = {}
      PROVE  IsResolved(Resolve[e]) /\ Resolve[e] = Deployed(template)[e]
  <2> DEFINE value == Resolve[e]
             deployed == Deployed(template)[e]
             d == Deployed(template)
  <2>1. value = ResolveWith(e, FALSE, Resolve, ResolveStrictly)
        /\ deployed = DeployWith(template, e, d)
    BY ResolveIsRound, DeployedIsRound
  <2>2. Sink[e] = SinkWith(e, Sink)
    BY SinkIsRound
  <2>3. e.fn \in {"array", "object"} =>
          \A part \in Parts(e) : IsResolved(Resolve[part]) /\ Resolve[part] = d[part]
    <3>1. SUFFICES ASSUME e.fn \in {"array", "object"}, NEW part \in Parts(e)
                   PROVE  IsResolved(Resolve[part]) /\ Resolve[part] = d[part]
      OBVIOUS
    <3>2. UNION {Sink[p] : p \in Parts(e)} = {}
      BY <1>1, <2>2, <3>1, Zenon DEF SinkWith
    <3>3. Sink[part] = {}
      BY <3>2
    <3>4. StandInsWith(e, StandIns) = {}
      BY <1>1, StandInsIsRound
    <3>5. StandIns[part] = {}
      BY <3>1, <3>4, ClearForms
    <3> QED BY <1>1, <3>1, <3>3, <3>5
  <2>4. CASE e.fn = "array"
    <3> DEFINE items == [i \in DOMAIN e.items |-> Resolve[e.items[i]]]
               those == [i \in DOMAIN e.items |-> d[e.items[i]]]
    <3>1. value = Sequence(items, FALSE)
      BY <2>1, <2>4, Zenon DEF ResolveWith
    <3>2. deployed = Sequence(those, TRUE)
      BY <2>1, <2>4, Zenon DEF DeployWith
    <3>3. items = those /\ \A i \in DOMAIN items : IsResolved(items[i])
      BY <2>3, <2>4, Members
    <3> HIDE DEF items, those, value, deployed
    <3>4. ~Fails(items, TRUE) /\ ~Fails(items, FALSE)
      BY <3>3 DEF Fails
    <3>5. Sequence(items, FALSE) = Sequence(items, TRUE) /\ Sequence(items, TRUE).kind = "list"
      BY <3>4 DEF Sequence, List
    <3> QED BY <3>1, <3>2, <3>3, <3>5 DEF IsResolved, value, deployed
  <2>5. CASE e.fn = "object"
    <3> DEFINE fields == [f \in DOMAIN e.fields |-> Resolve[e.fields[f]]]
               those == [f \in DOMAIN e.fields |-> d[e.fields[f]]]
    <3>1. value = Mapping(fields, FALSE)
      BY <2>1, <2>5, Zenon DEF ResolveWith
    <3>2. deployed = Mapping(those, TRUE)
      BY <2>1, <2>5, Zenon DEF DeployWith
    <3>3. fields = those /\ \A f \in DOMAIN fields : IsResolved(fields[f])
      BY <2>3, <2>5, Members
    <3> HIDE DEF fields, those, value, deployed
    <3>4. ~Fails(fields, TRUE) /\ ~Fails(fields, FALSE)
      BY <3>3 DEF Fails
    <3>5. Mapping(fields, FALSE) = Mapping(fields, TRUE) /\ Mapping(fields, TRUE).kind = "object"
      BY <3>4 DEF Mapping, Object
    <3> QED BY <3>1, <3>2, <3>3, <3>5 DEF IsResolved, value, deployed
  <2>6. CASE e.fn \notin {"array", "object"}
    <3>1. IsResolved(Resolve[e])
      BY <1>1, <2>2, <2>6, Zenon DEF SinkWith
    <3> QED BY <1>1, <2>6, <3>1, LenientIsStrict, StrictIsDeployed
  <2> QED BY <2>4, <2>5, <2>6
<1>2. Expressions \subseteq S
  <2>1. \A e \in Expressions : Parts(e) \subseteq S => e \in S
    BY <1>1
  <2> HIDE DEF S
  <2> QED BY <2>1, DepthInduction
<1> QED BY <1>2

(***************************************************************************)
(* What is kept of a resolved resource                                     *)
(***************************************************************************)

DeployedProperties(r) ==
  [p \in DOMAIN Resource(r).properties |-> Deployed(template)[Resource(r).properties[p]]]

(* A property that was kept, or left out, as it was deployed.              *)
AsDeployed(r, properties, p) ==
  LET deployed == Deployed(template)[Resource(r).properties[p]]
  IN  IF p \in DOMAIN properties THEN properties[p] = deployed ELSE deployed = NoValue

(* No text stands in for another in the resource. *)
NoStandIn(r) ==
  \A p \in DOMAIN Resource(r).properties : StandIns[Resource(r).properties[p]] = {}

Kept(r, outcome) ==
  /\ outcome.inclusion \in {"INCLUDED", "EXCLUDED", "UNKNOWN"}
  /\ outcome.inclusion = "EXCLUDED" => ~Exists(r)
  /\ outcome.inclusion = "INCLUDED" => Exists(r)
  /\ outcome.gaps \subseteq DOMAIN Resource(r).properties
  /\ \A p \in DOMAIN Resource(r).properties \ outcome.gaps :
       StandIns[Resource(r).properties[p]] = {} => AsDeployed(r, outcome.properties, p)
  /\ outcome.gaps = {} /\ NoStandIn(r) =>
       outcome.properties = Mapping(DeployedProperties(r), TRUE).v
  /\ \A p \in DOMAIN outcome.properties : Good(outcome.properties[p])

(* What resolve_resource keeps. *)
ResolvedOutcome(r) ==
  [inclusion |-> InclusionOf(r),
   properties |-> Mapping([p \in DOMAIN Resource(r).properties |->
                             Resolve[Resource(r).properties[p]]], FALSE).v,
   gaps |-> {p \in DOMAIN Resource(r).properties : Sink[Resource(r).properties[p]] # {}}]

LEMMA InclusionFacts ==
  ASSUME template \in Templates, Truthful, NEW r \in Resources
  PROVE  /\ InclusionOf(r) \in {"INCLUDED", "EXCLUDED", "UNKNOWN"}
         /\ InclusionOf(r) = "EXCLUDED" => ~Exists(r)
         /\ InclusionOf(r) = "INCLUDED" => Exists(r)
<1> DEFINE c == Resource(r).condition
<1>1. c # NoNode => c \in Nodes /\ Def(c).op = "ref"
  BY ResourcesAssumption DEF Resources, Resource, Def
<1>2. c # NoNode => /\ Verdict(c) = "true" => template.truth[c]
                    /\ Verdict(c) = "false" => ~template.truth[c]
  BY <1>1 DEF Truthful
<1>3. CASE c = NoNode
  BY <1>3, Zenon DEF InclusionOf, Exists
<1>4. CASE c # NoNode /\ Verdict(c) = "true"
  BY <1>2, <1>4, Zenon DEF InclusionOf, Exists
<1>5. CASE c # NoNode /\ Verdict(c) = "false"
  <2>1. InclusionOf(r) = "EXCLUDED"
    BY <1>5, Zenon DEF InclusionOf
  <2> QED BY <1>2, <1>5, <2>1 DEF Exists
<1>6. CASE c # NoNode /\ Verdict(c) \notin {"true", "false"}
  <2>1. InclusionOf(r) = "UNKNOWN"
    BY <1>6, Zenon DEF InclusionOf
  <2> QED BY <2>1
<1> QED BY <1>3, <1>4, <1>5, <1>6

(* What a mapping keeps of its fields, and what it does not. *)
LEMMA MappingFacts ==
  ASSUME NEW fields, NEW strict, ~Fails(fields, strict)
  PROVE  /\ Mapping(fields, strict).v
              = [f \in {g \in DOMAIN fields : IsPresent(fields[g])} |-> fields[f]]
         /\ Mapping(fields, strict) = Object(Mapping(fields, strict).v)
BY DEF Mapping, Object

LEMMA LenientMapping ==
  ASSUME NEW fields
  PROVE  Mapping(fields, FALSE).v
           = [f \in {g \in DOMAIN fields : IsPresent(fields[g])} |-> fields[f]]
BY DEF Mapping, Object, Fails

LEMMA OutcomeIsKept ==
  ASSUME template \in Templates, Truthful, NEW r \in Resources
  PROVE  Kept(r, ResolvedOutcome(r))
<1> DEFINE declared == Resource(r).properties
           values == [p \in DOMAIN declared |-> Resolve[declared[p]]]
           those == DeployedProperties(r)
           outcome == ResolvedOutcome(r)
<1>1. \A p \in DOMAIN declared : declared[p] \in Expressions
  BY ResourcesAssumption DEF Resources, Resource
<1>2. /\ outcome.inclusion = InclusionOf(r)
      /\ outcome.properties = Mapping(values, FALSE).v
      /\ outcome.gaps = {p \in DOMAIN declared : Sink[declared[p]] # {}}
  BY DEF ResolvedOutcome
<1>3. outcome.properties = [f \in {g \in DOMAIN declared : IsPresent(values[g])} |-> values[f]]
  BY <1>2, LenientMapping
<1>4. \A p \in DOMAIN declared \ outcome.gaps : StandIns[declared[p]] = {} =>
        /\ IsResolved(values[p]) /\ values[p] = Deployed(template)[declared[p]]
        /\ values[p] = those[p]
  BY <1>1, <1>2, ClearIsDeployed DEF DeployedProperties
<1>5. \A p \in DOMAIN declared : Good(values[p])
  BY <1>1, AllGood
<1> HIDE DEF outcome, values, those
<1>6. ASSUME NEW p \in DOMAIN declared \ outcome.gaps, StandIns[declared[p]] = {}
      PROVE  AsDeployed(r, outcome.properties, p)
  <2>1. CASE IsPresent(values[p])
    BY <1>3, <1>4, <1>6, <2>1 DEF AsDeployed
  <2>2. CASE ~IsPresent(values[p])
    <3>1. values[p].kind = "novalue"
      BY <1>4, <1>6, <2>2 DEF IsResolved, IsPresent
    <3>2. values[p] = NoValue
      BY <1>5, <3>1 DEF Good, Proper, Fits
    <3> QED BY <1>3, <1>4, <1>6, <2>2, <3>2 DEF AsDeployed
  <2> QED BY <2>1, <2>2
<1>7. ASSUME outcome.gaps = {}, NoStandIn(r)
      PROVE  outcome.properties = Mapping(those, TRUE).v
  <2>0. \A p \in DOMAIN declared : StandIns[declared[p]] = {}
    BY <1>7 DEF NoStandIn
  <2>1. values = those
    BY <1>4, <1>7, <2>0 DEF values, those, DeployedProperties
  <2>2. ~Fails(those, TRUE)
    BY <1>4, <1>7, <2>0, <2>1 DEF Fails, those, DeployedProperties
  <2>3. Mapping(those, TRUE).v
          = [f \in {g \in DOMAIN those : IsPresent(those[g])} |-> those[f]]
    <3>1. \A strict : ~Fails(those, strict) => Mapping(those, strict).v
            = [f \in {g \in DOMAIN those : IsPresent(those[g])} |-> those[f]]
      BY MappingFacts
    <3> QED BY <2>2, <3>1, Zenon
  <2>4. DOMAIN those = DOMAIN declared
    BY DEF those, DeployedProperties
  <2> QED BY <1>3, <2>1, <2>3, <2>4
<1>8. \A p \in DOMAIN outcome.properties : Good(outcome.properties[p])
  BY <1>3, <1>5
<1>9. outcome.gaps \subseteq DOMAIN declared
  BY <1>2
<1> QED BY <1>2, <1>6, <1>7, <1>8, <1>9, InclusionFacts, Zenon DEF Kept, those, outcome

(***************************************************************************)
(* Quantities                                                              *)
(***************************************************************************)

(* The components of a resource are in natural quantities. *)
Countable(components) == \A c \in components : c.quantity \in Nat

Measured(c) == c.class \in Classes /\ Countable(c.components)

LEMMA NumberType ==
  ASSUME NEW props, NEW p
  PROVE  /\ Number(props, p) \in Nat \/ Number(props, p) = None
         /\ None \in Int /\ None \notin Nat
<1> DEFINE places == {i \in DOMAIN Digits : Digits[i] = Rewritten(Text(props, p))}
<1>1. places \subseteq 1..6
  BY DEF Digits
<1>2. Number(props, p) = IF places = {} THEN None ELSE (CHOOSE i \in places : TRUE) - 1
  BY DEF Number
<1> HIDE DEF places
<1>3. None \in Int /\ None \notin Nat
  BY DEF None
<1>4. CASE places = {}
  BY <1>2, <1>3, <1>4, Zenon
<1>5. CASE places # {}
  <2> DEFINE place == CHOOSE i \in places : TRUE
  <2>1. place \in places
    BY <1>5
  <2>2. Number(props, p) = place - 1
    BY <1>2, <1>5, Zenon
  <2> HIDE DEF place
  <2>3. place \in 1..6
    BY <1>1, <2>1
  <2> QED BY <1>3, <2>2, <2>3
<1> QED BY <1>4, <1>5

LEMMA NumberOrType ==
  ASSUME NEW props, NEW p, NEW default, default \in Nat \/ default = None
  PROVE  NumberOr(props, p, default) \in Nat \/ NumberOr(props, p, default) = None
BY NumberType DEF NumberOr

LEMMA ComponentCountable ==
  /\ \A product, quantity : quantity \in Nat => Countable(Component(product, quantity))
  /\ \A product : Countable(Hourly(product))
  /\ Countable({})
BY QuantitiesAssumption DEF Countable, Component, Hourly

LEMMA UnionCountable ==
  /\ \A a, b : Countable(a) /\ Countable(b) => Countable(a \cup b)
  /\ \A U : (\A a \in U : Countable(a)) => Countable(UNION U)
BY DEF Countable

LEMMA AboveFreeCountable ==
  ASSUME NEW product, NEW amount, amount \in Nat \/ amount = None, NEW free \in Nat
  PROVE  Countable(AboveFree(product, amount, free))
<1>1. amount > free => amount - free \in Nat
  BY NumberType
<1> QED BY <1>1, ComponentCountable DEF AboveFree

LEMMA OtherMeasured == \A class \in Classes : Measured(Other(class))
BY DEF Measured, Other, Classified, Countable

LEMMA DeterministicMeasured ==
  ASSUME NEW components, Countable(components), NEW excluded
  PROVE  Measured(Deterministic(components, excluded))
BY DEF Measured, Deterministic, Classified, Classes

LEMMA EbsCountable ==
  ASSUME NEW spec, NEW device
  PROVE  Countable(EbsComponents(spec, device))
<1> DEFINE type == TextOr(spec, "VolumeType", "gp2")
           size == NumberOr(spec, "Size", Number(spec, "VolumeSize"))
           iops == Number(spec, "Iops")
           product(family) == <<"EC2", family, type, device>>
           storage == IF size > 0 THEN Component(product("Storage"), size) ELSE {}
           gp3 == AboveFree(product("IOPS"), iops, FreeIops)
                    \cup AboveFree(product("Throughput"), Number(spec, "Throughput"),
                                   FreeThroughput)
           io1 == AboveFree(product("IOPS"), iops, 0)
           provisioned == CASE type = "gp3" -> gp3 [] type = "io1" -> io1 [] OTHER -> {}
<1>1. EbsComponents(spec, device) = storage \cup provisioned
  BY Zenon DEF EbsComponents
<1>2. Countable(storage)
  <2>1. size \in Nat \/ size = None
    BY NumberType, NumberOrType
  <2> HIDE DEF size, product
  <2>2. ASSUME size > 0 PROVE size \in Nat
    BY <2>1, <2>2 DEF None
  <2>3. CASE size > 0
    BY <2>2, <2>3, ComponentCountable
  <2>4. CASE ~(size > 0)
    BY <2>4, ComponentCountable
  <2> QED BY <2>3, <2>4
<1>3. (iops \in Nat \/ iops = None)
      /\ (Number(spec, "Throughput") \in Nat \/ Number(spec, "Throughput") = None)
  BY NumberType
<1>4. FreeIops \in Nat /\ FreeThroughput \in Nat /\ 0 \in Nat
  BY QuantitiesAssumption
<1> HIDE DEF product, iops
<1>5. Countable(gp3) /\ Countable(io1)
  BY <1>3, <1>4, AboveFreeCountable, UnionCountable
<1> HIDE DEF gp3, io1, type
<1>6. provisioned = gp3 \/ provisioned = io1 \/ provisioned = {}
  BY Zenon
<1>7. Countable(provisioned)
  BY <1>5, <1>6, ComponentCountable
<1> QED BY <1>1, <1>2, <1>7, UnionCountable

LEMMA VolumeMeasured == ASSUME NEW props PROVE Measured(Volume(props))
<1>1. Measured(Other("UNRESOLVED"))
  BY OtherMeasured DEF Classes
<1>2. Countable(EbsComponents(props, 0))
  BY EbsCountable
<1>3. Measured(Deterministic(EbsComponents(props, 0), EbsExcluded(props)))
  BY <1>2, DeterministicMeasured
<1> QED BY <1>1, <1>3, Zenon DEF Volume

LEMMA InstanceMeasured ==
  ASSUME NEW props, NEW platform
  PROVE  Measured(Instance(props, platform))
<1> DEFINE type == Text(props, "InstanceType")
           tenancy == TextOr(props, "Tenancy", "default")
           devices == Items(props, "BlockDeviceMappings")
           fields(i) == Fields(devices[i])
           ebs(i) == IF "Ebs" \in DOMAIN fields(i) THEN Fields(fields(i).Ebs) ELSE <<>>
           volumes == {IF ebs(i) = <<>> THEN {} ELSE EbsComponents(ebs(i), i) :
                         i \in DOMAIN devices}
           hours == Hourly(<<"EC2", "Instance", type, platform, tenancy>>)
           excluded == {"AMI-provided storage"}
                         \cup UNION {EbsExcluded(ebs(i)) : i \in DOMAIN devices}
<1>1. Instance(props, platform) =
        IF type = NoText \/ tenancy \notin {"default", "dedicated", "host"}
        THEN Other("UNRESOLVED")
        ELSE Deterministic(hours \cup UNION volumes, excluded)
  BY Zenon DEF Instance
<1> HIDE DEF type, tenancy, excluded, ebs, devices
<1>2. \A volume \in volumes : Countable(volume)
  BY EbsCountable, ComponentCountable
<1>3. Countable(hours)
  BY ComponentCountable
<1> HIDE DEF volumes, hours
<1>4. Countable(hours \cup UNION volumes)
  BY <1>2, <1>3, UnionCountable
<1>5. Measured(Deterministic(hours \cup UNION volumes, excluded))
  BY <1>4, DeterministicMeasured
<1>6. Measured(Other("UNRESOLVED"))
  BY OtherMeasured DEF Classes
<1> QED BY <1>1, <1>5, <1>6, Zenon

LEMMA DBInstanceMeasured == ASSUME NEW props PROVE Measured(DBInstance(props))
<1> DEFINE class == Text(props, "DBInstanceClass")
           engine == Text(props, "Engine")
           deployment == IF Flag(props, "MultiAZ") THEN "Multi-AZ" ELSE "Single-AZ"
           storage == Number(props, "AllocatedStorage")
           type == TextOr(props, "StorageType", "gp2")
           iops == Number(props, "Iops")
           place == <<"RDS", "Storage", type, deployment>>
           storageComponent == IF storage > 0 THEN Component(place, storage) ELSE {}
           iopsComponent == IF type \in {"io1", "io2"}
                            THEN AboveFree(<<"RDS", "IOPS", deployment>>, iops, 0) ELSE {}
           hours == Hourly(<<"RDS", "Instance", class, engine, deployment>>)
           excluded == (IF storage > 0 THEN {} ELSE {"Storage"})
                         \cup (IF iopsComponent = {} THEN {"I/O"} ELSE {})
                         \cup (IF type = "gp3" /\ Number(props, "StorageThroughput") > 0
                               THEN {"gp3 storage throughput"} ELSE {})
<1>1. DBInstance(props) =
        CASE class = NoText \/ engine = NoText -> Other("UNRESOLVED")
          [] class # NoText /\ engine = "aurora-mysql" -> Other("UNSUPPORTED")
          [] OTHER -> Deterministic(hours \cup storageComponent \cup iopsComponent, excluded)
  BY Zenon DEF DBInstance
<1>2. (storage \in Nat \/ storage = None) /\ (iops \in Nat \/ iops = None) /\ 0 \in Nat
  BY NumberType
<1> HIDE DEF class, engine, deployment, storage, type, iops, excluded, place
<1>3. Countable(storageComponent)
  <2>1. ASSUME storage > 0 PROVE storage \in Nat
    BY <1>2, <2>1 DEF None
  <2>2. CASE storage > 0
    BY <2>1, <2>2, ComponentCountable
  <2>3. CASE ~(storage > 0)
    BY <2>3, ComponentCountable
  <2> QED BY <2>2, <2>3
<1>4. Countable(iopsComponent)
  BY <1>2, AboveFreeCountable, ComponentCountable
<1>5. Countable(hours)
  BY ComponentCountable
<1> HIDE DEF storageComponent, iopsComponent, hours
<1>6. Measured(Deterministic(hours \cup storageComponent \cup iopsComponent, excluded))
  <2>1. Countable(hours \cup storageComponent \cup iopsComponent)
    BY <1>3, <1>4, <1>5, UnionCountable
  <2> QED BY <2>1, DeterministicMeasured
<1>7. Measured(Other("UNRESOLVED")) /\ Measured(Other("UNSUPPORTED"))
  BY OtherMeasured DEF Classes
<1> QED BY <1>1, <1>6, <1>7, Zenon

LEMMA LoadBalancerMeasured == ASSUME NEW props PROVE Measured(LoadBalancer(props))
<1> DEFINE type == TextOr(props, "Type", "application")
           hours == Hourly(<<"ELB", type>>)
           excluded == {"LCU usage"}
<1>1. LoadBalancer(props) = IF type \notin {"application", "network", "gateway"}
                            THEN Other("UNSUPPORTED") ELSE Deterministic(hours, excluded)
  BY Zenon DEF LoadBalancer
<1>2. Countable(hours)
  BY ComponentCountable
<1> HIDE DEF type, hours, excluded
<1>3. Measured(Deterministic(hours, excluded))
  BY <1>2, DeterministicMeasured
<1>4. Measured(Other("UNSUPPORTED"))
  BY OtherMeasured DEF Classes
<1> QED BY <1>1, <1>3, <1>4, Zenon

LEMMA ProductInNat == \A a, b \in Nat : a * b \in Nat
OBVIOUS

LEMMA CacheMeasured ==
  ASSUME NEW props, NEW nodes \in Nat, NEW excluded
  PROVE  Measured(CacheNodes(props, nodes, excluded))
<1> DEFINE type == Text(props, "CacheNodeType")
           engine == TextOr(props, "Engine", "redis")
           component == Component(<<"ElastiCache", type, engine>>, HoursPerMonth * nodes)
<1>1. CacheNodes(props, nodes, excluded)
        = IF type = NoText THEN Other("UNRESOLVED") ELSE Deterministic(component, excluded)
  BY Zenon DEF CacheNodes
<1>2. Countable(component)
  <2>1. HoursPerMonth * nodes \in Nat
    BY ProductInNat, QuantitiesAssumption
  <2> HIDE DEF type, engine
  <2> QED BY <2>1, ComponentCountable
<1> HIDE DEF type, engine, component
<1>3. Measured(Deterministic(component, excluded))
  BY <1>2, DeterministicMeasured
<1>4. Measured(Other("UNRESOLVED"))
  BY OtherMeasured DEF Classes
<1> QED BY <1>1, <1>3, <1>4, Zenon

(* The values of properties that are good. *)
GoodProps(props) == \A p \in DOMAIN props : Good(props[p])

LEMMA ItemsAreSeq ==
  ASSUME NEW props, GoodProps(props), NEW p
  PROVE  \E S : Items(props, p) \in Seq(S)
<1>1. CASE p \in DOMAIN props /\ props[p].kind = "list"
  <2>1. Good(props[p])
    BY <1>1 DEF GoodProps
  <2>2. PICK V : props[p] \in V /\ Proper(V)
    BY <2>1, Zenon DEF Good
  <2>3. props[p].v \in Seq(Present(V))
    BY <1>1, <2>2 DEF Proper, Fits
  <2> QED BY <1>1, <2>3 DEF Items
<1>2. CASE ~(p \in DOMAIN props /\ props[p].kind = "list")
  <2>1. Items(props, p) = <<>>
    BY <1>2, Zenon DEF Items
  <2>2. <<>> \in Seq(Nat)
    OBVIOUS
  <2> QED BY <2>1, <2>2
<1> QED BY <1>1, <1>2

LEMMA GroupNodesInNat ==
  ASSUME NEW props, GoodProps(props)
  PROVE  GroupNodes(props) \in Nat
<1> DEFINE replicas == NumberOr(props, "ReplicasPerNodeGroup", 0)
           groups == Number(props, "NumNodeGroups")
           listed == Len(Items(props, "NodeGroupConfiguration"))
           shards == IF groups # None THEN groups ELSE IF listed > 0 THEN listed ELSE None
           clusters == Number(props, "NumCacheClusters")
<1>1. GroupNodes(props) =
        CASE shards # None -> shards * (1 + replicas)
          [] shards = None /\ clusters # None -> clusters
          [] OTHER -> 1 + replicas
  BY Zenon DEF GroupNodes
<1>2. replicas \in Nat
  BY NumberType DEF NumberOr
<1>3. (groups \in Nat \/ groups = None) /\ (clusters \in Nat \/ clusters = None)
  BY NumberType
<1>4. listed \in Nat
  <2>1. PICK S : Items(props, "NodeGroupConfiguration") \in Seq(S)
    BY ItemsAreSeq
  <2> QED BY <2>1
<1> HIDE DEF replicas, groups, listed, clusters
<1>5. shards \in Nat \/ shards = None
  BY <1>3, <1>4
<1> HIDE DEF shards
<1>6. 1 + replicas \in Nat
  BY <1>2
<1>7. shards # None => shards * (1 + replicas) \in Nat
  BY <1>5, <1>6, ProductInNat
<1>8. clusters # None => clusters \in Nat
  BY <1>3
<1> QED BY <1>1, <1>6, <1>7, <1>8, Zenon

(* The sum of a sequence of natural numbers is one. *)
LEMMA SumInNat ==
  ASSUME NEW N \in Nat, NEW term, \A i \in 1..N : term[i] \in Nat
  PROVE  LET upTo[i \in 0..N] == IF i = 0 THEN 0 ELSE upTo[i - 1] + term[i]
         IN  upTo[N] \in Nat
<1> DEFINE Sums(f, n) == f[0] = 0 /\ \A i \in 1..n : f[i] = f[i - 1] + term[i]
           Reached == {n \in Nat : n <= N => \E f : Sums(f, n)}
           upTo == CHOOSE f : f = [i \in 0..N |-> IF i = 0 THEN 0 ELSE f[i - 1] + term[i]]
<1>1. 0 \in Reached
  <2>1. Sums([i \in {0} |-> 0], 0)
    OBVIOUS
  <2> QED BY <2>1
<1>2. \A n \in Nat : n \in Reached => n + 1 \in Reached
  <2> SUFFICES ASSUME NEW n \in Nat, n + 1 <= N, NEW f, Sums(f, n)
               PROVE  \E g : Sums(g, n + 1)
    OBVIOUS
  <2> DEFINE g == [i \in 0..(n + 1) |-> IF i = n + 1 THEN f[n] + term[i] ELSE f[i]]
  <2>1. Sums(g, n + 1)
    OBVIOUS
  <2> QED BY <2>1
<1>3. PICK f : Sums(f, N)
  <2> HIDE DEF Reached, Sums
  <2>1. N \in Reached
    BY <1>1, <1>2, NaturalsReached
  <2> QED BY <2>1 DEF Reached
<1>4. upTo = [i \in 0..N |-> IF i = 0 THEN 0 ELSE upTo[i - 1] + term[i]]
  <2> DEFINE fixed == [i \in 0..N |-> f[i]]
  <2>1. fixed = [i \in 0..N |-> IF i = 0 THEN 0 ELSE fixed[i - 1] + term[i]]
    BY <1>3
  <2> HIDE DEF fixed
  <2> QED BY <2>1, Zenon
<1> HIDE DEF upTo
<1> DEFINE Typed == {n \in Nat : n <= N => upTo[n] \in Nat}
<1>5. 0 \in Typed
  BY <1>4
<1>6. \A n \in Nat : n \in Typed => n + 1 \in Typed
  <2> SUFFICES ASSUME NEW n \in Nat, n + 1 <= N, upTo[n] \in Nat
               PROVE  upTo[n + 1] \in Nat
    OBVIOUS
  <2>1. upTo[n + 1] = upTo[n] + term[n + 1] /\ term[n + 1] \in Nat
    BY <1>4
  <2> QED BY <2>1
<1> HIDE DEF Typed
<1>7. N \in Typed
  BY <1>5, <1>6, NaturalsReached
<1>8. upTo[N] \in Nat
  BY <1>7 DEF Typed
<1> QED BY <1>8, Zenon DEF upTo

LEMMA TableMeasured ==
  ASSUME NEW props, GoodProps(props)
  PROVE  Measured(Table(props))
<1> DEFINE capacity(spec) == IF "ProvisionedThroughput" \in DOMAIN spec
                             THEN Fields(spec.ProvisionedThroughput) ELSE <<>>
           indexes == Items(props, "GlobalSecondaryIndexes")
           capacities == <<capacity(props)>>
                           \o [i \in DOMAIN indexes |-> capacity(Fields(indexes[i]))]
           counted == {1} \cup {i + 1 : i \in {j \in DOMAIN indexes :
                                                 indexes[j].kind = "object"}}
           share(unit) == [i \in DOMAIN capacities |->
                             IF i \in counted THEN Number(capacities[i], unit) ELSE 0]
           total(unit) == LET upTo[i \in 0..Len(capacities)] ==
                                IF i = 0 THEN 0 ELSE upTo[i - 1] + share(unit)[i]
                          IN  upTo[Len(capacities)]
           known == \A i \in counted, unit \in {"Read", "Write"} :
                      Number(capacities[i], unit) # None
           components == UNION {Component(<<"DynamoDB", unit>>, total(unit) * HoursPerMonth) :
                                  unit \in {"Read", "Write"}}
           excluded == {"Table storage", "Backup and restore"}
<1>1. Table(props) =
        CASE Text(props, "BillingMode") = "PAY_PER_REQUEST" -> Other("USAGE_BASED")
          [] Text(props, "BillingMode") # "PAY_PER_REQUEST" /\ ~known -> Other("UNRESOLVED")
          [] OTHER -> Deterministic(components, excluded)
  BY Zenon DEF Table
<1>2. Len(capacities) \in Nat /\ DOMAIN capacities = 1..Len(capacities)
  <2>1. PICK S : indexes \in Seq(S)
    BY ItemsAreSeq
  <2> HIDE DEF indexes
  <2> DEFINE rest == [i \in DOMAIN indexes |-> capacity(Fields(indexes[i]))]
             T == {capacity(props)} \cup {rest[i] : i \in DOMAIN indexes}
  <2> HIDE DEF capacity
  <2>2. /\ Len(indexes) \in Nat /\ DOMAIN rest = 1..Len(indexes)
        /\ rest = [i \in 1..Len(indexes) |-> rest[i]]
        /\ \A i \in 1..Len(indexes) : rest[i] \in T
    BY <2>1
  <2>3. capacity(props) \in T
    OBVIOUS
  <2> HIDE DEF rest, T
  <2>4. rest \in Seq(T)
    BY <2>2, KeptSeq
  <2>5. <<capacity(props)>> \in Seq(T)
    BY <2>3, SingletonSeq
  <2>6. <<capacity(props)>> \o rest \in Seq(T)
    BY <2>4, <2>5
  <2> QED BY <2>6 DEF rest
<1> HIDE DEF capacities, counted
<1>3. ASSUME known, NEW unit \in {"Read", "Write"}
      PROVE  total(unit) \in Nat
  <2> DEFINE N == Len(capacities)
             term == share(unit)
  <2>1. \A i \in 1..N : term[i] \in Nat
    <3>1. \A i \in counted : Number(capacities[i], unit) \in Nat
      BY <1>3, NumberType
    <3> QED BY <1>2, <3>1
  <2> HIDE DEF term
  <2>2. LET upTo[i \in 0..N] == IF i = 0 THEN 0 ELSE upTo[i - 1] + term[i]
        IN  upTo[N] \in Nat
    <3> HIDE DEF N
    <3>1. N \in Nat
      BY <1>2 DEF N
    <3> QED BY <2>1, <3>1, SumInNat
  <2> QED BY <2>2, Zenon DEF term
<1>4. ASSUME known PROVE Measured(Deterministic(components, excluded))
  <2> HIDE DEF total, excluded
  <2>1. \A unit \in {"Read", "Write"} : total(unit) * HoursPerMonth \in Nat
    BY <1>3, <1>4, ProductInNat, QuantitiesAssumption
  <2>2. \A unit \in {"Read", "Write"} :
          Countable(Component(<<"DynamoDB", unit>>, total(unit) * HoursPerMonth))
    BY <2>1, ComponentCountable
  <2>3. Countable(components)
    <3> DEFINE U == {Component(<<"DynamoDB", unit>>, total(unit) * HoursPerMonth) :
                       unit \in {"Read", "Write"}}
    <3>1. \A a \in U : Countable(a)
      BY <2>2
    <3> HIDE DEF U
    <3>2. Countable(UNION U)
      BY <3>1, UnionCountable
    <3> QED BY <3>2 DEF U
  <2> HIDE DEF components
  <2> QED BY <2>3, DeterministicMeasured
<1>5. Measured(Other("USAGE_BASED")) /\ Measured(Other("UNRESOLVED"))
  BY OtherMeasured DEF Classes
<1> HIDE DEF known, components, excluded
<1> QED BY <1>1, <1>4, <1>5, Zenon

(* Whatever a resource is, and whatever of it resolved: it has a class,    *)
(* and components in natural quantities.                                   *)
LEMMA ClassifyMeasured ==
  ASSUME NEW type, NEW props, GoodProps(props), NEW platform
  PROVE  Measured(Classify(type, props, platform))
<1>1. /\ Measured(Volume(props)) /\ Measured(Instance(props, platform))
      /\ Measured(DBInstance(props)) /\ Measured(LoadBalancer(props))
      /\ Measured(Table(props))
  BY VolumeMeasured, InstanceMeasured, DBInstanceMeasured, LoadBalancerMeasured, TableMeasured
<1>2. Measured(CacheCluster(props)) /\ Measured(ReplicationGroup(props))
  <2>1. NumberOr(props, "NumCacheNodes", 1) \in Nat
    BY NumberType DEF NumberOr
  <2>2. GroupNodes(props) \in Nat
    BY GroupNodesInNat
  <2> DEFINE nodes == NumberOr(props, "NumCacheNodes", 1)
             group == GroupNodes(props)
  <2> HIDE DEF nodes, group
  <2>3. \A excluded : /\ Measured(CacheNodes(props, nodes, excluded))
                      /\ Measured(CacheNodes(props, group, excluded))
    BY <2>1, <2>2, CacheMeasured DEF nodes, group
  <2> QED BY <2>3, Zenon DEF CacheCluster, ReplicationGroup, nodes, group
<1>3. \A class \in Classes : Measured(Other(class))
  BY OtherMeasured
<1>4. \A product, excluded : Measured(Deterministic(Hourly(product), excluded))
  BY ComponentCountable, DeterministicMeasured
<1>5. {"FREE", "UNSUPPORTED", "USAGE_BASED"} \subseteq Classes
  BY DEF Classes
<1>6. /\ Measured(Other("FREE")) /\ Measured(Other("UNSUPPORTED"))
      /\ Measured(Other("USAGE_BASED"))
  BY <1>3, <1>5
<1>7. CASE type \in {"Volume", "Instance", "DBInstance", "NatGateway", "LoadBalancer"}
  BY <1>1, <1>4, <1>7, Zenon DEF Classify
<1>8. CASE type \in {"CacheCluster", "ReplicationGroup", "EIP", "Table", "Bucket", "Role"}
  BY <1>1, <1>2, <1>4, <1>6, <1>8, Zenon DEF Classify
<1>9. CASE type \in {"SSMParameter", "Certificate"}
  BY <1>6, <1>9, Zenon DEF Classify
<1>10. CASE type \notin {"Volume", "Instance", "DBInstance", "NatGateway", "LoadBalancer",
                         "CacheCluster", "ReplicationGroup", "EIP", "Table", "Bucket",
                         "Role", "SSMParameter", "Certificate"}
  BY <1>6, <1>10, Zenon DEF Classify
<1> QED BY <1>7, <1>8, <1>9, <1>10

(***************************************************************************)
(* The invariant                                                           *)
(***************************************************************************)

ResolvedAreKept ==
  /\ DOMAIN resolved \subseteq Resources
  /\ \A r \in DOMAIN resolved : Kept(r, resolved[r])

(* What is remembered of an image is what DescribeImages says of it. *)
RemembersTruth ==
  \A image \in DOMAIN platforms :
    image \in Readable /\ platforms[image] = Described(image)

(* A platform that is not the assumed one is the described one. *)
PricedAsOutcome ==
  /\ DOMAIN priced \subseteq DOMAIN resolved
  /\ \A r \in DOMAIN priced :
       /\ priced[r] = Outcome(r, priced[r].platform)
       /\ \/ priced[r].platform = Assumed
          \/ ImageOf(r) \in Readable /\ priced[r].platform = Described(ImageOf(r))

(* The resources that were priced for a platform their image has not,      *)
(* though DescribeImages tells it.                                         *)
WrongPlatforms ==
  {r \in DOMAIN priced : /\ ImageOf(r) \in Readable
                         /\ priced[r].platform.os # template.images[ImageOf(r)]}

FallbacksAreCounted ==
  /\ failures \in 0..MaxFailures
  /\ IsFiniteSet(WrongPlatforms)
  /\ Cardinality(WrongPlatforms) <= failures

EngineInv ==
  /\ Shape
  /\ Sound
  /\ ResolvedAreKept
  /\ RemembersTruth
  /\ PricedAsOutcome
  /\ FallbacksAreCounted

(* Nothing the engine does changes how conditions are evaluated. *)
LEMMA EngineStepsAreConditionSteps ==
  ASSUME [EngineNext]_engineVars
  PROVE  [ConditionNext]_conditionVars
<1>1. CASE EvaluationStep
  BY <1>1 DEF ConditionNext
<1>2. CASE Consult
  BY <1>2 DEF Consult, Needed, ConditionNext
<1>3. CASE \E r \in Resources : ResolveResource(r)
  BY <1>3 DEF ResolveResource
<1>4. CASE \E r \in Resources : PriceLocally(r) \/ PriceAsking(r)
  <2>1. resolverVars' = resolverVars
    BY <1>4, Zenon DEF PriceLocally, PriceAsking
  <2> QED BY <2>1 DEF resolverVars
<1>5. CASE UNCHANGED engineVars
  BY <1>5 DEF engineVars, resolverVars
<1> QED BY <1>1, <1>2, <1>3, <1>4, <1>5 DEF EngineNext, ResolverNext

LEMMA TemplateStays ==
  ASSUME [ConditionNext]_conditionVars
  PROVE  template' = template
BY DEF ConditionNext, EvaluationStep, EvaluateEquals, EvaluateRef, EvaluateNot,
       EvaluateJunction, ReturnToRef, ReturnToNot, ReturnToJunction, Answer, Request,
       conditionVars

(* What is kept of a resource depends on the template alone, as do the     *)
(* texts that stand in for others.                                         *)
LEMMA StandInsStay == ASSUME template' = template PROVE StandIns' = StandIns
BY DEF StandIns, StandInsWith, StandInRef, Parameters, ParameterText

LEMMA KeptStays ==
  ASSUME template' = template, NEW r, NEW outcome, Kept(r, outcome)
  PROVE  Kept(r, outcome)'
BY StandInsStay DEF Kept, Exists, AsDeployed, DeployedProperties, NoStandIn, Resource

LEMMA EngineInvInit == EngineInit => EngineInv
<1> SUFFICES ASSUME EngineInit PROVE EngineInv
  OBVIOUS
<1>1. ConditionInit /\ DOMAIN resolved = {} /\ DOMAIN priced = {} /\ DOMAIN platforms = {}
      /\ failures = 0
  BY DEF EngineInit, ResolverInit
<1>2. Shape
  BY <1>1, ShapeInit
<1>3. Sound
  <2>1. cache = <<>> /\ result = "none" /\ frames = <<>>
    BY <1>1 DEF ConditionInit
  <2> QED BY <2>1 DEF Sound, VerdictsAreSound
<1>4. FallbacksAreCounted
  <2>1. WrongPlatforms = {}
    BY <1>1 DEF WrongPlatforms
  <2>2. 0 \in 0..MaxFailures
    BY QuantitiesAssumption
  <2> QED BY <1>1, <2>1, <2>2, FS_EmptySet DEF FallbacksAreCounted
<1> QED BY <1>1, <1>2, <1>3, <1>4
        DEF EngineInv, ResolvedAreKept, RemembersTruth, PricedAsOutcome

(* A step that prices nothing and resolves at most another resource.       *)
LEMMA PricedStays ==
  ASSUME ResolvedAreKept, RemembersTruth, PricedAsOutcome, FallbacksAreCounted,
         template' = template, UNCHANGED <<priced, platforms, failures>>,
         DOMAIN resolved \subseteq DOMAIN resolved',
         \A r \in DOMAIN resolved : resolved'[r] = resolved[r]
  PROVE  RemembersTruth' /\ PricedAsOutcome' /\ FallbacksAreCounted'
<1>0. \A r \in DOMAIN priced : resolved'[r] = resolved[r]
  BY DEF PricedAsOutcome
<1>1. \A r \in DOMAIN priced : ImageOf(r)' = ImageOf(r)
  BY <1>0, Zenon DEF ImageOf, Resource
<1>2. \A r \in DOMAIN priced : \A platform : Outcome(r, platform)' = Outcome(r, platform)
  BY <1>0 DEF Outcome, Resource
<1>3. RemembersTruth'
  BY DEF RemembersTruth, Readable, Described
<1>4. PricedAsOutcome'
  BY <1>1, <1>2 DEF PricedAsOutcome, Readable, Described
<1>5. WrongPlatforms' = WrongPlatforms
  BY <1>1 DEF WrongPlatforms, Readable
<1>6. FallbacksAreCounted'
  BY <1>5 DEF FallbacksAreCounted
<1> QED BY <1>3, <1>4, <1>6

LEMMA ResolvedStays ==
  ASSUME ResolvedAreKept, template' = template, resolved' = resolved
  PROVE  ResolvedAreKept'
BY KeptStays DEF ResolvedAreKept, Resources

(* resolve_resource *)
LEMMA ResolvingKeeps ==
  ASSUME EngineInv, NEW r \in Resources, ResolveResource(r),
         UNCHANGED <<priced, platforms, failures>>
  PROVE  /\ ResolvedAreKept' /\ RemembersTruth' /\ PricedAsOutcome' /\ FallbacksAreCounted'
<1>1. template' = template
  BY DEF ResolveResource, conditionVars
<1>2. r \notin DOMAIN resolved
      /\ resolved' = [s \in DOMAIN resolved \cup {r} |->
                        IF s = r THEN ResolvedOutcome(r) ELSE resolved[s]]
  BY DEF ResolveResource, ResolvedOutcome
<1>3. Kept(r, ResolvedOutcome(r))
  BY OutcomeIsKept, VerdictsAreTruthful DEF EngineInv, Shape
<1> DEFINE outcome == ResolvedOutcome(r)
<1> HIDE DEF outcome
<1>4. ResolvedAreKept'
  <2>1. /\ DOMAIN resolved' = DOMAIN resolved \cup {r}
        /\ \A s \in DOMAIN resolved' :
             resolved'[s] = IF s = r THEN outcome ELSE resolved[s]
    BY <1>2 DEF outcome
  <2>2. \A s \in DOMAIN resolved' : Kept(s, resolved'[s])
    BY <1>3, <2>1 DEF EngineInv, ResolvedAreKept, outcome
  <2> QED BY <2>1, <2>2, <1>1, KeptStays DEF EngineInv, ResolvedAreKept, Resources
<1>5. DOMAIN resolved \subseteq DOMAIN resolved'
      /\ \A s \in DOMAIN resolved : resolved'[s] = resolved[s]
  BY <1>2
<1>6. RemembersTruth' /\ PricedAsOutcome' /\ FallbacksAreCounted'
  BY <1>1, <1>5, PricedStays DEF EngineInv
<1> QED BY <1>4, <1>6

LEMMA NoNameIsUnreadable == ASSUME template \in Templates PROVE NoText \notin Readable
BY ImagesAssumption DEF Readable

(* A resource is priced with the platform that DescribeImages tells, or    *)
(* with the assumed one, which counts as a failure if it could be told.    *)
LEMMA PricingKeeps ==
  ASSUME EngineInv, UNCHANGED <<template, resolved>>,
         NEW r \in DOMAIN resolved, r \notin DOMAIN priced,
         NEW platform, Price(r, platform),
         \/ platform = Assumed
         \/ ImageOf(r) \in Readable /\ platform = Described(ImageOf(r)),
         failures' \in 0..MaxFailures, failures' >= failures,
         ImageOf(r) \in Readable /\ platform # Described(ImageOf(r))
           => failures' = failures + 1
  PROVE  PricedAsOutcome' /\ FallbacksAreCounted'
<1>1. /\ DOMAIN priced' = DOMAIN priced \cup {r}
      /\ priced'[r] = Outcome(r, platform)
      /\ \A s \in DOMAIN priced : priced'[s] = priced[s]
  BY DEF Price
<1>2. Outcome(r, platform).platform = platform
  BY Zenon DEF Outcome
<1>3. \A s : ImageOf(s)' = ImageOf(s)
  BY Zenon DEF ImageOf, Resource
<1>4. \A s : \A p : Outcome(s, p)' = Outcome(s, p)
  BY DEF Outcome, Resource
<1>5. Readable' = Readable /\ \A image : Described(image)' = Described(image)
  BY DEF Readable, Described
<1>6. PricedAsOutcome'
  <2>1. \A s \in DOMAIN priced' :
          /\ priced'[s] = Outcome(s, priced'[s].platform)
          /\ \/ priced'[s].platform = Assumed
             \/ ImageOf(s) \in Readable /\ priced'[s].platform = Described(ImageOf(s))
    BY <1>1, <1>2 DEF EngineInv, PricedAsOutcome
  <2> QED BY <1>1, <1>3, <1>4, <1>5, <2>1 DEF EngineInv, PricedAsOutcome
<1>7. FallbacksAreCounted'
  <2>1. WrongPlatforms' = {s \in DOMAIN priced' :
                             /\ ImageOf(s) \in Readable
                             /\ priced'[s].platform.os # template.images[ImageOf(s)]}
    BY <1>3, <1>5 DEF WrongPlatforms
  <2>2. WrongPlatforms' \subseteq WrongPlatforms \cup {r}
    BY <1>1, <2>1 DEF WrongPlatforms
  <2>3. r \notin WrongPlatforms
    BY DEF WrongPlatforms
  <2>4. r \in WrongPlatforms' => ImageOf(r) \in Readable /\ platform # Described(ImageOf(r))
    BY <1>1, <1>2, <2>1 DEF Described
  <2>5. /\ IsFiniteSet(WrongPlatforms) /\ Cardinality(WrongPlatforms) <= failures
        /\ failures \in 0..MaxFailures
    BY DEF EngineInv, FallbacksAreCounted
  <2>6. /\ Cardinality(WrongPlatforms) \in Nat
        /\ IsFiniteSet(WrongPlatforms \cup {r})
        /\ Cardinality(WrongPlatforms \cup {r}) = Cardinality(WrongPlatforms) + 1
    BY <2>3, <2>5, FS_AddElement, FS_CardinalityType
  <2>7. CASE r \in WrongPlatforms'
    <3>1. failures' = failures + 1
      BY <2>4, <2>7
    <3>2. /\ IsFiniteSet(WrongPlatforms')
          /\ Cardinality(WrongPlatforms') <= Cardinality(WrongPlatforms \cup {r})
      BY <2>2, <2>6, FS_Subset
    <3>3. Cardinality(WrongPlatforms') \in Nat
      BY <3>2, FS_CardinalityType
    <3> QED BY <2>5, <2>6, <3>1, <3>2, <3>3 DEF FallbacksAreCounted
  <2>8. CASE r \notin WrongPlatforms'
    <3>1. WrongPlatforms' \subseteq WrongPlatforms
      BY <2>2, <2>8
    <3>2. /\ IsFiniteSet(WrongPlatforms')
          /\ Cardinality(WrongPlatforms') <= Cardinality(WrongPlatforms)
      BY <2>5, <3>1, FS_Subset
    <3>3. Cardinality(WrongPlatforms') \in Nat
      BY <3>2, FS_CardinalityType
    <3> QED BY <2>5, <2>6, <3>2, <3>3, QuantitiesAssumption DEF FallbacksAreCounted
  <2> QED BY <2>7, <2>8
<1> QED BY <1>6, <1>7

(* price_resource without a call. *)
LEMMA PricingLocallyKeeps ==
  ASSUME EngineInv, NEW r \in Resources, PriceLocally(r)
  PROVE  RemembersTruth' /\ PricedAsOutcome' /\ FallbacksAreCounted'
<1> DEFINE platform == IF ImageOf(r) = NoText THEN Assumed ELSE platforms[ImageOf(r)]
<1>1. /\ DOMAIN resolved = Resources /\ r \notin DOMAIN priced
      /\ ImageOf(r) \in DOMAIN platforms \cup {NoText}
      /\ Price(r, platform)
      /\ resolverVars' = resolverVars /\ platforms' = platforms /\ failures' = failures
  BY Zenon DEF PriceLocally, Pricing
<1>2. template' = template /\ resolved' = resolved
  BY <1>1 DEF resolverVars, conditionVars
<1>3. \/ platform = Assumed /\ ImageOf(r) \notin Readable
      \/ ImageOf(r) \in Readable /\ platform = Described(ImageOf(r))
  <2>1. CASE ImageOf(r) = NoText
    <3>1. NoText \notin Readable
      BY NoNameIsUnreadable DEF EngineInv, Shape
    <3> QED BY <2>1, <3>1, Zenon
  <2>2. CASE ImageOf(r) # NoText
    <3>1. ImageOf(r) \in DOMAIN platforms /\ platform = platforms[ImageOf(r)]
      BY <1>1, <2>2, Zenon
    <3> HIDE DEF platform
    <3> QED BY <3>1 DEF EngineInv, RemembersTruth
  <2> QED BY <2>1, <2>2
<1> HIDE DEF platform
<1>4. failures \in 0..MaxFailures
  BY DEF EngineInv, FallbacksAreCounted
<1>5. RemembersTruth'
  BY <1>1, <1>2 DEF EngineInv, RemembersTruth, Readable, Described
<1>6. failures' \in 0..MaxFailures /\ failures' >= failures
  BY <1>1, <1>4
<1>7. PricedAsOutcome' /\ FallbacksAreCounted'
  <2>1. r \in DOMAIN resolved /\ r \notin DOMAIN priced /\ Price(r, platform)
    BY <1>1, Zenon
  <2> QED BY <1>2, <1>3, <1>6, <2>1, PricingKeeps
<1> QED BY <1>5, <1>7

(* price_resource with a call. *)
LEMMA PricingAskingKeeps ==
  ASSUME EngineInv, NEW r \in Resources, PriceAsking(r)
  PROVE  RemembersTruth' /\ PricedAsOutcome' /\ FallbacksAreCounted'
<1> DEFINE image == ImageOf(r)
           Remembering(platform) ==
             platforms' = [i \in DOMAIN platforms
                                   \cup (IF Remembers(platform) THEN {image} ELSE {}) |->
                             IF i = image THEN platform ELSE platforms[i]]
<1>1. /\ DOMAIN resolved = Resources /\ r \notin DOMAIN priced
      /\ image \notin DOMAIN platforms
      /\ resolverVars' = resolverVars
  BY DEF PriceAsking, Pricing
<1>2. PICK platform :
        /\ Price(r, platform) /\ Remembering(platform)
        /\ \/ image \in Readable /\ platform = Described(image) /\ failures' = failures
           \/ image \notin Readable /\ platform = Assumed /\ failures' = failures
           \/ failures < MaxFailures /\ platform = Assumed /\ failures' = failures + 1
  BY Zenon DEF PriceAsking
<1>3. template' = template /\ resolved' = resolved
  BY <1>1 DEF resolverVars, conditionVars
<1>4. failures \in 0..MaxFailures /\ MaxFailures \in Nat
  BY QuantitiesAssumption DEF EngineInv, FallbacksAreCounted
<1> HIDE DEF image
<1>5. RemembersTruth'
  <2>1. CASE platform = Assumed
    <3>1. ~Remembers(platform)
      BY <2>1 DEF Remembers, Assumed
    <3>2. platforms' = [i \in DOMAIN platforms |-> platforms[i]]
      BY <1>1, <1>2, <3>1
    <3> QED BY <1>3, <3>2 DEF EngineInv, RemembersTruth, Readable, Described
  <2>2. CASE image \in Readable /\ platform = Described(image)
    <3>1. DOMAIN platforms' \subseteq DOMAIN platforms \cup {image}
          /\ \A i \in DOMAIN platforms' :
               platforms'[i] = IF i = image THEN platform ELSE platforms[i]
      BY <1>2
    <3> QED BY <1>3, <2>2, <3>1 DEF EngineInv, RemembersTruth, Readable, Described
  <2> QED BY <1>2, <2>1, <2>2
<1>6. /\ failures' \in 0..MaxFailures /\ failures' >= failures
      /\ image \in Readable /\ platform # Described(image) => failures' = failures + 1
      /\ \/ platform = Assumed
         \/ image \in Readable /\ platform = Described(image)
  BY <1>2, <1>4
<1>7. PricedAsOutcome' /\ FallbacksAreCounted'
  <2>1. r \in DOMAIN resolved
    BY <1>1
  <2> QED BY <1>1, <1>2, <1>3, <1>6, <2>1, PricingKeeps DEF image
<1> QED BY <1>5, <1>7

LEMMA EngineInvNext == EngineInv /\ [EngineNext]_engineVars => EngineInv'
<1> SUFFICES ASSUME EngineInv, [EngineNext]_engineVars PROVE EngineInv'
  OBVIOUS
<1>1. [ConditionNext]_conditionVars
  BY EngineStepsAreConditionSteps
<1>2. Shape' /\ Sound'
  BY <1>1, ShapeNext, SoundNext DEF EngineInv
<1>3. template' = template
  BY <1>1, TemplateStays
<1>4. ASSUME UNCHANGED <<resolved, priced, platforms, failures>>
      PROVE  /\ ResolvedAreKept' /\ RemembersTruth' /\ PricedAsOutcome'
             /\ FallbacksAreCounted'
  <2>1. ResolvedAreKept'
    BY <1>3, <1>4, ResolvedStays DEF EngineInv
  <2>2. RemembersTruth' /\ PricedAsOutcome' /\ FallbacksAreCounted'
    BY <1>3, <1>4, PricedStays DEF EngineInv
  <2> QED BY <2>1, <2>2
<1>5. CASE (EvaluationStep \/ Consult) /\ UNCHANGED <<resolved, priced, platforms, failures>>
  BY <1>2, <1>4, <1>5 DEF EngineInv
<1>6. ASSUME NEW r \in Resources, ResolveResource(r), UNCHANGED <<priced, platforms, failures>>
      PROVE  EngineInv'
  BY <1>2, <1>6, ResolvingKeeps DEF EngineInv
<1>7. ASSUME NEW r \in Resources, PriceLocally(r) \/ PriceAsking(r)
      PROVE  EngineInv'
  <2>1. resolverVars' = resolverVars
    BY <1>7, Zenon DEF PriceLocally, PriceAsking
  <2>2. ResolvedAreKept'
    BY <1>3, <2>1, ResolvedStays DEF EngineInv, resolverVars
  <2> QED BY <1>2, <1>7, <2>2, PricingLocallyKeeps, PricingAskingKeeps DEF EngineInv
<1>8. CASE UNCHANGED engineVars
  BY <1>2, <1>4, <1>8 DEF EngineInv, engineVars, resolverVars
<1> QED BY <1>5, <1>6, <1>7, <1>8 DEF EngineNext, ResolverNext, Consult

(***************************************************************************)
(* The theorems                                                            *)
(***************************************************************************)

LEMMA EngineInvHolds == EngineSpec => []EngineInv
BY EngineInvInit, EngineInvNext, PTL DEF EngineSpec

(* Resolving and pricing only ask for verdicts: whatever order they ask in *)
(* is an order in which conditions can be evaluated, so what is proved of  *)
(* the evaluator holds of it inside the engine.                            *)
THEOREM EngineAsksForConditions == EngineSpec => ConditionSpec
<1>1. EngineInit => ConditionInit
  BY DEF EngineInit, ResolverInit
<1>2. [EngineNext]_engineVars => [ConditionNext]_conditionVars
  BY EngineStepsAreConditionSteps
<1> QED BY <1>1, <1>2, PTL DEF EngineSpec, ConditionSpec

(* Every variable of the resolver and the engine keeps its type: whatever  *)
(* of a resource resolved, its components have natural quantities.         *)
THEOREM EngineTypeCorrect == EngineSpec => []EngineTypeOK
<1>1. ASSUME EngineInv PROVE EngineTypeOK
  <2>1. /\ DOMAIN resolved \subseteq Resources /\ DOMAIN priced \subseteq DOMAIN resolved
        /\ failures \in 0..MaxFailures
    BY <1>1 DEF EngineInv, ResolvedAreKept, PricedAsOutcome, FallbacksAreCounted
  <2>2. \A r \in DOMAIN resolved :
          /\ resolved[r].inclusion \in {"INCLUDED", "EXCLUDED", "UNKNOWN"}
          /\ resolved[r].gaps \subseteq DOMAIN Resource(r).properties
          /\ GoodProps(resolved[r].properties)
    BY <1>1 DEF EngineInv, ResolvedAreKept, Kept, GoodProps
  <2>3. ASSUME NEW r \in DOMAIN priced
        PROVE  /\ priced[r].class \in Classes
               /\ priced[r].confidence \in {"HIGH", "MEDIUM", "UNAVAILABLE"}
               /\ \A c \in priced[r].components : c.quantity \in Nat
    <3> DEFINE platform == priced[r].platform
               c == Classify(Resource(r).type, resolved[r].properties, platform.os)
    <3>1. Measured(c)
      BY <2>1, <2>2, ClassifyMeasured
    <3>2. priced[r] = Outcome(r, platform)
      BY <1>1 DEF EngineInv, PricedAsOutcome
    <3> HIDE DEF platform
    <3>3. /\ Outcome(r, platform).class = c.class
          /\ Outcome(r, platform).components = c.components
          /\ Outcome(r, platform).confidence =
               IF c.class = "DETERMINISTIC" THEN ConfidenceOf(c.components, c.excluded)
                                            ELSE "UNAVAILABLE"
      BY Zenon DEF Outcome
    <3> HIDE DEF c
    <3>4. ConfidenceOf(c.components, c.excluded) \in {"HIGH", "MEDIUM", "UNAVAILABLE"}
      BY DEF ConfidenceOf
    <3> QED BY <3>1, <3>2, <3>3, <3>4 DEF Measured, Countable
  <2> QED BY <2>1, <2>2, <2>3 DEF EngineTypeOK
<1> QED BY <1>1, EngineInvHolds, PTL

(* Of any template and whatever conditions it has: a resource is left out  *)
(* only if the stack does not have it.                                     *)
THEOREM InclusionIsTrueHolds == EngineSpec => []InclusionIsTrue
<1>1. EngineInv => InclusionIsTrue
  BY DEF EngineInv, ResolvedAreKept, Kept, InclusionIsTrue
<1> QED BY <1>1, EngineInvHolds, PTL

(* However deep an expression: a property without a recorded failure has   *)
(* the value that CloudFormation gave it, unless its text is that of a     *)
(* dynamic reference, a masked parameter or a number written differently.  *)
THEOREM PropertiesAreDeployedHolds == EngineSpec => []PropertiesAreDeployed
<1>1. EngineInv => PropertiesAreDeployed
  BY DEF EngineInv, ResolvedAreKept, Kept, AsDeployed, PropertiesAreDeployed
<1> QED BY <1>1, EngineInvHolds, PTL

(* Only instances are priced by the platform of an image.                  *)
LEMMA PlatformMattersToInstances ==
  ASSUME NEW type, type # "Instance", NEW props, NEW p, NEW q
  PROVE  Classify(type, props, p) = Classify(type, props, q)
BY Zenon DEF Classify

(* A resource without gaps, of texts that are what was deployed, has the   *)
(* bill of that: its class and components, and what they leave out if it   *)
(* is called certain.                                                      *)
THEOREM FigureIsDeployedHolds == EngineSpec => []FigureIsDeployed
<1>1. ASSUME EngineInv,
             NEW r \in DOMAIN priced, resolved[r].gaps = {}, NoStandIn(r),
             Resource(r).type = "Instance" => ~priced[r].platform.assumed
      PROVE  /\ priced[r].class = Billed(r).class
             /\ priced[r].components = Billed(r).components
             /\ priced[r].confidence = "HIGH" =>
                  /\ Billed(r).excluded = {}
                  /\ \A c \in Billed(r).components : c.product \notin Unlisted
  <2> DEFINE props == resolved[r].properties
             platform == priced[r].platform
             type == Resource(r).type
             image == Text(props, "ImageId")
             os == IF image \in DOMAIN template.images THEN template.images[image]
                                                       ELSE Assumed.os
             c == Classify(type, props, platform.os)
  <2>1. /\ r \in DOMAIN resolved
        /\ priced[r] = Outcome(r, platform)
        /\ \/ platform = Assumed
           \/ ImageOf(r) \in Readable /\ platform = Described(ImageOf(r))
    BY <1>1 DEF EngineInv, PricedAsOutcome
  <2>2. props = Mapping(DeployedProperties(r), TRUE).v
    BY <1>1, <2>1, Zenon DEF EngineInv, ResolvedAreKept, Kept
  <2>3. Billed(r) = Classify(type, props, os)
    BY <2>2, Zenon DEF Billed, DeployedProperties
  <2>4. type = "Instance" => platform.os = os
    <3>1. SUFFICES ASSUME type = "Instance" PROVE platform.os = os
      OBVIOUS
    <3>2. ImageOf(r) \in Readable /\ platform = Described(ImageOf(r))
      BY <1>1, <2>1, <3>1 DEF Assumed
    <3>3. ImageOf(r) = image \/ ImageOf(r) = NoText
      BY Zenon DEF ImageOf
    <3>4. ImageOf(r) = image
      BY <1>1, <3>2, <3>3, NoNameIsUnreadable DEF EngineInv, Shape
    <3> HIDE DEF image, platform
    <3> QED BY <3>2, <3>4 DEF Readable, Described
  <2>5. Billed(r) = c
    <3> HIDE DEF props, os, platform
    <3>1. CASE type = "Instance"
      BY <2>3, <2>4, <3>1
    <3>2. CASE type # "Instance"
      BY <2>3, <3>2, PlatformMattersToInstances
    <3> QED BY <3>1, <3>2
  <2>6. /\ priced[r].class = c.class /\ priced[r].components = c.components
        /\ priced[r].confidence =
             IF c.class = "DETERMINISTIC" THEN ConfidenceOf(c.components, c.excluded)
                                          ELSE "UNAVAILABLE"
    <3>1. /\ Outcome(r, platform).class = c.class
          /\ Outcome(r, platform).components = c.components
          /\ Outcome(r, platform).confidence =
               IF c.class = "DETERMINISTIC" THEN ConfidenceOf(c.components, c.excluded)
                                            ELSE "UNAVAILABLE"
      BY Zenon DEF Outcome
    <3> QED BY <2>1, <3>1
  <2> HIDE DEF c
  <2>7. ConfidenceOf(c.components, c.excluded) = "HIGH" =>
          c.excluded = {} /\ \A x \in c.components : x.product \notin Unlisted
    BY DEF ConfidenceOf
  <2> QED BY <2>5, <2>6, <2>7
<1>2. EngineInv => FigureIsDeployed
  BY <1>1 DEF FigureIsDeployed, NoStandIn
<1> QED BY <1>2, EngineInvHolds, PTL

(* However many instances share an image: no more of them are priced for   *)
(* a platform it has not than calls of DescribeImages failed.              *)
THEOREM OneFallbackPerFailureHolds == EngineSpec => []OneFallbackPerFailure
<1>1. EngineInv => OneFallbackPerFailure
  BY DEF EngineInv, FallbacksAreCounted, WrongPlatforms, OneFallbackPerFailure
<1> QED BY <1>1, EngineInvHolds, PTL
=============================================================================
