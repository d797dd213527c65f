--------------------------- MODULE TemplateResolver ---------------------------
(***************************************************************************)
(* Resolution of a template's resources against the values a stack was     *)
(* deployed with.                                                          *)
(*                                                                         *)
(* Source: src/src/resolver/resolver.py (TemplateResolver), parameters.py  *)
(* (ParameterStore), models.py (Inclusion, NoValue, stringify).            *)
(*                                                                         *)
(* A text is the sequence of its comma-separated parts, so that joining,   *)
(* splitting and list parameters are concatenation and its inverse.        *)
(* Beside what the resolver derives stands what CloudFormation deployed;   *)
(* the point of the module is that the two agree.  Expressions are trees,  *)
(* and what is made of them are functions of all there are.                *)
(*                                                                         *)
(* Templates have, beyond what ConditionEvaluator uses:                    *)
(*   resources   logical ID -> [type, condition, properties, ...]          *)
(*   supplied    parameter -> text, as DescribeStacks returns it           *)
(*   defaults    parameter -> text                                         *)
(*   listTyped   parameters of a list type                                 *)
(*   numberTyped parameters of type Number or List<Number>                 *)
(*   given       name -> text it was deployed with, of referenced names    *)
(*               that are no parameters, such as resources, and of the     *)
(*               parameters whose text is not theirs: DescribeStacks masks *)
(*               what is declared NoEcho, and does not replace a dynamic   *)
(*               reference                                                 *)
(*   mappings    text -> text, the pairs of keys of Mappings               *)
(***************************************************************************)
EXTENDS ConditionEvaluator, SequencesExt

CONSTANTS
  Expressions, \* the values of properties in the templates, and their parts
  Depth,       \* how deep each is nested
  MaxDepth,    \* the deepest
  Canonical    \* numeral -> what Python writes for its number, where it differs

ASSUME CanonicalAssumption == \A text \in DOMAIN Canonical : Canonical[text] \in STRING

Forms ==
  {"literal", "array", "object", "ref", "runtime", "dynamic", "if", "find", "select",
   "join", "split"}

(* What an expression is made of. *)
Parts(e) ==
  CASE e.fn = "array" -> {e.items[i] : i \in DOMAIN e.items}
    [] e.fn = "object" -> {e.fields[f] : f \in DOMAIN e.fields}
    [] e.fn = "if" -> {e.yes, e.no}
    [] e.fn = "find" -> {e.key, e.default}
    [] e.fn \in {"dynamic", "select", "join", "split"} -> {e.of}
    [] OTHER -> {}

(* An Fn::If names a condition; the index of an Fn::Select that was        *)
(* deployed is none of those that only Python takes.                       *)
ASSUME ExpressionsAssumption ==
  /\ MaxDepth \in Nat
  /\ Depth \in [Expressions -> 0..MaxDepth]
  /\ \A e \in Expressions :
       /\ e.fn \in Forms
       /\ Parts(e) \subseteq Expressions
       /\ \A part \in Parts(e) : Depth[part] < Depth[e]
       /\ e.fn = "literal" => e.parts \in Seq(STRING)
       /\ e.fn = "array" => e.items \in Seq(Expressions)
       /\ e.fn = "select" => e.index \in Nat
       /\ e.fn = "if" => /\ e.condition \in Nodes
                         /\ \A t \in Templates : t.def[e.condition].op = "ref"

ASSUME ResourcesAssumption ==
  \A t \in Templates :
    /\ {"resources", "supplied", "defaults", "given", "mappings"} \subseteq DOMAIN t
    /\ \A r \in DOMAIN t.resources :
         LET declared == t.resources[r]
         IN  /\ \A p \in DOMAIN declared.properties :
                  declared.properties[p] \in Expressions
             /\ declared.condition # NoNode =>
                  /\ declared.condition \in Nodes
                  /\ t.def[declared.condition].op = "ref"
    /\ \A p \in DOMAIN t.supplied : t.supplied[p] \in Seq(STRING)
    /\ \A p \in DOMAIN t.defaults : t.defaults[p] \in Seq(STRING)
    /\ \A k \in DOMAIN t.mappings : t.mappings[k] \in Seq(STRING)

VARIABLE resolved  \* the resources done so far: inclusion, properties, gaps

resolverVars == <<conditionVars, resolved>>

(***************************************************************************)
(* Values                                                                  *)
(***************************************************************************)

(* Beside a value stands its text. *)
Scalar(parts) == [kind |-> "scalar", v |-> parts, text |-> parts]
Object(fields) == [kind |-> "object", v |-> fields, text |-> <<"object">>]
NoValue == [kind |-> "novalue", v |-> <<>>, text |-> <<>>]
Unresolved == [kind |-> "unresolved", v |-> <<>>, text |-> <<>>]

(* stringify: lists join on commas. *)
List(items) ==
  [kind |-> "list", v |-> items,
   text |-> FlattenSeq([i \in DOMAIN items |-> items[i].text])]

Stringify(value) == value.text

IsResolved(value) == value.kind # "unresolved"

(* Has a value that is not the absence of one. *)
IsPresent(value) == value.kind \notin {"unresolved", "novalue"}

(* A list of texts. *)
Texts(parts) == List([i \in DOMAIN parts |-> Scalar(<<parts[i]>>)])

(* The value of a text that is declared a list, or not. *)
AsDeclared(parts, isList) == IF isList THEN Texts(parts) ELSE Scalar(parts)

(* _coerce_number: "01" becomes 1, which is written "1". *)
Rewritten(text) == IF text \in DOMAIN Canonical THEN Canonical[text] ELSE text

(* _coerce: text that was declared a list becomes one, numerals numbers. *)
Coerce(parts, isList, isNumber) ==
  AsDeclared(IF isNumber THEN [i \in DOMAIN parts |-> Rewritten(parts[i])] ELSE parts,
             isList)

(* ParameterStore.build: supplied values over defaults. *)
Parameters(t) == DOMAIN t.supplied \cup DOMAIN t.defaults
ParameterText(t, p) ==
  IF p \in DOMAIN t.supplied THEN t.supplied[p] ELSE t.defaults[p]
ParameterValues(t) ==
  [p \in Parameters(t) |->
     Coerce(ParameterText(t, p), p \in t.listTyped, p \in t.numberTyped)]

(* Strictly, a sequence or mapping is only resolved if all members are. *)
Fails(members, strict) == strict /\ \E i \in DOMAIN members : ~IsResolved(members[i])

(* _resolve_sequence, once the members are resolved. *)
Sequence(items, strict) ==
  IF Fails(items, strict) THEN Unresolved
  ELSE List(FlattenSeq([i \in DOMAIN items |->
                          IF IsPresent(items[i]) THEN <<items[i]>> ELSE <<>>]))

(* _resolve_mapping, likewise.  Fields may be absent of a resolved object. *)
Mapping(fields, strict) ==
  IF Fails(fields, strict) THEN Unresolved
  ELSE Object([f \in {g \in DOMAIN fields : IsPresent(fields[g])} |-> fields[f]])

(* Mutant of SelectItem: the index counts from one. *)
SelectItemFromOne(items, index) ==
  IF index \in 1..Len(items) THEN items[index] ELSE Unresolved

(* Fn::Select, with the indices Python takes. *)
SelectItem(items, index) ==
  IF index \in 0..(Len(items) - 1) THEN items[index + 1]
  ELSE IF index \in (0 - Len(items))..(0 - 1) THEN items[Len(items) + index + 1]
  ELSE Unresolved

(***************************************************************************)
(* Conditions                                                              *)
(***************************************************************************)

(* evaluate has nothing left to do for this reference. *)
Settled(n) == Def(n).name \notin Defined \ DOMAIN cache

(* Mutant of Verdict: what cannot be evaluated is false. *)
VerdictOrFalse(n) ==
  IF Def(n).name \in DOMAIN cache /\ cache[Def(n).name] = "true"
  THEN "true" ELSE "false"

Verdict(n) ==
  IF Def(n).name \in DOMAIN cache THEN cache[Def(n).name] ELSE "unknown"

(***************************************************************************)
(* Expressions                                                             *)
(***************************************************************************)

(* Ref: NoValue, parameters, then resources and undeclared names. *)
RefValue(name) ==
  IF name = "AWS::NoValue" THEN NoValue
  ELSE IF name \in DOMAIN ParameterValues(template) THEN ParameterValues(template)[name]
  ELSE Unresolved

(* _resolve and _dispatch of an expression, strictly or not, with what     *)
(* they make of the members of an array or object (member) and of other    *)
(* parts, which are always resolved strictly (whole).  runtime stands for  *)
(* the functions a template cannot answer, value being what they turned    *)
(* out to be when the stack was deployed; join stands also for Sub and     *)
(* Base64.  A dynamic reference, "{{resolve:...}}", is text like any other *)
(* to the resolver, be it written down or composed; CloudFormation         *)
(* replaces it by a value.                                                 *)
ResolveWith(e, strict, member, whole) ==
  CASE e.fn = "literal" -> Scalar(e.parts)
    [] e.fn = "array" ->
         Sequence([i \in DOMAIN e.items |-> member[e.items[i]]], strict)
    [] e.fn = "object" ->
         Mapping([f \in DOMAIN e.fields |-> member[e.fields[f]]], strict)
    [] e.fn = "ref" -> RefValue(e.name)
    [] e.fn = "runtime" -> Unresolved
    [] e.fn = "dynamic" -> whole[e.of]
    [] e.fn = "if" ->
         (CASE Verdict(e.condition) = "true" -> whole[e.yes]
            [] Verdict(e.condition) = "false" -> whole[e.no]
            [] OTHER -> Unresolved)
    [] e.fn = "find" ->
         LET key == whole[e.key]
         IN  IF ~IsResolved(key) THEN Unresolved
             ELSE IF Stringify(key) \in DOMAIN template.mappings
             THEN Scalar(template.mappings[Stringify(key)])
             ELSE whole[e.default]
    [] e.fn = "select" ->
         LET items == whole[e.of]
         IN  IF items.kind = "list" THEN SelectItem(items.v, e.index)
                                    ELSE Unresolved
    [] e.fn = "join" ->
         LET items == whole[e.of]
         IN  IF items.kind = "list" THEN Scalar(Stringify(items)) ELSE Unresolved
    [] e.fn = "split" ->
         LET source == whole[e.of]
         IN  IF IsResolved(source) THEN Texts(Stringify(source)) ELSE Unresolved

(* Resolution with strict set, and without. *)
ResolveStrictly ==
  LET value[e \in Expressions] == ResolveWith(e, TRUE, value, value) IN value
Resolve ==
  LET value[e \in Expressions] == ResolveWith(e, FALSE, value, ResolveStrictly)
  IN  value

(* The text a name was deployed with. *)
GivenText(t, name) ==
  IF name \in DOMAIN t.given THEN t.given[name] ELSE ParameterText(t, name)

(* CloudFormation's value of an expression, given those of its parts.      *)
(* Numerals stay as they are written.                                      *)
DeployWith(t, e, value) ==
  CASE e.fn = "literal" -> Scalar(e.parts)
    [] e.fn = "array" ->
         Sequence([i \in DOMAIN e.items |-> value[e.items[i]]], TRUE)
    [] e.fn = "object" ->
         Mapping([f \in DOMAIN e.fields |-> value[e.fields[f]]], TRUE)
    [] e.fn = "ref" ->
         IF e.name = "AWS::NoValue" THEN NoValue
         ELSE AsDeclared(GivenText(t, e.name), e.name \in t.listTyped)
    [] e.fn \in {"runtime", "dynamic"} -> e.value
    [] e.fn = "if" -> IF t.truth[e.condition] THEN value[e.yes] ELSE value[e.no]
    [] e.fn = "find" ->
         IF Stringify(value[e.key]) \in DOMAIN t.mappings
         THEN Scalar(t.mappings[Stringify(value[e.key])]) ELSE value[e.default]
    [] e.fn = "select" -> value[e.of].v[e.index + 1]
    [] e.fn = "join" -> Scalar(Stringify(value[e.of]))
    [] e.fn = "split" -> Texts(Stringify(value[e.of]))

Deployed(t) ==
  LET value[e \in Expressions] == DeployWith(t, e, value) IN value

(* A text that is not what was deployed, and that the resolver cannot      *)
(* tell from one that is: that of a dynamic reference, of a parameter with *)
(* a mask, of a number that Python writes differently.                     *)
StandInRef(name) ==
  /\ name \in Parameters(template)
  /\ \/ name \in DOMAIN template.given
     \/ /\ name \in template.numberTyped
        /\ \E i \in DOMAIN ParameterText(template, name) :
             ParameterText(template, name)[i] \in DOMAIN Canonical

(* The parts of an expression that are such texts, other than in a branch  *)
(* that is not taken.                                                      *)
StandInsWith(e, standIns) ==
  CASE e.fn = "dynamic" -> {e}
    [] e.fn = "ref" -> IF StandInRef(e.name) THEN {e} ELSE {}
    [] e.fn = "if" -> standIns[IF template.truth[e.condition] THEN e.yes ELSE e.no]
    [] OTHER -> UNION {standIns[part] : part \in Parts(e)}

StandIns ==
  LET standIns[e \in Expressions] == StandInsWith(e, standIns) IN standIns

(* The conditions that resolving an expression asks for, as far as the     *)
(* verdicts so far tell which branches are taken.                          *)
Consults[e \in Expressions] ==
  IF e.fn # "if" THEN UNION {Consults[part] : part \in Parts(e)}
  ELSE {e.condition} \cup
       (CASE ~Settled(e.condition) -> {}
          [] Settled(e.condition) /\ Verdict(e.condition) = "true" -> Consults[e.yes]
          [] Settled(e.condition) /\ Verdict(e.condition) = "false" -> Consults[e.no]
          [] OTHER -> {})

(* The failures the sink records: the independent members of sequences and *)
(* mappings fail on their own.                                             *)
SinkWith(e, sink) ==
  IF e.fn \in {"array", "object"} THEN UNION {sink[part] : part \in Parts(e)}
  ELSE IF IsResolved(Resolve[e]) THEN {} ELSE {e}

Sink ==
  LET sink[e \in Expressions] == SinkWith(e, sink) IN sink

(***************************************************************************)
(* Resources                                                               *)
(***************************************************************************)

Resources == DOMAIN template.resources
Resource(r) == template.resources[r]

(* Mutant of InclusionOf: an unknown condition excludes the resource. *)
InclusionOfKnown(r) ==
  IF Resource(r).condition = NoNode \/ Verdict(Resource(r).condition) = "true"
  THEN "INCLUDED" ELSE "EXCLUDED"

(* _determine_inclusion: included but flagged if the condition is unknown. *)
InclusionOf(r) ==
  LET c == Resource(r).condition
  IN  CASE c = NoNode -> "INCLUDED"
        [] c # NoNode /\ Verdict(c) = "true" -> "INCLUDED"
        [] c # NoNode /\ Verdict(c) = "false" -> "EXCLUDED"
        [] OTHER -> "UNKNOWN"

(* Does the deployed stack have the resource? *)
Exists(r) == Resource(r).condition = NoNode \/ template.truth[Resource(r).condition]

Needed(r) ==
  LET properties == Resource(r).properties
  IN  {n \in Nodes :
         /\ \/ n = Resource(r).condition
            \/ \E p \in DOMAIN properties : n \in Consults[properties[p]]
         /\ ~Settled(n)}

(* evaluate is called on the way, from the resource or from an Fn::If. *)
Consult ==
  /\ \E r \in Resources \ DOMAIN resolved : \E n \in Needed(r) : Request(n)
  /\ UNCHANGED resolved

(* resolve_resource, in whatever order the template lists the resources. *)
ResolveResource(r) ==
  /\ Idle
  /\ r \notin DOMAIN resolved
  /\ Needed(r) = {}
  /\ LET properties == Resource(r).properties
         outcome == [inclusion |-> InclusionOf(r),
                     properties |->
                       Mapping([p \in DOMAIN properties |->
                                  Resolve[properties[p]]], FALSE).v,
                     gaps |-> {p \in DOMAIN properties : Sink[properties[p]] # {}}]
     IN  resolved' = [s \in DOMAIN resolved \cup {r} |->
                        IF s = r THEN outcome ELSE resolved[s]]
  /\ UNCHANGED conditionVars

ResolverInit == ConditionInit /\ resolved = <<>>

ResolverNext ==
  \/ EvaluationStep /\ UNCHANGED resolved
  \/ Consult
  \/ \E r \in Resources : ResolveResource(r)

(***************************************************************************)
(* Properties                                                              *)
(***************************************************************************)

(* A resource is only excluded if the stack does not have it, and only     *)
(* included without a flag if it has (_determine_inclusion).               *)
InclusionIsTrue ==
  \A r \in DOMAIN resolved :
    /\ resolved[r].inclusion = "EXCLUDED" => ~Exists(r)
    /\ resolved[r].inclusion = "INCLUDED" => Exists(r)

(* "Never guess": a property without a recorded failure has the value it   *)
(* was deployed with, or is absent because it was deployed absent, unless  *)
(* a text stands in it that the resolver takes for the value.              *)
PropertiesAreDeployed ==
  \A r \in DOMAIN resolved : Exists(r) =>
    \A p \in DOMAIN Resource(r).properties \ resolved[r].gaps :
      LET property == Resource(r).properties[p]
          deployed == Deployed(template)[property]
      IN  StandIns[property] = {} =>
            IF p \in DOMAIN resolved[r].properties
            THEN resolved[r].properties[p] = deployed
            ELSE deployed = NoValue
==============================================================================
