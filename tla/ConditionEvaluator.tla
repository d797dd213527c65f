-------------------------- MODULE ConditionEvaluator --------------------------
(***************************************************************************)
(* Evaluation of a template's Conditions block.                            *)
(*                                                                         *)
(* Source: src/src/resolver/conditions.py (ConditionEvaluator).            *)
(*                                                                         *)
(* A boolean expression is a node; its definition names its operands, so   *)
(* the template is a graph and may have cycles through condition names.    *)
(* The recursion of evaluate and evaluate_expression is a stack of frames: *)
(* what is remembered when a condition refers to one that is still being   *)
(* evaluated depends on what is on that stack.                             *)
(***************************************************************************)
EXTENDS Integers, Sequences, FiniteSets

CONSTANTS
  Names,      \* names that references may mention, defined or not
  Nodes,      \* boolean expressions of a template
  NoNode,     \* "nothing is being evaluated"
  Templates   \* the templates considered, see TemplateType

Verdicts == {"true", "false", "unknown"}
Operators == {"equals", "ref", "not", "and", "or"}

Truth(verdict) == verdict = "true"

(* CloudFormation's reading of one expression, given that of its operands. *)
Agrees(t, n) ==
  LET d == t.def[n]
      operands == {d.args[i] : i \in DOMAIN d.args}
  IN  /\ d.op = "equals" /\ d.value # "unknown" => (t.truth[n] <=> Truth(d.value))
      /\ d.op = "ref" /\ d.name \in DOMAIN t.conditions =>
           (t.truth[n] <=> t.truth[t.conditions[d.name]])
      /\ d.op = "not" => (t.truth[n] <=> ~t.truth[d.args[1]])
      /\ d.op = "and" => (t.truth[n] <=> \A a \in operands : t.truth[a])
      /\ d.op = "or" => (t.truth[n] <=> \E a \in operands : t.truth[a])

ASSUME NodesAssumption == IsFiniteSet(Nodes) /\ NoNode \notin Nodes

(* conditions maps the defined names to their bodies.  def is the          *)
(* definition of each node: an equals has a value, "unknown" when an       *)
(* operand does not resolve (or the expression is malformed); a ref has a  *)
(* name; the operands of the others are nodes.  truth is what              *)
(* CloudFormation made of every expression when it deployed the stack.     *)
ASSUME TemplatesAssumption ==
  \A t \in Templates :
    /\ {"conditions", "def", "truth"} \subseteq DOMAIN t
    /\ DOMAIN t.conditions \subseteq Names
    /\ \A c \in DOMAIN t.conditions : t.conditions[c] \in Nodes
    /\ DOMAIN t.def = Nodes
    /\ \A n \in Nodes :
         /\ t.def[n].op \in Operators
         /\ t.def[n].value \in Verdicts
         /\ t.def[n].name \in Names
         /\ t.def[n].args \in Seq(Nodes)
         /\ t.def[n].op = "not" => Len(t.def[n].args) = 1
    /\ t.truth \in [Nodes -> BOOLEAN]
    /\ \A n \in Nodes : Agrees(t, n)

VARIABLES
  template, \* the template of this evaluator
  cache,    \* _cache: verdicts of evaluated conditions
  focus,    \* the expression being evaluated, or whose verdict is returned
  result,   \* that verdict, "none" while it is being evaluated
  frames    \* the calls that wait for it, innermost last

conditionVars == <<template, cache, focus, result, frames>>

Def(n) == template.def[n]
Body(c) == template.conditions[c]
Defined == DOMAIN template.conditions

Idle == focus = NoNode

ConditionInit ==
  /\ template \in Templates
  /\ cache = <<>>
  /\ focus = NoNode
  /\ result = "none"
  /\ frames = <<>>

(***************************************************************************)
(* Frames                                                                  *)
(***************************************************************************)

Top == frames[Len(frames)]
Below == SubSeq(frames, 1, Len(frames) - 1)

(* at is the operand of a junction that is awaited, pending says that an   *)
(* earlier one has no verdict.                                             *)
Frame(n, at, pending) == [node |-> n, at |-> at, pending |-> pending]

(* The expression a frame waits for. *)
Awaited(f) ==
  IF Def(f.node).op = "ref" THEN Body(Def(f.node).name)
                            ELSE Def(f.node).args[f.at]

(* Mutant of InProgress: cycles are not noticed. *)
InProgressNever == {}

(* _in_progress: the conditions whose evaluation has begun. *)
InProgress ==
  {Def(frames[i].node).name : i \in {j \in DOMAIN frames :
                                       Def(frames[j].node).op = "ref"}}

Give(verdict) == result' = verdict /\ UNCHANGED <<focus, frames>>

Call(n, operand) ==
  /\ frames' = Append(frames, Frame(n, 1, FALSE))
  /\ focus' = operand
  /\ result' = "none"

(* The innermost call returns. *)
Return(verdict) ==
  /\ frames' = Below
  /\ focus' = Top.node
  /\ result' = verdict

(***************************************************************************)
(* evaluate and evaluate_expression                                        *)
(***************************************************************************)

(* The resolver asks for the value of an expression. *)
Request(n) ==
  /\ Idle
  /\ focus' = n
  /\ UNCHANGED <<template, cache, result, frames>>

(* ... and is given it. *)
Answer ==
  /\ result # "none" /\ frames = <<>>
  /\ focus' = NoNode
  /\ result' = "none"
  /\ UNCHANGED <<template, cache, frames>>

Evaluating(op) == ~Idle /\ result = "none" /\ Def(focus).op = op

EvaluateEquals ==
  /\ Evaluating("equals")
  /\ Give(Def(focus).value)
  /\ UNCHANGED <<template, cache>>

(* Mutant of EvaluateRef: an undefined condition is remembered as well. *)
EvaluateRefUndefined ==
  /\ Evaluating("ref")
  /\ LET c == Def(focus).name
     IN  \/ c \in DOMAIN cache /\ Give(cache[c]) /\ UNCHANGED cache
         \/ /\ c \notin DOMAIN cache /\ (c \in InProgress \/ c \notin Defined)
            /\ Give("unknown")
            /\ cache' = [d \in DOMAIN cache \cup {c} |->
                           IF d = c THEN "unknown" ELSE cache[d]]
         \/ /\ c \in Defined \ (DOMAIN cache \cup InProgress)
            /\ Call(focus, Body(c)) /\ UNCHANGED cache
  /\ UNCHANGED template

(* evaluate: memoised, undefined, in progress, or evaluated now. *)
EvaluateRef ==
  /\ Evaluating("ref")
  /\ LET c == Def(focus).name
     IN  \/ c \in DOMAIN cache /\ Give(cache[c])
         \/ c \notin DOMAIN cache \cup Defined /\ Give("unknown")
         \/ c \in Defined \ DOMAIN cache /\ c \in InProgress /\ Give("unknown")
         \/ /\ c \in Defined \ (DOMAIN cache \cup InProgress)
            /\ Call(focus, Body(c))
  /\ UNCHANGED <<template, cache>>

EvaluateNot ==
  /\ Evaluating("not")
  /\ Call(focus, Def(focus).args[1])
  /\ UNCHANGED <<template, cache>>

EvaluateJunction ==
  /\ Evaluating("and") \/ Evaluating("or")
  /\ \/ Def(focus).args = <<>> /\ Give("unknown")
     \/ Def(focus).args # <<>> /\ Call(focus, Def(focus).args[1])
  /\ UNCHANGED <<template, cache>>

Returning(op) == result # "none" /\ frames # <<>> /\ Def(Top.node).op = op

(* The condition is done and remembered, whatever its verdict. *)
ReturnToRef ==
  /\ Returning("ref")
  /\ LET c == Def(Top.node).name
     IN  cache' = [d \in DOMAIN cache \cup {c} |->
                     IF d = c THEN result ELSE cache[d]]
  /\ Return(result)
  /\ UNCHANGED template

(* Mutant of Negation: an operand without a verdict counts as false. *)
NegationOfUnknown(verdict) == IF verdict = "true" THEN "false" ELSE "true"

Negation(verdict) ==
  CASE verdict = "true" -> "false"
    [] verdict = "false" -> "true"
    [] verdict = "unknown" -> "unknown"

ReturnToNot ==
  /\ Returning("not")
  /\ Return(Negation(result))
  /\ UNCHANGED <<template, cache>>

Decisive(op) == IF op = "or" THEN "true" ELSE "false"

(* Mutant of Junction: an operand without a verdict is forgotten. *)
JunctionForgets(op, pending) == Negation(Decisive(op))

(* The verdict of a junction no operand of which was decisive. *)
Junction(op, pending) == IF pending THEN "unknown" ELSE Negation(Decisive(op))

(* Mutant of Decides: an unresolved operand ends the evaluation. *)
DecidesUnresolved(op, verdict) == verdict \in {Decisive(op), "unknown"}

Decides(op, verdict) == verdict = Decisive(op)

(* A decisive operand ends the junction even if another has no verdict;    *)
(* otherwise the next one is evaluated.                                    *)
ReturnToJunction ==
  /\ Returning("and") \/ Returning("or")
  /\ LET op == Def(Top.node).op
         args == Def(Top.node).args
         pending == Top.pending \/ result = "unknown"
     IN  \/ Decides(op, result) /\ Return(result)
         \/ /\ ~Decides(op, result) /\ Top.at = Len(args)
            /\ Return(Junction(op, pending))
         \/ /\ ~Decides(op, result) /\ Top.at < Len(args)
            /\ frames' = Append(Below, Frame(Top.node, Top.at + 1, pending))
            /\ focus' = args[Top.at + 1]
            /\ result' = "none"
  /\ UNCHANGED <<template, cache>>

EvaluationStep ==
  \/ EvaluateEquals \/ EvaluateRef \/ EvaluateNot \/ EvaluateJunction
  \/ ReturnToRef \/ ReturnToNot \/ ReturnToJunction
  \/ Answer

ConditionNext == EvaluationStep \/ \E n \in Nodes : Request(n)

ConditionSpec == ConditionInit /\ [][ConditionNext]_conditionVars

(***************************************************************************)
(* Properties                                                              *)
(***************************************************************************)

(* Every variable keeps its type. *)
ConditionTypeOK ==
  /\ DOMAIN cache \subseteq Defined
  /\ \A c \in DOMAIN cache : cache[c] \in Verdicts
  /\ focus \in Nodes \cup {NoNode}
  /\ result \in Verdicts \cup {"none"}
  /\ frames \in Seq([node : Nodes, at : Nat, pending : BOOLEAN])

(* A verdict the resolver is given or remembers is never wrong: whatever   *)
(* cycles there are and whichever condition was asked for first, a         *)
(* condition that is said to hold or not to hold did so when the stack was *)
(* deployed (the memo of evaluate, the short circuits of _eval_junction).  *)
VerdictsAreSound ==
  /\ \A c \in DOMAIN cache :
       cache[c] # "unknown" => Truth(cache[c]) = template.truth[Body(c)]
  /\ result \in {"true", "false"} => Truth(result) = template.truth[focus]

(* No condition is evaluated inside its own evaluation, so the recursion   *)
(* ends ("cycles are detected rather than blowing the stack").             *)
NeverReentered ==
  \A i, j \in DOMAIN frames :
    /\ Def(frames[i].node).op = "ref"
    /\ Def(frames[j].node).op = "ref"
    /\ Def(frames[i].node).name = Def(frames[j].node).name
    => i = j

(* Reference definition: the least fixed point of Kleene's three-valued    *)
(* logic, reached from "unknown" everywhere in as many rounds as there are *)
(* expressions.                                                            *)
KleeneStep(t, v) ==
  [n \in Nodes |->
     LET d == t.def[n]
         operands == {v[d.args[i]] : i \in DOMAIN d.args}
     IN  CASE d.op = "equals" -> d.value
           [] d.op = "ref" -> IF d.name \in DOMAIN t.conditions
                              THEN v[t.conditions[d.name]] ELSE "unknown"
           [] d.op = "not" -> Negation(v[d.args[1]])
           [] OTHER -> IF operands = {} THEN "unknown"
                       ELSE IF Decisive(d.op) \in operands THEN Decisive(d.op)
                       ELSE IF "unknown" \in operands THEN "unknown"
                       ELSE Negation(Decisive(d.op))]

Kleene(t) ==
  LET round[i \in 0..Cardinality(Nodes)] ==
        IF i = 0 THEN [n \in Nodes |-> "unknown"] ELSE KleeneStep(t, round[i - 1])
  IN  round[Cardinality(Nodes)]

Depends(t, n) ==
  LET d == t.def[n]
  IN  {d.args[i] : i \in DOMAIN d.args}
        \cup (IF d.op = "ref" /\ d.name \in DOMAIN t.conditions
              THEN {t.conditions[d.name]} ELSE {})

(* The expressions that depend on no cycle. *)
WellFounded(t) ==
  LET round[i \in 0..Cardinality(Nodes)] ==
        IF i = 0 THEN {}
        ELSE LET before == round[i - 1]
             IN  {n \in Nodes : Depends(t, n) \subseteq before}
  IN  round[Cardinality(Nodes)]

(* Nothing that can be known is missed, and the order of the requests does *)
(* not show: outside cycles the verdict is that of Kleene's logic, inside  *)
(* them it is that or "unknown".                                           *)
VerdictsAreKleene ==
  Idle /\ cache # <<>> =>
    LET kleene == Kleene(template)
        wellFounded == WellFounded(template)
    IN  \A c \in DOMAIN cache :
          \/ cache[c] = kleene[Body(c)]
          \/ cache[c] = "unknown" /\ Body(c) \notin wellFounded
==============================================================================
