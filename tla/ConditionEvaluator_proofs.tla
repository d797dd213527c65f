---------------------- MODULE ConditionEvaluator_proofs -----------------------
(***************************************************************************)
(* What the evaluator of conditions answers for any template: never a      *)
(* wrong verdict, never less than can be known outside cycles, and never   *)
(* by evaluating a condition inside itself.                                *)
(***************************************************************************)
EXTENDS ConditionEvaluator, SequenceTheorems, FiniteSetTheorems, WellFoundedInduction,
        TLAPS

FrameType == [node : Nodes, at : Nat, pending : BOOLEAN]

(* The operand a frame waits for. *)
Operand(f) == Def(f.node).args[f.at]

(* A frame is at an operand of its node. *)
FrameFits(f) ==
  /\ Def(f.node).op # "equals"
  /\ Def(f.node).op = "ref" => Def(f.node).name \in Defined
  /\ Def(f.node).op # "ref" => f.at \in 1..Len(Def(f.node).args)
  /\ Def(f.node).op = "not" => f.at = 1

(* What each frame waits for is the node of the next, the last for focus.  *)
Chained ==
  \A i \in 1..Len(frames) :
    /\ FrameFits(frames[i])
    /\ Awaited(frames[i]) = IF i = Len(frames) THEN focus ELSE frames[i + 1].node

(* Operands that were passed over, all with a verdict, were not decisive.  *)
PassedOver(f) ==
  Def(f.node).op \in {"and", "or"} /\ ~f.pending =>
    \A j \in 1..(f.at - 1) :
      template.truth[Def(f.node).args[j]] # Truth(Decisive(Def(f.node).op))

Shape ==
  /\ template \in Templates
  /\ ConditionTypeOK
  /\ Idle => frames = <<>> /\ result = "none"
  /\ Chained

(* The strengthening under which soundness is inductive. *)
Sound ==
  /\ VerdictsAreSound
  /\ \A i \in 1..Len(frames) : PassedOver(frames[i])

(***************************************************************************)
(* Templates                                                               *)
(***************************************************************************)

(* What the assumption on templates says of the one that is evaluated. *)
LEMMA TemplateFacts ==
  ASSUME template \in Templates
  PROVE  /\ \A c \in Defined : c \in Names /\ Body(c) \in Nodes
         /\ \A n \in Nodes :
              /\ Def(n).op \in Operators
              /\ Def(n).value \in Verdicts
              /\ Def(n).args \in Seq(Nodes)
              /\ Def(n).op = "not" => Len(Def(n).args) = 1
         /\ template.truth \in [Nodes -> BOOLEAN]
BY TemplatesAssumption DEF Defined, Body, Def

LEMMA TruthOfNode ==
  ASSUME template \in Templates, NEW n \in Nodes
  PROVE  /\ Def(n).op = "equals" /\ Def(n).value # "unknown" =>
              (template.truth[n] <=> Truth(Def(n).value))
         /\ Def(n).op = "ref" /\ Def(n).name \in Defined =>
              (template.truth[n] <=> template.truth[Body(Def(n).name)])
         /\ Def(n).op = "not" => (template.truth[n] <=> ~template.truth[Def(n).args[1]])
         /\ Def(n).op = "and" =>
              (template.truth[n] <=>
                \A i \in 1..Len(Def(n).args) : template.truth[Def(n).args[i]])
         /\ Def(n).op = "or" =>
              (template.truth[n] <=>
                \E i \in 1..Len(Def(n).args) : template.truth[Def(n).args[i]])
<1>1. Agrees(template, n) /\ Def(n).args \in Seq(Nodes) /\ Def(n) = template.def[n]
  BY TemplatesAssumption DEF Def
<1>2. DOMAIN Def(n).args = 1..Len(Def(n).args)
  BY <1>1
<1>3. Def(n).op = "and" =>
        (template.truth[n] <=>
          \A a \in {Def(n).args[i] : i \in DOMAIN Def(n).args} : template.truth[a])
  BY <1>1, Zenon DEF Agrees
<1>4. Def(n).op = "or" =>
        (template.truth[n] <=>
          \E a \in {Def(n).args[i] : i \in DOMAIN Def(n).args} : template.truth[a])
  BY <1>1, Zenon DEF Agrees
<1>5. Def(n).op = "equals" /\ Def(n).value # "unknown" =>
        (template.truth[n] <=> Truth(Def(n).value))
  BY <1>1 DEF Agrees
<1>6. Def(n).op = "ref" /\ Def(n).name \in Defined =>
        (template.truth[n] <=> template.truth[Body(Def(n).name)])
  BY <1>1 DEF Agrees, Defined, Body
<1>7. Def(n).op = "not" => (template.truth[n] <=> ~template.truth[Def(n).args[1]])
  BY <1>1 DEF Agrees
<1> QED BY <1>2, <1>3, <1>4, <1>5, <1>6, <1>7

(***************************************************************************)
(* Frames                                                                  *)
(***************************************************************************)

(* The stack without its innermost frame. *)
LEMMA BelowFacts ==
  ASSUME frames \in Seq(FrameType), frames # <<>>
  PROVE  /\ Below \in Seq(FrameType)
         /\ Len(frames) \in Nat \ {0}
         /\ Len(Below) = Len(frames) - 1
         /\ \A i \in 1..Len(Below) : Below[i] = frames[i]
         /\ Top \in FrameType
<1>1. Len(frames) \in Nat \ {0}
  BY EmptySeq, LenProperties
<1>2. \A i \in 1..(Len(frames) - 1) : frames[i] \in FrameType
  BY <1>1, ElementOfSeq
<1> DEFINE n == Len(frames) - 1
<1>3. n \in Nat
  BY <1>1
<1>5. /\ SubSeq(frames, 1, n) \in Seq(FrameType)
      /\ Len(SubSeq(frames, 1, n)) = IF 1 <= n THEN n - 1 + 1 ELSE 0
      /\ \A i \in 1..(n - 1 + 1) : SubSeq(frames, 1, n)[i] = frames[1 + i - 1]
  <2> HIDE DEF n
  <2>1. 1 \in Int /\ n \in Int
    BY <1>3
  <2>2. \A i \in 1..n : frames[i] \in FrameType
    BY <1>2 DEF n
  <2> QED BY <2>1, <2>2, SubSeqProperties
<1>7. Below = SubSeq(frames, 1, n)
  BY DEF Below
<1> HIDE DEF n
<1>6. (IF 1 <= n THEN n - 1 + 1 ELSE 0) = n /\ n - 1 + 1 = n /\ \A i \in 1..n : 1 + i - 1 = i
  BY <1>3
<1>8. /\ Below \in Seq(FrameType) /\ Len(Below) = n
      /\ \A i \in 1..n : Below[i] = frames[i]
  BY <1>5, <1>6, <1>7
<1>4. Top \in FrameType
  BY <1>1, ElementOfSeq DEF Top
<1> QED BY <1>1, <1>4, <1>8 DEF n

(* The stack with one more frame. *)
LEMMA AppendFacts ==
  ASSUME NEW stack \in Seq(FrameType), NEW f \in FrameType
  PROVE  /\ Len(stack) \in Nat
         /\ Append(stack, f) \in Seq(FrameType)
         /\ Len(Append(stack, f)) = Len(stack) + 1
         /\ \A i \in 1..Len(stack) : Append(stack, f)[i] = stack[i]
         /\ Append(stack, f)[Len(stack) + 1] = f
BY AppendProperties, LenProperties

(* A call puts a frame that fits on top of the chain. *)
LEMMA ShapeAfterCall ==
  ASSUME Shape, ~Idle, result = "none", NEW operand \in Nodes,
         Call(focus, operand), UNCHANGED <<template, cache>>,
         FrameFits(Frame(focus, 1, FALSE)), Awaited(Frame(focus, 1, FALSE)) = operand
  PROVE  Shape'
<1> DEFINE f == Frame(focus, 1, FALSE)
<1>1. f \in FrameType /\ f.node = focus /\ frames \in Seq(FrameType)
  BY DEF Shape, ConditionTypeOK, Idle, Frame, FrameType
<1>0. FrameFits(f) /\ Awaited(f) = operand
  OBVIOUS
<1>2. frames' = Append(frames, f) /\ focus' = operand /\ result' = "none"
  BY DEF Call
<1>3. /\ frames' \in Seq(FrameType) /\ Len(frames') = Len(frames) + 1 /\ Len(frames) \in Nat
      /\ \A i \in 1..Len(frames) : frames'[i] = frames[i]
      /\ frames'[Len(frames) + 1] = f
  BY <1>1, <1>2, AppendFacts
<1> HIDE DEF f
<1>4. ASSUME NEW i \in 1..Len(frames')
      PROVE  /\ FrameFits(frames[i])'
             /\ Awaited(frames[i])' =
                  IF i = Len(frames') THEN focus' ELSE frames'[i + 1].node
  <2>1. CASE i = Len(frames')
    <3>1. frames'[i] = f
      BY <1>3, <2>1
    <3> QED BY <1>0, <1>2, <2>1, <3>1 DEF FrameFits, Awaited, Def, Body, Defined
  <2>2. CASE i \in 1..Len(frames)
    <3>1. frames'[i] = frames[i] /\ FrameFits(frames[i])
          /\ Awaited(frames[i]) = IF i = Len(frames) THEN focus ELSE frames[i + 1].node
      BY <1>3, <2>2 DEF Shape, Chained
    <3>2. Awaited(frames[i]) = frames'[i + 1].node
      <4>1. CASE i = Len(frames)
        BY <1>1, <1>3, <3>1, <4>1
      <4>2. CASE i # Len(frames)
        BY <1>3, <2>2, <3>1, <4>2
      <4> QED BY <4>1, <4>2
    <3> QED BY <1>3, <2>2, <3>1, <3>2 DEF FrameFits, Awaited, Def, Body, Defined
  <2> QED BY <1>3, <2>1, <2>2
<1>5. Chained'
  BY <1>4 DEF Chained
<1>6. ConditionTypeOK'
  BY <1>2, <1>3 DEF Shape, ConditionTypeOK, Defined, FrameType
<1>7. operand # NoNode
  BY NodesAssumption
<1> QED BY <1>2, <1>5, <1>6, <1>7 DEF Shape, Idle

(* A return takes the innermost frame off, and its node is in focus again. *)
LEMMA ShapeAfterReturn ==
  ASSUME Shape, result # "none", frames # <<>>, NEW verdict \in Verdicts,
         Return(verdict), template' = template,
         DOMAIN cache' \subseteq Defined, \A c \in DOMAIN cache' : cache'[c] \in Verdicts
  PROVE  Shape'
<1>1. /\ Below \in Seq(FrameType) /\ Len(frames) \in Nat \ {0}
      /\ Len(Below) = Len(frames) - 1
      /\ \A i \in 1..Len(Below) : Below[i] = frames[i]
      /\ Top \in FrameType
  BY BelowFacts DEF Shape, ConditionTypeOK, FrameType
<1>2. frames' = Below /\ focus' = Top.node /\ result' = verdict
  BY DEF Return
<1>3. ASSUME NEW i \in 1..Len(frames')
      PROVE  /\ FrameFits(frames[i])'
             /\ Awaited(frames[i])' =
                  IF i = Len(frames') THEN focus' ELSE frames'[i + 1].node
  <2>1. i \in 1..Len(frames) /\ i # Len(frames) /\ frames'[i] = frames[i]
    BY <1>1, <1>2
  <2>2. FrameFits(frames[i]) /\ Awaited(frames[i]) = frames[i + 1].node
    BY <2>1 DEF Shape, Chained
  <2>3. frames[i + 1].node = IF i = Len(frames') THEN focus' ELSE frames'[i + 1].node
    BY <1>1, <1>2, <2>1 DEF Top
  <2> QED BY <2>1, <2>2, <2>3 DEF FrameFits, Awaited, Def, Body, Defined
<1>4. Chained'
  BY <1>3 DEF Chained
<1>5. ConditionTypeOK'
  BY <1>1, <1>2 DEF Shape, ConditionTypeOK, Defined, FrameType
<1>6. focus' # NoNode
  BY <1>1, <1>2, NodesAssumption DEF FrameType
<1> QED BY <1>2, <1>4, <1>5, <1>6 DEF Shape, Idle

(* The innermost frame, at its next operand. *)
Advance(pending) ==
  /\ frames' = Append(Below, Frame(Top.node, Top.at + 1, pending))
  /\ focus' = Def(Top.node).args[Top.at + 1]
  /\ result' = "none"

(* The innermost frame and the one that waits for it. *)
LEMMA TopFacts ==
  ASSUME Shape, frames # <<>>
  PROVE  /\ Top \in FrameType /\ FrameFits(Top) /\ Awaited(Top) = focus
         /\ Top = frames[Len(frames)] /\ Len(frames) \in Nat \ {0}
<1>1. Len(frames) \in Nat \ {0} /\ Top \in FrameType
  BY BelowFacts DEF Shape, ConditionTypeOK, FrameType
<1>2. Top = frames[Len(frames)]
  BY DEF Top
<1>3. Len(frames) \in 1..Len(frames)
  BY <1>1
<1> QED BY <1>1, <1>2, <1>3 DEF Shape, Chained

LEMMA ShapeAfterAdvance ==
  ASSUME Shape, frames # <<>>, Def(Top.node).op \in {"and", "or"},
         Top.at < Len(Def(Top.node).args), NEW pending \in BOOLEAN,
         Advance(pending), UNCHANGED <<template, cache>>
  PROVE  Shape'
<1> DEFINE f == Frame(Top.node, Top.at + 1, pending)
<1>1. /\ Below \in Seq(FrameType) /\ Len(frames) \in Nat \ {0}
      /\ Len(Below) = Len(frames) - 1
      /\ \A i \in 1..Len(Below) : Below[i] = frames[i]
  BY BelowFacts DEF Shape, ConditionTypeOK, FrameType
<1>2. Top \in FrameType /\ FrameFits(Top) /\ Top = frames[Len(frames)]
  BY TopFacts
<1>3. f \in FrameType /\ f.node = Top.node /\ f.at = Top.at + 1
  BY <1>2 DEF Frame, FrameType
<1>4. Def(Top.node).args \in Seq(Nodes)
  BY <1>2, TemplateFacts DEF Shape, FrameType
<1>5. Top.at \in 1..Len(Def(Top.node).args) /\ Top.at + 1 \in 1..Len(Def(Top.node).args)
  BY <1>2, <1>4 DEF FrameFits, FrameType
<1>6. focus' = Def(Top.node).args[Top.at + 1] /\ focus' \in Nodes /\ result' = "none"
  BY <1>4, <1>5, ElementOfSeq DEF Advance
<1>7. FrameFits(f) /\ Awaited(f) = focus'
  BY <1>3, <1>5, <1>6 DEF FrameFits, Awaited
<1>8. frames' = Append(Below, f)
  BY DEF Advance
<1> HIDE DEF f
<1>9. /\ frames' \in Seq(FrameType) /\ Len(frames') = Len(frames)
      /\ \A i \in 1..(Len(frames) - 1) : frames'[i] = frames[i]
      /\ frames'[Len(frames)] = f
  BY <1>1, <1>3, <1>8, AppendFacts
<1>10. ASSUME NEW i \in 1..Len(frames')
       PROVE  /\ FrameFits(frames[i])'
              /\ Awaited(frames[i])' =
                   IF i = Len(frames') THEN focus' ELSE frames'[i + 1].node
  <2>1. CASE i = Len(frames)
    <3>1. frames'[i] = f
      BY <1>9, <2>1
    <3> QED BY <1>7, <1>9, <2>1, <3>1 DEF FrameFits, Awaited, Def, Body, Defined
  <2>2. CASE i # Len(frames)
    <3>1. i \in 1..(Len(frames) - 1) /\ i \in 1..Len(frames) /\ i + 1 \in 1..Len(frames)
      BY <1>1, <1>9, <2>2
    <3>2. frames'[i] = frames[i] /\ FrameFits(frames[i])
          /\ Awaited(frames[i]) = frames[i + 1].node
      BY <1>9, <2>2, <3>1 DEF Shape, Chained
    <3>3. frames[i + 1].node = frames'[i + 1].node
      <4>1. CASE i + 1 = Len(frames)
        BY <1>2, <1>3, <1>9, <4>1
      <4>2. CASE i + 1 # Len(frames)
        <5>1. i + 1 \in 1..(Len(frames) - 1)
          BY <1>1, <3>1, <4>2
        <5> QED BY <1>9, <5>1
      <4> QED BY <4>1, <4>2
    <3> QED BY <1>9, <2>2, <3>2, <3>3 DEF FrameFits, Awaited, Def, Body, Defined
  <2> QED BY <2>1, <2>2
<1>11. Chained'
  BY <1>10 DEF Chained
<1>12. ConditionTypeOK'
  BY <1>6, <1>9 DEF Shape, ConditionTypeOK, Defined, FrameType
<1> QED BY <1>6, <1>11, <1>12, NodesAssumption DEF Shape, Idle

(* A verdict for the expression in focus. *)
LEMMA ShapeAfterGive ==
  ASSUME Shape, ~Idle, NEW verdict \in Verdicts, Give(verdict),
         UNCHANGED <<template, cache>>
  PROVE  Shape'
<1>1. result' = verdict /\ focus' = focus /\ frames' = frames
  BY DEF Give
<1>2. Chained'
  BY <1>1 DEF Shape, Chained, FrameFits, Awaited, Def, Body, Defined
<1>3. ConditionTypeOK'
  BY <1>1 DEF Shape, ConditionTypeOK, Defined
<1> QED BY <1>1, <1>2, <1>3 DEF Shape, Idle

(***************************************************************************)
(* The stack of calls                                                      *)
(***************************************************************************)

LEMMA ShapeInit == ConditionInit => Shape
<1> SUFFICES ASSUME ConditionInit PROVE Shape
  OBVIOUS
<1>1. frames = <<>> /\ frames \in Seq([node : Nodes, at : Nat, pending : BOOLEAN])
      /\ Len(frames) = 0
  BY DEF ConditionInit
<1>2. Chained
  BY <1>1 DEF Chained
<1>3. ConditionTypeOK
  BY <1>1 DEF ConditionInit, ConditionTypeOK
<1> QED BY <1>1, <1>2, <1>3 DEF ConditionInit, Shape

(* Requests and answers, which find the stack empty. *)
LEMMA ShapeAtRest ==
  ASSUME Shape, Answer \/ \E n \in Nodes : Request(n)
  PROVE  Shape'
<1>1. frames = <<>> /\ frames' = frames /\ template' = template /\ cache' = cache
  BY DEF Answer, Request, Shape
<1>2. Chained'
  BY <1>1 DEF Chained
<1>3. focus' \in Nodes \cup {NoNode} /\ result' = "none"
  BY DEF Answer, Request, Shape
<1> QED BY <1>1, <1>2, <1>3 DEF Shape, ConditionTypeOK, Defined

(* A verdict that is returned is a verdict for the innermost frame's node. *)
LEMMA VerdictTypes ==
  ASSUME Shape
  PROVE  /\ result # "none" => result \in Verdicts
         /\ \A op \in Operators, pending \in BOOLEAN :
              /\ Decisive(op) \in {"true", "false"}
              /\ Junction(op, pending) \in Verdicts
         /\ \A v \in Verdicts : Negation(v) \in Verdicts
BY DEF Shape, ConditionTypeOK, Decisive, Junction, Negation, Verdicts

(* The ways an expression is entered: a verdict at once, or a call. *)
LEMMA Entering ==
  ASSUME Shape, EvaluateEquals \/ EvaluateRef \/ EvaluateNot \/ EvaluateJunction
  PROVE  /\ focus \in Nodes /\ result = "none" /\ UNCHANGED template
         /\ cache' = cache
         /\ \/ \E v \in Verdicts :
                 /\ Give(v)
                 /\ \/ /\ v = "unknown" /\ Def(focus).op = "ref"
                       /\ Def(focus).name \in InProgress \/ Def(focus).name \notin Defined
                    \/ /\ v = "unknown" /\ Def(focus).op \in {"and", "or"}
                       /\ Def(focus).args = <<>>
                    \/ Def(focus).op = "equals" /\ v = Def(focus).value
                    \/ /\ Def(focus).op = "ref" /\ Def(focus).name \in DOMAIN cache
                       /\ v = cache[Def(focus).name]
            \/ \E operand \in Nodes :
                 /\ Call(focus, operand)
                 /\ FrameFits(Frame(focus, 1, FALSE))
                 /\ Awaited(Frame(focus, 1, FALSE)) = operand
                 /\ Def(focus).op = "ref" => Def(focus).name \notin InProgress
<1> DEFINE f == Frame(focus, 1, FALSE)
<1>1. focus \in Nodes /\ result = "none" /\ UNCHANGED template /\ cache' = cache
  BY DEF EvaluateEquals, EvaluateRef, EvaluateNot, EvaluateJunction, Evaluating,
         Shape, ConditionTypeOK, Idle
<1>2. f.node = focus /\ f.at = 1
  BY DEF Frame
<1>3. /\ Def(focus).value \in Verdicts /\ Def(focus).args \in Seq(Nodes)
      /\ Def(focus).op = "not" => Len(Def(focus).args) = 1
  BY <1>1, TemplateFacts DEF Shape
<1>4. CASE EvaluateEquals
  BY <1>1, <1>3, <1>4 DEF EvaluateEquals, Evaluating
<1>5. CASE EvaluateRef
  <2> DEFINE c == Def(focus).name
  <2>1. Def(focus).op = "ref"
    BY <1>5 DEF EvaluateRef, Evaluating
  <2>2. CASE c \in DOMAIN cache /\ Give(cache[c])
    BY <1>1, <2>1, <2>2 DEF Shape, ConditionTypeOK
  <2>3. CASE Give("unknown") /\ (c \in InProgress \/ c \notin Defined)
    BY <1>1, <2>1, <2>3 DEF Verdicts
  <2>4. CASE c \in Defined \ (DOMAIN cache \cup InProgress) /\ Call(focus, Body(c))
    <3>1. Body(c) \in Nodes
      BY <2>4, TemplateFacts DEF Shape
    <3>2. FrameFits(f) /\ Awaited(f) = Body(c)
      BY <1>2, <2>1, <2>4 DEF FrameFits, Awaited
    <3> QED BY <1>1, <2>4, <3>1, <3>2
  <2> QED BY <1>5, <2>2, <2>3, <2>4 DEF EvaluateRef
<1>6. CASE EvaluateNot
  <2>1. Def(focus).op = "not" /\ Call(focus, Def(focus).args[1])
    BY <1>6 DEF EvaluateNot, Evaluating
  <2>2. 1 \in 1..Len(Def(focus).args) /\ Def(focus).args[1] \in Nodes
    BY <1>3, <2>1, ElementOfSeq
  <2>3. FrameFits(f) /\ Awaited(f) = Def(focus).args[1]
    BY <1>2, <2>1, <2>2 DEF FrameFits, Awaited
  <2> QED BY <1>1, <2>1, <2>2, <2>3
<1>7. CASE EvaluateJunction
  <2>1. Def(focus).op \in {"and", "or"}
    BY <1>7 DEF EvaluateJunction, Evaluating
  <2>2. CASE Give("unknown") /\ Def(focus).args = <<>>
    BY <1>1, <2>1, <2>2 DEF Verdicts
  <2>3. CASE Def(focus).args # <<>> /\ Call(focus, Def(focus).args[1])
    <3>1. Len(Def(focus).args) \in Nat \ {0}
      BY <1>3, <2>3, EmptySeq
    <3>2. 1 \in 1..Len(Def(focus).args) /\ Def(focus).args[1] \in Nodes
      BY <1>3, <3>1, ElementOfSeq
    <3>3. FrameFits(f) /\ Awaited(f) = Def(focus).args[1]
      BY <1>2, <2>1, <3>2 DEF FrameFits, Awaited
    <3> QED BY <1>1, <2>1, <2>3, <3>2, <3>3
  <2> QED BY <1>7, <2>2, <2>3 DEF EvaluateJunction
<1> QED BY <1>4, <1>5, <1>6, <1>7

(* The ways a call ends: a verdict for its node, or the next operand.      *)
LEMMA Leaving ==
  ASSUME Shape, ReturnToRef \/ ReturnToNot \/ ReturnToJunction
  PROVE  /\ result \in Verdicts /\ frames # <<>> /\ UNCHANGED template
         /\ \/ /\ Def(Top.node).op = "ref" /\ Return(result)
               /\ cache' = [d \in DOMAIN cache \cup {Def(Top.node).name} |->
                              IF d = Def(Top.node).name THEN result ELSE cache[d]]
            \/ /\ Def(Top.node).op = "not" /\ Return(Negation(result))
               /\ cache' = cache
            \/ /\ Def(Top.node).op \in {"and", "or"} /\ cache' = cache
               /\ \/ result = Decisive(Def(Top.node).op) /\ Return(result)
                  \/ /\ result # Decisive(Def(Top.node).op)
                     /\ Top.at = Len(Def(Top.node).args)
                     /\ Return(Junction(Def(Top.node).op,
                                        Top.pending \/ result = "unknown"))
                  \/ /\ result # Decisive(Def(Top.node).op)
                     /\ Top.at < Len(Def(Top.node).args)
                     /\ Advance(Top.pending \/ result = "unknown")
<1>1. result # "none" /\ frames # <<>> /\ UNCHANGED template
  BY DEF ReturnToRef, ReturnToNot, ReturnToJunction, Returning
<1>2. result \in Verdicts
  BY <1>1, VerdictTypes
<1>3. CASE ReturnToRef
  BY <1>1, <1>2, <1>3 DEF ReturnToRef, Returning
<1>4. CASE ReturnToNot
  BY <1>1, <1>2, <1>4 DEF ReturnToNot, Returning
<1>5. CASE ReturnToJunction
  BY <1>1, <1>2, <1>5 DEF ReturnToJunction, Returning, Decides, Advance
<1> QED BY <1>3, <1>4, <1>5

(* The stack keeps its shape. *)
LEMMA ShapeNext == Shape /\ [ConditionNext]_conditionVars => Shape'
<1> SUFFICES ASSUME Shape, [ConditionNext]_conditionVars PROVE Shape'
  OBVIOUS
<1>1. CASE EvaluateEquals \/ EvaluateRef \/ EvaluateNot \/ EvaluateJunction
  <2>1. ~Idle
    BY <1>1, Entering, NodesAssumption DEF Idle
  <2> QED BY <1>1, <2>1, Entering, ShapeAfterGive, ShapeAfterCall
<1>2. CASE ReturnToRef \/ ReturnToNot \/ ReturnToJunction
  <2>1. /\ result \in Verdicts /\ result # "none" /\ frames # <<>> /\ template' = template
        /\ Top \in FrameType /\ FrameFits(Top) /\ Def(Top.node).op \in Operators
    BY <1>2, Leaving, TopFacts, TemplateFacts DEF Shape, FrameType, Verdicts
  <2>2. /\ DOMAIN cache \subseteq Defined
        /\ \A c \in DOMAIN cache : cache[c] \in Verdicts
    BY DEF Shape, ConditionTypeOK
  <2>3. CASE /\ Def(Top.node).op = "ref" /\ Return(result)
             /\ cache' = [d \in DOMAIN cache \cup {Def(Top.node).name} |->
                            IF d = Def(Top.node).name THEN result ELSE cache[d]]
    <3>1. Def(Top.node).name \in Defined
      BY <2>1, <2>3 DEF FrameFits
    <3>2. DOMAIN cache' \subseteq Defined /\ \A c \in DOMAIN cache' : cache'[c] \in Verdicts
      BY <2>1, <2>2, <2>3, <3>1
    <3> QED BY <2>1, <2>3, <3>2, ShapeAfterReturn
  <2>4. CASE Return(Negation(result)) /\ cache' = cache
    BY <2>1, <2>2, <2>4, VerdictTypes, ShapeAfterReturn
  <2>5. CASE Return(result) /\ cache' = cache
    BY <2>1, <2>2, <2>5, ShapeAfterReturn
  <2>6. CASE /\ cache' = cache
             /\ Return(Junction(Def(Top.node).op, Top.pending \/ result = "unknown"))
    <3>1. (Top.pending \/ result = "unknown") \in BOOLEAN
      OBVIOUS
    <3> QED BY <2>1, <2>2, <2>6, <3>1, VerdictTypes, ShapeAfterReturn
  <2>7. CASE /\ cache' = cache /\ Def(Top.node).op \in {"and", "or"}
             /\ Top.at < Len(Def(Top.node).args)
             /\ Advance(Top.pending \/ result = "unknown")
    <3>1. (Top.pending \/ result = "unknown") \in BOOLEAN
      OBVIOUS
    <3> QED BY <2>1, <2>7, <3>1, ShapeAfterAdvance
  <2> QED BY <1>2, <2>3, <2>4, <2>5, <2>6, <2>7, Leaving
<1>3. CASE Answer \/ \E n \in Nodes : Request(n)
  BY <1>3, ShapeAtRest
<1>4. CASE UNCHANGED conditionVars
  BY <1>4 DEF conditionVars, Shape, ConditionTypeOK, Idle, Chained, FrameFits, Awaited,
              Def, Body, Defined
<1> QED BY <1>1, <1>2, <1>3, <1>4 DEF ConditionNext, EvaluationStep

(***************************************************************************)
(* Soundness                                                               *)
(***************************************************************************)

(* A verdict that agrees with the deployment, or is none. *)
Correct(verdict, n) == verdict \in {"true", "false"} => (Truth(verdict) <=> template.truth[n])

(* What is being returned is correct for the operand the top frame awaits. *)
LEMMA ReturnedIsCorrect ==
  ASSUME Shape, Sound, frames # <<>>, result \in Verdicts
  PROVE  focus \in Nodes /\ Correct(result, focus)
<1>1. result \in {"true", "false"} => Truth(result) = template.truth[focus]
  BY DEF Sound, VerdictsAreSound
<1>2. focus \in Nodes
  BY DEF Shape, ConditionTypeOK, Idle
<1> QED BY <1>1, <1>2 DEF Correct

(* The verdict of a junction whose operands were passed over. *)
LEMMA JunctionIsCorrect ==
  ASSUME template \in Templates, NEW f \in FrameType, FrameFits(f), PassedOver(f),
         Def(f.node).op \in {"and", "or"}, f.at = Len(Def(f.node).args),
         NEW verdict \in Verdicts, Correct(verdict, Operand(f)),
         verdict # Decisive(Def(f.node).op)
  PROVE  Correct(Junction(Def(f.node).op, f.pending \/ verdict = "unknown"), f.node)
<1> DEFINE n == f.node
           args == Def(n).args
           op == Def(n).op
<1>1. n \in Nodes /\ args \in Seq(Nodes) /\ f.at \in Nat /\ f.pending \in BOOLEAN
  BY TemplateFacts DEF FrameType
<1>2. f.at \in 1..Len(args) /\ Len(args) \in Nat
  BY <1>1, LenProperties DEF FrameFits
<1>3. \A j \in 1..Len(args) : args[j] \in Nodes /\ template.truth[args[j]] \in BOOLEAN
  BY <1>1, ElementOfSeq, TemplateFacts
<1>4. CASE f.pending \/ verdict = "unknown"
  BY <1>4 DEF Junction, Correct
<1>5. CASE ~f.pending /\ verdict # "unknown"
  <2>1. verdict \in {"true", "false"} /\ (Truth(verdict) <=> template.truth[args[f.at]])
    BY <1>5 DEF Correct, Verdicts, Operand
  <2>2. \A j \in 1..(f.at - 1) : template.truth[args[j]] # Truth(Decisive(op))
    BY <1>5 DEF PassedOver
  <2>3. \A j \in 1..Len(args) : j = f.at \/ j \in 1..(f.at - 1)
    BY <1>2
  <2>4. CASE op = "and"
    <3>1. \A j \in 1..Len(args) : template.truth[args[j]]
      <4> SUFFICES ASSUME NEW j \in 1..Len(args) PROVE template.truth[args[j]]
        OBVIOUS
      <4>1. CASE j = f.at
        BY <2>1, <2>4, <4>1 DEF Decisive, Truth
      <4>2. CASE j \in 1..(f.at - 1)
        BY <1>3, <2>2, <2>4, <4>2 DEF Decisive, Truth
      <4> QED BY <2>3, <4>1, <4>2
    <3>2. template.truth[n]
      BY <1>1, <2>4, <3>1, TruthOfNode
    <3>3. Junction(op, f.pending \/ verdict = "unknown") = "true"
      BY <1>5, <2>4 DEF Junction, Decisive, Negation
    <3> QED BY <3>2, <3>3 DEF Correct, Truth
  <2>5. CASE op = "or"
    <3>1. \A j \in 1..Len(args) : ~template.truth[args[j]]
      <4> SUFFICES ASSUME NEW j \in 1..Len(args) PROVE ~template.truth[args[j]]
        OBVIOUS
      <4>1. CASE j = f.at
        BY <2>1, <2>5, <4>1 DEF Decisive, Truth
      <4>2. CASE j \in 1..(f.at - 1)
        BY <1>3, <2>2, <2>5, <4>2 DEF Decisive, Truth
      <4> QED BY <2>3, <4>1, <4>2
    <3>2. ~template.truth[n]
      BY <1>1, <2>5, <3>1, TruthOfNode
    <3>3. Junction(op, f.pending \/ verdict = "unknown") = "false"
      BY <1>5, <2>5 DEF Junction, Decisive, Negation
    <3> QED BY <3>2, <3>3 DEF Correct, Truth
  <2> QED BY <2>4, <2>5
<1> QED BY <1>4, <1>5

(* A decisive operand is the verdict of its junction. *)
LEMMA DecisiveIsCorrect ==
  ASSUME template \in Templates, NEW f \in FrameType, FrameFits(f),
         Def(f.node).op \in {"and", "or"},
         NEW verdict, Correct(verdict, Operand(f)), verdict = Decisive(Def(f.node).op)
  PROVE  Correct(verdict, f.node)
<1>1. f.node \in Nodes /\ f.at \in 1..Len(Def(f.node).args)
  BY DEF FrameType, FrameFits
<1>2. CASE Def(f.node).op = "and"
  BY <1>1, <1>2, TruthOfNode DEF Correct, Operand, Decisive, Truth
<1>3. CASE Def(f.node).op = "or"
  BY <1>1, <1>3, TruthOfNode DEF Correct, Operand, Decisive, Truth
<1> QED BY <1>2, <1>3

(* The next operand of a junction, when this one was not decisive. *)
LEMMA PassedOverAdvance ==
  ASSUME template \in Templates, NEW f \in FrameType, FrameFits(f), PassedOver(f),
         Def(f.node).op \in {"and", "or"}, f.at < Len(Def(f.node).args),
         NEW verdict \in Verdicts, Correct(verdict, Operand(f)),
         verdict # Decisive(Def(f.node).op)
  PROVE  PassedOver(Frame(f.node, f.at + 1, f.pending \/ verdict = "unknown"))
<1> DEFINE n == f.node
           args == Def(n).args
           op == Def(n).op
           g == Frame(n, f.at + 1, f.pending \/ verdict = "unknown")
<1>1. n \in Nodes /\ f.at \in Nat /\ f.at \in 1..Len(args)
  BY DEF FrameType, FrameFits
<1>2. g.node = n /\ g.at = f.at + 1 /\ (~g.pending => ~f.pending /\ verdict # "unknown")
  BY DEF Frame
<1>3. ASSUME ~f.pending, verdict # "unknown", NEW j \in 1..f.at
      PROVE  template.truth[args[j]] # Truth(Decisive(op))
  <2>1. CASE j = f.at
    BY <1>3, <2>1 DEF Correct, Operand, Verdicts, Decisive, Truth
  <2>2. CASE j \in 1..(f.at - 1)
    BY <1>3, <2>2 DEF PassedOver
  <2> QED BY <1>1, <2>1, <2>2
<1> HIDE DEF g
<1>4. g.at - 1 = f.at
  BY <1>1, <1>2
<1>5. PassedOver(g)
  BY <1>2, <1>3, <1>4 DEF PassedOver
<1> QED BY <1>5 DEF g

(* A correct verdict may be returned to the frame below. *)
LEMMA SoundAfterReturn ==
  ASSUME Shape, Sound, frames # <<>>, NEW verdict \in Verdicts, Return(verdict),
         Correct(verdict, Top.node), template' = template,
         \A c \in DOMAIN cache' :
           cache'[c] # "unknown" => Truth(cache'[c]) = template.truth[Body(c)]
  PROVE  Sound'
<1>1. /\ Below \in Seq(FrameType) /\ Len(frames) \in Nat \ {0}
      /\ Len(Below) = Len(frames) - 1
      /\ \A i \in 1..Len(Below) : Below[i] = frames[i]
      /\ Top \in FrameType
  BY BelowFacts DEF Shape, ConditionTypeOK, FrameType
<1>2. frames' = Below /\ focus' = Top.node /\ result' = verdict
  BY DEF Return
<1>3. \A i \in 1..Len(frames') : i \in 1..Len(frames) /\ frames'[i] = frames[i]
  BY <1>1, <1>2
<1>4. \A i \in 1..Len(frames') : PassedOver(frames[i])'
  BY <1>3 DEF Sound, PassedOver, Def
<1>5. result' \in {"true", "false"} => Truth(result') = template.truth[focus']
  <2>1. template.truth[Top.node] \in BOOLEAN
    BY <1>1, TemplateFacts DEF Shape, FrameType
  <2> QED BY <1>2, <2>1 DEF Correct, Truth
<1> QED BY <1>4, <1>5 DEF Sound, VerdictsAreSound, Body

(* Entering an expression keeps what is known sound. *)
LEMMA SoundEntering ==
  ASSUME Shape, Sound, EvaluateEquals \/ EvaluateRef \/ EvaluateNot \/ EvaluateJunction
  PROVE  Sound'
<1>1. focus \in Nodes /\ result = "none" /\ template' = template /\ cache' = cache
      /\ template \in Templates
  BY Entering DEF Shape
<1>2. \A c \in DOMAIN cache' :
        cache'[c] # "unknown" => Truth(cache'[c]) = template'.truth[Body(c)']
  BY <1>1 DEF Sound, VerdictsAreSound, Body
<1>3. ASSUME NEW v \in Verdicts, Give(v),
             \/ v = "unknown"
             \/ Def(focus).op = "equals" /\ v = Def(focus).value
             \/ /\ Def(focus).op = "ref" /\ Def(focus).name \in DOMAIN cache
                /\ v = cache[Def(focus).name]
      PROVE  Sound'
  <2>1. result' = v /\ focus' = focus /\ frames' = frames
    BY <1>3 DEF Give
  <2>2. \A i \in 1..Len(frames') : PassedOver(frames[i])'
    BY <1>1, <2>1 DEF Sound, PassedOver, Def
  <2>3. template.truth[focus] \in BOOLEAN
    BY <1>1, TemplateFacts
  <2>4. v \in {"true", "false"} => Truth(v) = template.truth[focus]
    <3>1. CASE v = "unknown"
      BY <3>1
    <3>2. CASE Def(focus).op = "equals" /\ v = Def(focus).value
      BY <1>1, <2>3, <3>2, TruthOfNode DEF Truth
    <3>3. CASE /\ Def(focus).op = "ref" /\ Def(focus).name \in DOMAIN cache
               /\ v = cache[Def(focus).name]
      <4>1. Def(focus).name \in Defined
        BY <3>3 DEF Shape, ConditionTypeOK
      <4>2. v # "unknown" => Truth(v) = template.truth[Body(Def(focus).name)]
        BY <3>3 DEF Sound, VerdictsAreSound
      <4>3. template.truth[focus] <=> template.truth[Body(Def(focus).name)]
        BY <1>1, <3>3, <4>1, TruthOfNode
      <4> QED BY <2>3, <4>2, <4>3 DEF Truth
    <3> QED BY <1>3, <3>1, <3>2, <3>3
  <2> QED BY <1>1, <1>2, <2>1, <2>2, <2>4 DEF Sound, VerdictsAreSound
<1>4. ASSUME NEW operand \in Nodes, Call(focus, operand)
      PROVE  Sound'
  <2> DEFINE f == Frame(focus, 1, FALSE)
  <2>1. f \in FrameType /\ f.at = 1 /\ frames \in Seq(FrameType)
    BY <1>1 DEF Frame, FrameType, Shape, ConditionTypeOK
  <2>2. frames' = Append(frames, f) /\ result' = "none"
    BY <1>4 DEF Call
  <2> HIDE DEF f
  <2>3. /\ Len(frames') = Len(frames) + 1 /\ Len(frames) \in Nat
        /\ \A i \in 1..Len(frames) : frames'[i] = frames[i]
        /\ frames'[Len(frames) + 1] = f
    BY <2>1, <2>2, AppendFacts
  <2>4. ASSUME NEW i \in 1..Len(frames') PROVE PassedOver(frames[i])'
    <3>1. CASE i = Len(frames) + 1
      BY <2>1, <2>3, <3>1 DEF PassedOver
    <3>2. CASE i \in 1..Len(frames)
      BY <1>1, <2>3, <3>2 DEF Sound, PassedOver, Def
    <3> QED BY <2>3, <3>1, <3>2
  <2> QED BY <1>2, <2>2, <2>4 DEF Sound, VerdictsAreSound
<1> QED BY <1>3, <1>4, Entering

(* Leaving one keeps it sound as well. *)
LEMMA SoundLeaving ==
  ASSUME Shape, Sound, ReturnToRef \/ ReturnToNot \/ ReturnToJunction
  PROVE  Sound'
<1>1. /\ result \in Verdicts /\ frames # <<>> /\ template' = template
      /\ template \in Templates /\ Len(frames) \in Nat \ {0}
      /\ Top \in FrameType /\ FrameFits(Top) /\ Awaited(Top) = focus
      /\ Top.node \in Nodes
  BY Leaving, TopFacts DEF Shape, FrameType
<1>2. PassedOver(Top)
  <2>1. Len(frames) \in 1..Len(frames) /\ Top = frames[Len(frames)]
    BY <1>1, TopFacts
  <2> QED BY <2>1 DEF Sound
<1>3. focus \in Nodes /\ Correct(result, focus)
  BY <1>1, ReturnedIsCorrect
<1>4. template.truth[Top.node] \in BOOLEAN /\ template.truth[focus] \in BOOLEAN
  BY <1>1, <1>3, TemplateFacts
<1>5. \A c \in DOMAIN cache :
        cache[c] # "unknown" => Truth(cache[c]) = template.truth[Body(c)]
  BY DEF Sound, VerdictsAreSound
<1>6. CASE /\ Def(Top.node).op = "ref" /\ Return(result)
           /\ cache' = [d \in DOMAIN cache \cup {Def(Top.node).name} |->
                          IF d = Def(Top.node).name THEN result ELSE cache[d]]
  <2>1. Def(Top.node).name \in Defined /\ Body(Def(Top.node).name) = focus
    BY <1>1, <1>6 DEF FrameFits, Awaited
  <2>2. Correct(result, Top.node)
    BY <1>1, <1>3, <1>6, <2>1, TruthOfNode DEF Correct
  <2>3. result # "unknown" => Truth(result) = template.truth[focus]
    BY <1>1, <1>3, <1>4 DEF Correct, Verdicts, Truth
  <2>4. ASSUME NEW c \in DOMAIN cache', cache'[c] # "unknown"
        PROVE  Truth(cache'[c]) = template.truth[Body(c)]
    <3>1. CASE c = Def(Top.node).name
      BY <1>6, <2>1, <2>3, <2>4, <3>1
    <3>2. CASE c # Def(Top.node).name
      BY <1>5, <1>6, <2>4, <3>2
    <3> QED BY <3>1, <3>2
  <2> QED BY <1>1, <1>6, <2>2, <2>4, SoundAfterReturn
<1>7. CASE Def(Top.node).op = "not" /\ Return(Negation(result)) /\ cache' = cache
  <2>1. Def(Top.node).args[1] = focus
    BY <1>1, <1>7 DEF FrameFits, Awaited
  <2>2. template.truth[Top.node] <=> ~template.truth[focus]
    BY <1>1, <1>7, <2>1, TruthOfNode
  <2>3. Negation(result) \in Verdicts /\ Correct(Negation(result), Top.node)
    BY <1>1, <1>3, <2>2 DEF Correct, Negation, Verdicts, Truth
  <2> QED BY <1>1, <1>5, <1>7, <2>3, SoundAfterReturn
<1>8. CASE Def(Top.node).op \in {"and", "or"} /\ cache' = cache
  <2>1. Operand(Top) = focus
    BY <1>1, <1>8 DEF Awaited, Operand
  <2>2. Correct(result, Operand(Top))
    BY <1>3, <2>1
  <2>3. CASE result = Decisive(Def(Top.node).op) /\ Return(result)
    <3>1. Correct(result, Top.node)
      BY <1>1, <1>8, <2>2, <2>3, DecisiveIsCorrect
    <3> QED BY <1>1, <1>5, <1>8, <2>3, <3>1, SoundAfterReturn
  <2>4. CASE /\ result # Decisive(Def(Top.node).op) /\ Top.at = Len(Def(Top.node).args)
             /\ Return(Junction(Def(Top.node).op, Top.pending \/ result = "unknown"))
    <3> DEFINE verdict == Junction(Def(Top.node).op, Top.pending \/ result = "unknown")
    <3>1. Correct(verdict, Top.node)
      BY <1>1, <1>2, <1>8, <2>2, <2>4, JunctionIsCorrect
    <3>2. verdict \in Verdicts
      BY <1>8 DEF Junction, Negation, Decisive, Verdicts
    <3> QED BY <1>1, <1>5, <1>8, <2>4, <3>1, <3>2, SoundAfterReturn
  <2>5. CASE /\ result # Decisive(Def(Top.node).op) /\ Top.at < Len(Def(Top.node).args)
             /\ Advance(Top.pending \/ result = "unknown")
    <3> DEFINE g == Frame(Top.node, Top.at + 1, Top.pending \/ result = "unknown")
    <3>1. PassedOver(g)
      BY <1>1, <1>2, <1>8, <2>2, <2>5, PassedOverAdvance
    <3>2. g \in FrameType
      BY <1>1 DEF Frame, FrameType
    <3>3. frames' = Append(Below, g) /\ result' = "none"
      BY <2>5 DEF Advance
    <3> HIDE DEF g
    <3>4. /\ Below \in Seq(FrameType) /\ Len(Below) = Len(frames) - 1
          /\ \A i \in 1..Len(Below) : Below[i] = frames[i]
      BY <1>1, BelowFacts DEF Shape, ConditionTypeOK, FrameType
    <3>5. /\ Len(frames') = Len(frames)
          /\ \A i \in 1..(Len(frames) - 1) : frames'[i] = frames[i]
          /\ frames'[Len(frames)] = g
      BY <1>1, <3>2, <3>3, <3>4, AppendFacts
    <3>6. ASSUME NEW i \in 1..Len(frames') PROVE PassedOver(frames[i])'
      <4>1. CASE i = Len(frames)
        BY <1>1, <3>1, <3>5, <4>1 DEF PassedOver, Def
      <4>2. CASE i \in 1..(Len(frames) - 1)
        <5>1. i \in 1..Len(frames) /\ frames'[i] = frames[i]
          BY <1>1, <3>5, <4>2
        <5> QED BY <1>1, <5>1 DEF Sound, PassedOver, Def
      <4> QED BY <1>1, <3>5, <4>1, <4>2
    <3> QED BY <1>1, <1>5, <1>8, <3>3, <3>6 DEF Sound, VerdictsAreSound, Body
  <2> QED BY <1>8, <2>3, <2>4, <2>5, Leaving
<1> QED BY <1>6, <1>7, <1>8, Leaving

(* Nothing else touches a verdict. *)
LEMMA SoundNext == Shape /\ Sound /\ [ConditionNext]_conditionVars => Sound'
<1> SUFFICES ASSUME Shape, Sound, [ConditionNext]_conditionVars PROVE Sound'
  OBVIOUS
<1>1. CASE EvaluateEquals \/ EvaluateRef \/ EvaluateNot \/ EvaluateJunction
  BY <1>1, SoundEntering
<1>2. CASE ReturnToRef \/ ReturnToNot \/ ReturnToJunction
  BY <1>2, SoundLeaving
<1>3. CASE Answer \/ \E n \in Nodes : Request(n)
  <2>1. frames = <<>> /\ frames' = frames /\ template' = template /\ cache' = cache
        /\ result' = "none"
    BY <1>3 DEF Answer, Request, Shape
  <2> QED BY <2>1 DEF Sound, VerdictsAreSound, Body
<1>4. CASE UNCHANGED conditionVars
  BY <1>4 DEF conditionVars, Sound, VerdictsAreSound, PassedOver, Def, Body
<1> QED BY <1>1, <1>2, <1>3, <1>4 DEF ConditionNext, EvaluationStep

(***************************************************************************)
(* Cycles                                                                  *)
(***************************************************************************)

(* The condition a frame evaluates, if it is one of a reference. *)
Evaluates(f, c) == Def(f.node).op = "ref" /\ Def(f.node).name = c

(* Only a reference to a condition that no frame evaluates is entered. *)
LEMMA ReentryEntering ==
  ASSUME Shape, NeverReentered,
         EvaluateEquals \/ EvaluateRef \/ EvaluateNot \/ EvaluateJunction
  PROVE  NeverReentered'
<1>1. template' = template /\ focus \in Nodes /\ frames \in Seq(FrameType)
  BY Entering DEF Shape, ConditionTypeOK, FrameType
<1>2. ASSUME NEW v \in Verdicts, Give(v) PROVE NeverReentered'
  BY <1>1, <1>2 DEF Give, NeverReentered, Def
<1>3. ASSUME NEW operand \in Nodes, Call(focus, operand),
             Def(focus).op = "ref" => Def(focus).name \notin InProgress
      PROVE  NeverReentered'
  <2> DEFINE f == Frame(focus, 1, FALSE)
  <2>1. f \in FrameType /\ f.node = focus
    BY <1>1 DEF Frame, FrameType
  <2>2. frames' = Append(frames, f)
    BY <1>3 DEF Call
  <2> HIDE DEF f
  <2>3. /\ Len(frames) \in Nat /\ DOMAIN frames = 1..Len(frames)
        /\ DOMAIN frames' = 1..(Len(frames) + 1)
        /\ \A i \in 1..Len(frames) : frames'[i] = frames[i]
        /\ frames'[Len(frames) + 1] = f
    BY <1>1, <2>1, <2>2, AppendFacts, LenProperties
  <2>4. \A i \in DOMAIN frames : \A c : Evaluates(frames[i], c) => ~Evaluates(f, c)
    BY <1>3, <2>1 DEF InProgress, Evaluates
  <2>5. ASSUME NEW i \in DOMAIN frames', NEW j \in DOMAIN frames', NEW c,
               Evaluates(frames'[i], c), Evaluates(frames'[j], c)
        PROVE  i = j
    <3>1. CASE i \in DOMAIN frames /\ j \in DOMAIN frames
      BY <2>3, <2>5, <3>1 DEF NeverReentered, Evaluates
    <3>2. CASE i \in DOMAIN frames /\ j = Len(frames) + 1
      BY <2>3, <2>4, <2>5, <3>2
    <3>3. CASE i = Len(frames) + 1 /\ j \in DOMAIN frames
      BY <2>3, <2>4, <2>5, <3>3
    <3> QED BY <2>3, <3>1, <3>2, <3>3
  <2> QED BY <1>1, <2>5 DEF NeverReentered, Evaluates, Def
<1> QED BY <1>2, <1>3, Entering

(* Leaving an expression enters no reference. *)
LEMMA ReentryLeaving ==
  ASSUME Shape, NeverReentered, ReturnToRef \/ ReturnToNot \/ ReturnToJunction
  PROVE  NeverReentered'
<1>1. /\ template' = template /\ frames # <<>> /\ frames \in Seq(FrameType)
      /\ Top \in FrameType /\ Len(frames) \in Nat \ {0} /\ DOMAIN frames = 1..Len(frames)
  BY Leaving, TopFacts, LenProperties DEF Shape, ConditionTypeOK, FrameType
<1>2. /\ Below \in Seq(FrameType) /\ Len(Below) = Len(frames) - 1
      /\ DOMAIN Below = 1..(Len(frames) - 1)
      /\ \A i \in 1..(Len(frames) - 1) : Below[i] = frames[i]
  <2>1. /\ Below \in Seq(FrameType) /\ Len(Below) = Len(frames) - 1
        /\ \A i \in 1..Len(Below) : Below[i] = frames[i]
    BY <1>1, BelowFacts, Zenon
  <2>2. DOMAIN Below = 1..Len(Below)
    BY <2>1, LenProperties
  <2> QED BY <2>1, <2>2
<1>3. ASSUME NEW v, Return(v) PROVE NeverReentered'
  <2>1. \A i \in DOMAIN frames' : i \in DOMAIN frames /\ frames'[i] = frames[i]
    BY <1>1, <1>2, <1>3 DEF Return
  <2> QED BY <1>1, <2>1 DEF NeverReentered, Def
<1>4. ASSUME NEW pending \in BOOLEAN, Advance(pending), Def(Top.node).op \in {"and", "or"}
      PROVE  NeverReentered'
  <2> DEFINE f == Frame(Top.node, Top.at + 1, pending)
  <2>1. f \in FrameType /\ f.node = Top.node
    BY <1>1 DEF Frame, FrameType
  <2>2. frames' = Append(Below, f)
    BY <1>4 DEF Advance
  <2> HIDE DEF f
  <2>3. /\ Len(frames') = Len(frames) /\ frames' \in Seq(FrameType)
        /\ \A i \in 1..(Len(frames) - 1) : frames'[i] = frames[i]
        /\ frames'[Len(frames)] = f
    <3>1. /\ Len(frames') = Len(Below) + 1 /\ frames' \in Seq(FrameType)
          /\ \A i \in 1..Len(Below) : frames'[i] = Below[i]
          /\ frames'[Len(Below) + 1] = f
      BY <1>2, <2>1, <2>2, AppendFacts
    <3>2. Len(Below) + 1 = Len(frames)
      BY <1>1, <1>2
    <3> QED BY <1>2, <3>1, <3>2
  <2>4. DOMAIN frames' = 1..Len(frames)
    BY <2>3, LenProperties
  <2>5. ~Evaluates(f, Def(f.node).name)
    BY <1>4, <2>1 DEF Evaluates
  <2>6. \A i \in DOMAIN frames' : Def(frames'[i].node).op = "ref" =>
          i \in DOMAIN frames /\ frames'[i] = frames[i]
    <3>1. \A i \in DOMAIN frames' : i = Len(frames) \/ i \in 1..(Len(frames) - 1)
      BY <1>1, <2>4
    <3> QED BY <1>1, <2>3, <2>4, <2>5, <3>1 DEF Evaluates
  <2> QED BY <1>1, <2>6 DEF NeverReentered, Def
<1> QED
  <2>1. (Top.pending \/ result = "unknown") \in BOOLEAN
    OBVIOUS
  <2> QED BY <1>3, <1>4, <2>1, Leaving

LEMMA ReentryNext == Shape /\ NeverReentered /\ [ConditionNext]_conditionVars => NeverReentered'
<1> SUFFICES ASSUME Shape, NeverReentered, [ConditionNext]_conditionVars
             PROVE  NeverReentered'
  OBVIOUS
<1>1. CASE EvaluateEquals \/ EvaluateRef \/ EvaluateNot \/ EvaluateJunction
  BY <1>1, ReentryEntering
<1>2. CASE ReturnToRef \/ ReturnToNot \/ ReturnToJunction
  BY <1>2, ReentryLeaving
<1>3. CASE Answer \/ \E n \in Nodes : Request(n)
  <2>1. frames' = frames /\ template' = template
    BY <1>3 DEF Answer, Request
  <2> QED BY <2>1 DEF NeverReentered, Def
<1>4. CASE UNCHANGED conditionVars
  BY <1>4 DEF conditionVars, NeverReentered, Def
<1> QED BY <1>1, <1>2, <1>3, <1>4 DEF ConditionNext, EvaluationStep

(***************************************************************************)
(* Kleene's logic                                                          *)
(***************************************************************************)

(* Induction over the naturals: the least one missed would have a          *)
(* predecessor that is not.                                                *)
LEMMA NaturalsReached ==
  ASSUME NEW Reached, 0 \in Reached,
         \A n \in Nat : n \in Reached => n + 1 \in Reached
  PROVE  Nat \subseteq Reached
<1> DEFINE missed == Nat \ Reached
           less == {p \in Nat \X Nat : p[1] < p[2]}
<1> SUFFICES ASSUME missed # {}
             PROVE  FALSE
  OBVIOUS
<1>1. PICK n \in missed : \A m \in missed : ~ (<<m, n>> \in less)
  <2>1. missed \subseteq Nat
    OBVIOUS
  <2>2. IsWellFoundedOn(less, Nat)
    BY NatLessThanWellFounded DEF OpToRel
  <2> HIDE DEF missed, less
  <2> QED
    BY <2>1, <2>2, WFMin
<1>2. n \in Nat /\ n # 0 /\ n - 1 \in Nat
  OBVIOUS
<1>3. n - 1 \notin missed
  <2>1. <<n - 1, n>> \in less
    BY <1>2
  <2> QED
    BY <1>1, <2>1
<1> QED
  BY <1>2, <1>3

(* A function can be applied m times over. *)
LEMMA IterationExists ==
  ASSUME NEW S, NEW base \in S, NEW F \in [S -> S], NEW m \in Nat
  PROVE  \E g \in [0..m -> S] :
           g = [i \in 0..m |-> IF i = 0 THEN base ELSE F[g[i - 1]]]
<1> DEFINE reached ==
             {k \in Nat : \E g \in [0..k -> S] :
                g[0] = base /\ \A i \in 1..k : g[i] = F[g[i - 1]]}
<1>1. 0 \in reached
  <2> DEFINE g == [i \in 0..0 |-> base]
  <2>1. g \in [0..0 -> S] /\ g[0] = base /\ \A i \in 1..0 : g[i] = F[g[i - 1]]
    OBVIOUS
  <2> QED
    BY <2>1
<1>2. ASSUME NEW k \in Nat, k \in reached
      PROVE  k + 1 \in reached
  <2>1. PICK g \in [0..k -> S] : g[0] = base /\ \A i \in 1..k : g[i] = F[g[i - 1]]
    BY <1>2
  <2> DEFINE h == [i \in 0..(k + 1) |-> IF i = k + 1 THEN F[g[k]] ELSE g[i]]
  <2>2. h \in [0..(k + 1) -> S] /\ h[0] = base
    BY <2>1
  <2>3. ASSUME NEW i \in 1..(k + 1)
        PROVE  h[i] = F[h[i - 1]]
    <3>1. i - 1 \in 0..k /\ h[i - 1] = g[i - 1]
      OBVIOUS
    <3>2. CASE i = k + 1
      BY <3>1, <3>2
    <3>3. CASE i # k + 1
      <4>1. i \in 1..k /\ h[i] = g[i]
        BY <3>3
      <4> QED
        BY <2>1, <3>1, <4>1
    <3> QED
      BY <3>2, <3>3
  <2> HIDE DEF h
  <2> QED
    BY <2>2, <2>3
<1> HIDE DEF reached
<1>3. m \in reached
  BY <1>1, <1>2, NaturalsReached
<1>4. PICK g \in [0..m -> S] : g[0] = base /\ \A i \in 1..m : g[i] = F[g[i - 1]]
  BY <1>3 DEF reached
<1>5. \A i \in 0..m : g[i] = IF i = 0 THEN base ELSE F[g[i - 1]]
  <2> SUFFICES ASSUME NEW i \in 0..m, i # 0
               PROVE  g[i] = F[g[i - 1]]
    BY <1>4
  <2>1. i \in 1..m
    OBVIOUS
  <2> QED
    BY <1>4, <2>1
<1>6. g = [i \in 0..m |-> IF i = 0 THEN base ELSE F[g[i - 1]]]
  BY <1>5
<1> QED
  BY <1>6

(* What one round makes of an expression. *)
LEMMA StepFacts ==
  ASSUME NEW t \in Templates, NEW v \in [Nodes -> Verdicts], NEW n \in Nodes,
         NEW d, d = t.def[n], NEW s, s = KleeneStep(t, v)[n]
  PROVE  /\ s \in Verdicts
         /\ d.op = "equals" => s = d.value
         /\ d.op = "ref" /\ d.name \in DOMAIN t.conditions =>
              t.conditions[d.name] \in Nodes /\ s = v[t.conditions[d.name]]
         /\ d.op = "ref" /\ d.name \notin DOMAIN t.conditions => s = "unknown"
         /\ d.op = "not" => d.args[1] \in Nodes /\ s = Negation(v[d.args[1]])
         /\ d.op \in {"and", "or"} =>
              /\ \A i \in 1..Len(d.args) : d.args[i] \in Nodes
              /\ d.args = <<>> => s = "unknown"
              /\ (\E i \in 1..Len(d.args) : v[d.args[i]] = Decisive(d.op)) =>
                   s = Decisive(d.op)
              /\ /\ \A i \in 1..Len(d.args) : v[d.args[i]] # Decisive(d.op)
                 /\ \E i \in 1..Len(d.args) : v[d.args[i]] = "unknown"
                 => s = "unknown"
              /\ /\ d.args # <<>>
                 /\ \A i \in 1..Len(d.args) : v[d.args[i]] = Negation(Decisive(d.op))
                 => s = Negation(Decisive(d.op))
<1>1. /\ d.op \in Operators /\ d.value \in Verdicts /\ d.args \in Seq(Nodes)
      /\ d.op = "not" => Len(d.args) = 1
      /\ \A c \in DOMAIN t.conditions : t.conditions[c] \in Nodes
  BY TemplatesAssumption
<1>2. /\ DOMAIN d.args = 1..Len(d.args) /\ Len(d.args) \in Nat
      /\ \A i \in 1..Len(d.args) : d.args[i] \in Nodes
  BY <1>1, LenProperties, ElementOfSeq
<1> DEFINE operands == {v[d.args[i]] : i \in DOMAIN d.args}
<1>3. s = CASE d.op = "equals" -> d.value
            [] d.op = "ref" -> IF d.name \in DOMAIN t.conditions
                               THEN v[t.conditions[d.name]] ELSE "unknown"
            [] d.op = "not" -> Negation(v[d.args[1]])
            [] OTHER -> IF operands = {} THEN "unknown"
                        ELSE IF Decisive(d.op) \in operands THEN Decisive(d.op)
                        ELSE IF "unknown" \in operands THEN "unknown"
                        ELSE Negation(Decisive(d.op))
  BY DEF KleeneStep
<1>4. CASE d.op = "equals"
  BY <1>1, <1>3, <1>4
<1>5. CASE d.op = "ref"
  BY <1>1, <1>3, <1>5 DEF Verdicts
<1>6. CASE d.op = "not"
  <2>1. d.args[1] \in Nodes /\ v[d.args[1]] \in Verdicts
    BY <1>1, <1>2, <1>6
  <2>2. s = Negation(v[d.args[1]])
    BY <1>3, <1>6
  <2>3. Negation(v[d.args[1]]) \in Verdicts
    BY <2>1 DEF Negation, Verdicts
  <2> QED
    BY <1>6, <2>1, <2>2, <2>3
<1>7. CASE d.op \in {"and", "or"}
  <2>1. s = IF operands = {} THEN "unknown"
            ELSE IF Decisive(d.op) \in operands THEN Decisive(d.op)
            ELSE IF "unknown" \in operands THEN "unknown"
            ELSE Negation(Decisive(d.op))
    BY <1>3, <1>7
  <2>2. /\ Decisive(d.op) \in {"true", "false"}
        /\ Negation(Decisive(d.op)) \in {"true", "false"}
        /\ Decisive(d.op) # Negation(Decisive(d.op))
    BY DEF Decisive, Negation
  <2>3. \A x : x \in operands <=> \E i \in 1..Len(d.args) : x = v[d.args[i]]
    BY <1>2
  <2>4. d.args = <<>> <=> operands = {}
    <3>1. d.args = <<>> <=> Len(d.args) = 0
      BY <1>1, EmptySeq
    <3>2. Len(d.args) # 0 => 1 \in 1..Len(d.args)
      BY <1>2
    <3>3. Len(d.args) = 0 => ~ \E i \in 1..Len(d.args) : TRUE
      OBVIOUS
    <3> QED
      BY <2>3, <3>1, <3>2, <3>3
  <2> HIDE DEF operands
  <2>5. s \in Verdicts
    BY <2>1, <2>2 DEF Verdicts
  <2>6. d.args = <<>> => s = "unknown"
    BY <2>1, <2>4
  <2>7. (\E i \in 1..Len(d.args) : v[d.args[i]] = Decisive(d.op)) => s = Decisive(d.op)
    BY <2>1, <2>3
  <2>8. /\ \A i \in 1..Len(d.args) : v[d.args[i]] # Decisive(d.op)
        /\ \E i \in 1..Len(d.args) : v[d.args[i]] = "unknown"
        => s = "unknown"
    BY <2>1, <2>3
  <2>9. /\ d.args # <<>>
        /\ \A i \in 1..Len(d.args) : v[d.args[i]] = Negation(Decisive(d.op))
        => s = Negation(Decisive(d.op))
    <3> SUFFICES ASSUME d.args # <<>>,
                        \A i \in 1..Len(d.args) : v[d.args[i]] = Negation(Decisive(d.op))
                 PROVE  s = Negation(Decisive(d.op))
      OBVIOUS
    <3>1. \A x \in operands : x = Negation(Decisive(d.op))
      BY <2>3
    <3>2. Decisive(d.op) \notin operands /\ "unknown" \notin operands
      BY <2>2, <3>1
    <3> QED
      BY <2>1, <2>4, <3>2
  <2> QED
    BY <1>2, <1>7, <2>5, <2>6, <2>7, <2>8, <2>9
<1> QED
  BY <1>1, <1>4, <1>5, <1>6, <1>7 DEF Operators

(* w knows what v knows. *)
Knows(v, w) == \A n \in Nodes : v[n] = "unknown" \/ v[n] = w[n]

(* A round makes of tables of verdicts tables of verdicts, and of a table  *)
(* that knows more one that knows more.                                    *)
LEMMA StepIsMonotone ==
  ASSUME NEW t \in Templates, NEW v \in [Nodes -> Verdicts], NEW w \in [Nodes -> Verdicts],
         Knows(v, w)
  PROVE  /\ KleeneStep(t, v) \in [Nodes -> Verdicts]
         /\ Knows(KleeneStep(t, v), KleeneStep(t, w))
<1>1. KleeneStep(t, v) \in [Nodes -> Verdicts]
  <2>1. \A n \in Nodes : KleeneStep(t, v)[n] \in Verdicts
    BY StepFacts
  <2>2. KleeneStep(t, v) = [n \in Nodes |-> KleeneStep(t, v)[n]]
    BY DEF KleeneStep
  <2> QED
    BY <2>1, <2>2
<1>2. ASSUME NEW n \in Nodes
      PROVE  KleeneStep(t, v)[n] = "unknown" \/ KleeneStep(t, v)[n] = KleeneStep(t, w)[n]
  <2> DEFINE d == t.def[n]
             s == KleeneStep(t, v)[n]
             r == KleeneStep(t, w)[n]
  <2>1. d.op \in Operators
    BY TemplatesAssumption
  <2>2. CASE d.op = "equals"
    BY <2>2, StepFacts
  <2>3. CASE d.op = "ref"
    BY <2>3, StepFacts DEF Knows
  <2>4. CASE d.op = "not"
    <3>1. d.args[1] \in Nodes /\ s = Negation(v[d.args[1]]) /\ r = Negation(w[d.args[1]])
      BY <2>4, StepFacts
    <3>2. Negation("unknown") = "unknown"
      BY DEF Negation
    <3> QED
      BY <3>1, <3>2 DEF Knows
  <2>5. CASE d.op \in {"and", "or"}
    <3>0. \A i \in 1..Len(d.args) :
            /\ d.args[i] \in Nodes /\ v[d.args[i]] \in Verdicts
            /\ v[d.args[i]] = "unknown" \/ v[d.args[i]] = w[d.args[i]]
      BY <2>5, StepFacts DEF Knows
    <3>1. CASE d.args = <<>>
      BY <2>5, <3>1, StepFacts
    <3>2. CASE \E i \in 1..Len(d.args) : v[d.args[i]] = Decisive(d.op)
      <4>1. \E i \in 1..Len(d.args) : w[d.args[i]] = Decisive(d.op)
        BY <3>0, <3>2 DEF Decisive
      <4>2. s = Decisive(d.op) /\ r = Decisive(d.op)
        BY <2>5, <3>2, <4>1, StepFacts
      <4> QED
        BY <4>2
    <3>3. CASE /\ \A i \in 1..Len(d.args) : v[d.args[i]] # Decisive(d.op)
               /\ \E i \in 1..Len(d.args) : v[d.args[i]] = "unknown"
      BY <2>5, <3>3, StepFacts
    <3>4. CASE /\ d.args # <<>>
               /\ \A i \in 1..Len(d.args) : /\ v[d.args[i]] # Decisive(d.op)
                                            /\ v[d.args[i]] # "unknown"
      <4>1. \A i \in 1..Len(d.args) : /\ v[d.args[i]] = Negation(Decisive(d.op))
                                      /\ w[d.args[i]] = Negation(Decisive(d.op))
        BY <3>0, <3>4 DEF Decisive, Negation, Verdicts
      <4>2. s = Negation(Decisive(d.op)) /\ r = Negation(Decisive(d.op))
        BY <2>5, <3>4, <4>1, StepFacts
      <4> QED
        BY <4>2
    <3> QED
      BY <3>1, <3>2, <3>3, <3>4
  <2> QED
    BY <2>1, <2>2, <2>3, <2>4, <2>5 DEF Operators
<1> QED
  BY <1>1, <1>2 DEF Knows

Nothing == [n \in Nodes |-> "unknown"]

KleeneRounds(t, g) ==
  g = [i \in 0..Cardinality(Nodes) |-> IF i = 0 THEN Nothing ELSE KleeneStep(t, g[i - 1])]

(* Kleene's reading is the last of its rounds. *)
LEMMA KleeneIsChosen ==
  ASSUME NEW t
  PROVE  Kleene(t) = (CHOOSE g : KleeneRounds(t, g))[Cardinality(Nodes)]
  BY Zenon DEF Kleene, KleeneRounds, Nothing

(* The rounds that end in Kleene's reading. *)
LEMMA RoundsExist ==
  ASSUME NEW t \in Templates
  PROVE  /\ Cardinality(Nodes) \in Nat
         /\ \E g \in [0..Cardinality(Nodes) -> [Nodes -> Verdicts]] :
              /\ g[0] = Nothing /\ g[Cardinality(Nodes)] = Kleene(t)
              /\ \A i \in 1..Cardinality(Nodes) : g[i] = KleeneStep(t, g[i - 1])
<1> DEFINE N == Cardinality(Nodes)
           T == [Nodes -> Verdicts]
           F == [v \in T |-> KleeneStep(t, v)]
<1>1. N \in Nat
  BY NodesAssumption, FS_CardinalityType
<1>2. Nothing \in T
  BY DEF Nothing, Verdicts
<1>3. F \in [T -> T]
  <2>1. \A v \in T : KleeneStep(t, v) \in T
    BY StepIsMonotone DEF Knows
  <2> HIDE DEF T
  <2> QED
    BY <2>1
<1>4. PICK h \in [0..N -> T] :
        h = [i \in 0..N |-> IF i = 0 THEN Nothing ELSE F[h[i - 1]]]
  <2> HIDE DEF N, T, F
  <2> QED
    BY <1>1, <1>2, <1>3, IterationExists
<1>5. KleeneRounds(t, h)
  <2>1. \A i \in 0..N : i # 0 => F[h[i - 1]] = KleeneStep(t, h[i - 1])
    <3> SUFFICES ASSUME NEW i \in 0..N, i # 0
                 PROVE  F[h[i - 1]] = KleeneStep(t, h[i - 1])
      OBVIOUS
    <3>1. i - 1 \in 0..N
      BY <1>1
    <3>2. h[i - 1] \in T
      BY <1>4, <3>1
    <3> QED
      BY <3>2
  <2>2. \A i \in 0..N : (IF i = 0 THEN Nothing ELSE F[h[i - 1]])
                          = IF i = 0 THEN Nothing ELSE KleeneStep(t, h[i - 1])
    BY <2>1
  <2> HIDE DEF F, T
  <2>3. h = [i \in 0..N |-> IF i = 0 THEN Nothing ELSE KleeneStep(t, h[i - 1])]
    BY <1>4, <2>2
  <2> QED
    BY <2>3 DEF KleeneRounds
<1> DEFINE g == CHOOSE r : KleeneRounds(t, r)
<1>6. KleeneRounds(t, g)
  BY <1>5, Zenon
<1>7. Kleene(t) = g[N]
  BY KleeneIsChosen
<1> HIDE DEF g, F
<1>8. /\ g[0] = Nothing
      /\ \A i \in 1..N : g[i] = KleeneStep(t, g[i - 1])
  <2>1. g = [i \in 0..N |-> IF i = 0 THEN Nothing ELSE KleeneStep(t, g[i - 1])]
    BY <1>6 DEF KleeneRounds
  <2>2. 0 \in 0..N /\ \A i \in 1..N : i \in 0..N /\ i # 0
    BY <1>1
  <2> QED
    BY <2>1, <2>2
<1>9. g \in [0..N -> T]
  <2> DEFINE typed == {k \in Nat : k <= N => g[k] \in T}
  <2>1. 0 \in typed
    BY <1>2, <1>8
  <2>2. ASSUME NEW k \in Nat, k \in typed
        PROVE  k + 1 \in typed
    <3> SUFFICES ASSUME k + 1 <= N
                 PROVE  g[k + 1] \in T
      OBVIOUS
    <3>1. g[k] \in T
      BY <1>1, <2>2
    <3>2. k + 1 \in 1..N /\ k + 1 - 1 = k
      BY <1>1
    <3>3. g[k + 1] = KleeneStep(t, g[k])
      BY <1>8, <3>2
    <3> QED
      BY <3>1, <3>3, StepIsMonotone DEF Knows
  <2> HIDE DEF typed
  <2>3. \A k \in Nat : k \in typed
    BY <2>1, <2>2, NaturalsReached
  <2>4. \A k \in 0..N : g[k] \in T
    BY <1>1, <2>3 DEF typed
  <2>5. g = [i \in 0..N |-> IF i = 0 THEN Nothing ELSE KleeneStep(t, g[i - 1])]
    BY <1>6 DEF KleeneRounds
  <2> HIDE DEF T
  <2> QED
    BY <2>4, <2>5
<1> QED
  BY <1>1, <1>7, <1>8, <1>9

(* Kleene's reading does not change in a further round: each round knows   *)
(* what the one before knew, and there are enough of them that one is like *)
(* the next, or everything is known.                                       *)
LEMMA KleeneIsFixed ==
  ASSUME NEW t \in Templates
  PROVE  Kleene(t) \in [Nodes -> Verdicts] /\ KleeneStep(t, Kleene(t)) = Kleene(t)
<1> DEFINE N == Cardinality(Nodes)
           T == [Nodes -> Verdicts]
<1>1. N \in Nat /\ IsFiniteSet(Nodes)
  BY RoundsExist, NodesAssumption
<1>2. PICK g \in [0..N -> T] :
        /\ g[0] = Nothing /\ g[N] = Kleene(t)
        /\ \A i \in 1..N : g[i] = KleeneStep(t, g[i - 1])
  BY RoundsExist
<1>3. \A k \in 0..N : g[k] \in T
  BY <1>2
<1>4. \A k \in Nat : k + 1 <= N => g[k + 1] = KleeneStep(t, g[k])
  <2> SUFFICES ASSUME NEW k \in Nat, k + 1 <= N
               PROVE  g[k + 1] = KleeneStep(t, g[k])
    OBVIOUS
  <2>1. k + 1 \in 1..N /\ k + 1 - 1 = k
    BY <1>1
  <2> QED
    BY <1>2, <2>1
<1>5. \A k \in 0..N : Knows(g[k], KleeneStep(t, g[k]))
  <2> DEFINE grown == {k \in Nat : k <= N => Knows(g[k], KleeneStep(t, g[k]))}
  <2>1. 0 \in grown
    BY <1>2 DEF Knows, Nothing
  <2>2. ASSUME NEW k \in Nat, k \in grown
        PROVE  k + 1 \in grown
    <3> SUFFICES ASSUME k + 1 <= N
                 PROVE  Knows(g[k + 1], KleeneStep(t, g[k + 1]))
      OBVIOUS
    <3>1. k \in 0..N /\ k + 1 \in 0..N
      BY <1>1
    <3>2. g[k] \in T /\ g[k + 1] \in T /\ g[k + 1] = KleeneStep(t, g[k])
      BY <1>3, <1>4, <3>1
    <3>3. Knows(g[k], g[k + 1])
      BY <2>2, <3>1, <3>2
    <3>4. Knows(KleeneStep(t, g[k]), KleeneStep(t, g[k + 1]))
      BY <3>2, <3>3, StepIsMonotone
    <3> QED
      BY <3>2, <3>4
  <2> HIDE DEF grown
  <2>3. \A k \in Nat : k \in grown
    BY <2>1, <2>2, NaturalsReached
  <2> QED
    BY <1>1, <2>3 DEF grown
<1> DEFINE known(v) == {n \in Nodes : v[n] # "unknown"}
<1>6. \A v : IsFiniteSet(known(v)) /\ Cardinality(known(v)) \in Nat
  <2>1. \A v : known(v) \subseteq Nodes
    OBVIOUS
  <2> HIDE DEF known
  <2> QED
    BY <1>1, <2>1, FS_Subset, FS_CardinalityType
<1>7. \A k \in 0..N : KleeneStep(t, g[k]) = g[k] \/ Cardinality(known(g[k])) >= k
  <2> DEFINE full == {k \in Nat : k <= N => \/ KleeneStep(t, g[k]) = g[k]
                                            \/ Cardinality(known(g[k])) >= k}
  <2>1. 0 \in full
    <3>1. Cardinality(known(g[0])) >= 0
      <4> HIDE DEF known
      <4> QED
        BY <1>6
    <3> QED
      BY <3>1
  <2>2. ASSUME NEW k \in Nat, k \in full
        PROVE  k + 1 \in full
    <3> SUFFICES ASSUME k + 1 <= N
                 PROVE  \/ KleeneStep(t, g[k + 1]) = g[k + 1]
                        \/ Cardinality(known(g[k + 1])) >= k + 1
      OBVIOUS
    <3>1. k \in 0..N /\ k + 1 \in 0..N
      BY <1>1
    <3>2. g[k] \in T /\ g[k + 1] \in T /\ g[k + 1] = KleeneStep(t, g[k])
          /\ Knows(g[k], g[k + 1])
      BY <1>3, <1>4, <1>5, <3>1
    <3>3. CASE KleeneStep(t, g[k]) = g[k]
      BY <3>2, <3>3
    <3>4. CASE KleeneStep(t, g[k]) # g[k]
      <4>1. Cardinality(known(g[k])) >= k
        BY <2>2, <3>1, <3>4
      <4>2. PICK n \in Nodes : g[k][n] # g[k + 1][n]
        BY <3>2, <3>4
      <4>3. g[k][n] = "unknown"
        BY <3>2, <4>2 DEF Knows
      <4>4. known(g[k]) \subseteq known(g[k + 1]) \ {n}
        BY <3>2, <4>3 DEF Knows
      <4>5. n \in known(g[k + 1])
        BY <4>2, <4>3
      <4> HIDE DEF known
      <4>6. Cardinality(known(g[k + 1]) \ {n}) = Cardinality(known(g[k + 1])) - 1
            /\ IsFiniteSet(known(g[k + 1]) \ {n})
        BY <1>6, <4>5, FS_RemoveElement
      <4>7. Cardinality(known(g[k])) <= Cardinality(known(g[k + 1]) \ {n})
        BY <4>4, <4>6, FS_Subset
      <4> QED
        BY <1>6, <4>1, <4>6, <4>7
    <3> QED
      BY <3>3, <3>4
  <2> HIDE DEF full, known
  <2>3. \A k \in Nat : k \in full
    BY <2>1, <2>2, NaturalsReached
  <2> QED
    BY <1>1, <2>3 DEF full
<1>8. N \in 0..N /\ g[N] \in T /\ Knows(g[N], KleeneStep(t, g[N]))
  BY <1>1, <1>3, <1>5
<1>9. CASE Cardinality(known(g[N])) >= N
  <2>1. known(g[N]) \subseteq Nodes
    OBVIOUS
  <2>2. known(g[N]) = Nodes
    <3> HIDE DEF known
    <3>1. Cardinality(known(g[N])) <= Cardinality(Nodes)
      BY <1>1, <2>1, FS_Subset
    <3>2. Cardinality(known(g[N])) = Cardinality(Nodes)
      BY <1>1, <1>6, <1>9, <3>1
    <3> QED
      BY <1>1, <2>1, <3>2, FS_Subset
  <2>3. \A n \in Nodes : KleeneStep(t, g[N])[n] = g[N][n]
    BY <1>8, <2>2 DEF Knows
  <2>4. KleeneStep(t, g[N]) \in T
    BY <1>8, StepIsMonotone DEF Knows
  <2>5. KleeneStep(t, g[N]) = g[N]
    BY <1>8, <2>3, <2>4
  <2> QED
    BY <1>2, <1>8, <2>5
<1> HIDE DEF known
<1> QED
  BY <1>2, <1>7, <1>8, <1>9

WellFoundedRounds(t, g) ==
  g = [i \in 0..Cardinality(Nodes) |->
         IF i = 0 THEN {} ELSE {n \in Nodes : Depends(t, n) \subseteq g[i - 1]}]

(* The expressions that depend on no cycle are those of the last round. *)
LEMMA WellFoundedIsChosen ==
  ASSUME NEW t
  PROVE  WellFounded(t) = (CHOOSE g : WellFoundedRounds(t, g))[Cardinality(Nodes)]
  BY Zenon DEF WellFounded, WellFoundedRounds

(* What depends on no cycle is reached in rounds, each of expressions that *)
(* depend on those of the round before only.                               *)
LEMMA WellFoundedLayers ==
  ASSUME NEW t \in Templates
  PROVE  /\ Cardinality(Nodes) \in Nat
         /\ \E g :
              /\ g[0] = {} /\ g[Cardinality(Nodes)] = WellFounded(t)
              /\ \A i \in 1..Cardinality(Nodes) :
                   g[i] = {n \in Nodes : Depends(t, n) \subseteq g[i - 1]}
              /\ \A i \in 1..Cardinality(Nodes) : g[i - 1] \subseteq g[i]
<1> DEFINE N == Cardinality(Nodes)
           S == SUBSET Nodes
           F == [W \in S |-> {n \in Nodes : Depends(t, n) \subseteq W}]
<1>1. N \in Nat
  BY NodesAssumption, FS_CardinalityType
<1>2. F \in [S -> S] /\ {} \in S
  OBVIOUS
<1>3. PICK h \in [0..N -> S] :
        h = [i \in 0..N |-> IF i = 0 THEN {} ELSE F[h[i - 1]]]
  <2> DEFINE base == {}
  <2>1. base \in S /\ F \in [S -> S]
    BY <1>2
  <2> HIDE DEF N, S, F, base
  <2>2. \E h \in [0..N -> S] : h = [i \in 0..N |-> IF i = 0 THEN base ELSE F[h[i - 1]]]
    BY <1>1, <2>1, IterationExists
  <2> QED
    BY <2>2 DEF base
<1>4. WellFoundedRounds(t, h)
  <2>1. \A i \in 0..N : (IF i = 0 THEN {} ELSE F[h[i - 1]])
          = IF i = 0 THEN {} ELSE {n \in Nodes : Depends(t, n) \subseteq h[i - 1]}
    <3> SUFFICES ASSUME NEW i \in 0..N, i # 0
                 PROVE  F[h[i - 1]] = {n \in Nodes : Depends(t, n) \subseteq h[i - 1]}
      OBVIOUS
    <3>1. i - 1 \in 0..N
      BY <1>1
    <3>2. h[i - 1] \in S
      <4> HIDE DEF S
      <4> QED
        BY <1>3, <3>1
    <3> QED
      BY <3>2
  <2> HIDE DEF F, S
  <2>2. h = [i \in 0..N |->
               IF i = 0 THEN {} ELSE {n \in Nodes : Depends(t, n) \subseteq h[i - 1]}]
    BY <1>3, <2>1
  <2> QED
    BY <2>2 DEF WellFoundedRounds
<1> DEFINE g == CHOOSE r : WellFoundedRounds(t, r)
<1>5. WellFoundedRounds(t, g)
  BY <1>4, Zenon
<1>6. WellFounded(t) = g[N]
  BY WellFoundedIsChosen
<1> HIDE DEF g, F
<1>7. /\ g[0] = {}
      /\ \A i \in 1..N : g[i] = {n \in Nodes : Depends(t, n) \subseteq g[i - 1]}
  <2>1. g = [i \in 0..N |->
               IF i = 0 THEN {} ELSE {n \in Nodes : Depends(t, n) \subseteq g[i - 1]}]
    BY <1>5 DEF WellFoundedRounds
  <2>2. 0 \in 0..N /\ \A i \in 1..N : i \in 0..N /\ i # 0
    BY <1>1
  <2> QED
    BY <2>1, <2>2
<1>8. \A i \in 1..N : g[i - 1] \subseteq g[i]
  <2> DEFINE grown == {k \in Nat : k + 1 <= N => g[k] \subseteq g[k + 1]}
  <2>1. 0 \in grown
    BY <1>7
  <2>2. ASSUME NEW k \in Nat, k \in grown
        PROVE  k + 1 \in grown
    <3> SUFFICES ASSUME k + 1 + 1 <= N
                 PROVE  g[k + 1] \subseteq g[k + 1 + 1]
      OBVIOUS
    <3>1. /\ k + 1 \in 1..N /\ k + 1 - 1 = k
          /\ k + 1 + 1 \in 1..N /\ k + 1 + 1 - 1 = k + 1 /\ k + 1 <= N
      BY <1>1
    <3>2. /\ g[k + 1] = {n \in Nodes : Depends(t, n) \subseteq g[k]}
          /\ g[k + 1 + 1] = {n \in Nodes : Depends(t, n) \subseteq g[k + 1]}
      BY <1>7, <3>1
    <3>3. g[k] \subseteq g[k + 1]
      BY <2>2, <3>1
    <3> QED
      BY <3>2, <3>3
  <2> HIDE DEF grown
  <2>3. \A k \in Nat : k \in grown
    BY <2>1, <2>2, NaturalsReached
  <2> SUFFICES ASSUME NEW i \in 1..N
               PROVE  g[i - 1] \subseteq g[i]
    OBVIOUS
  <2>4. i - 1 \in grown /\ i - 1 + 1 = i /\ i - 1 + 1 <= N
    BY <1>1, <2>3
  <2> QED
    BY <2>4 DEF grown
<1> QED
  BY <1>1, <1>6, <1>7, <1>8

(* Together with an expression, what a set has of those it depends on. *)
Closed(t, W) == \A n \in W : Depends(t, n) \subseteq W

(* What an expression without a cycle depends on has none either, and it   *)
(* is in no set whose members all depend on it.                            *)
LEMMA WellFoundedFacts ==
  ASSUME NEW t \in Templates
  PROVE  /\ Closed(t, WellFounded(t))
         /\ \A n \in WellFounded(t) :
              \E W : Closed(t, W) /\ Depends(t, n) \subseteq W /\ n \notin W
<1> DEFINE N == Cardinality(Nodes)
<1>1. N \in Nat
  BY WellFoundedLayers
<1>2. PICK g :
        /\ g[0] = {} /\ g[N] = WellFounded(t)
        /\ \A i \in 1..N : g[i] = {n \in Nodes : Depends(t, n) \subseteq g[i - 1]}
        /\ \A i \in 1..N : g[i - 1] \subseteq g[i]
  BY WellFoundedLayers
<1>3. \A k \in 0..N : Closed(t, g[k])
  <2> SUFFICES ASSUME NEW k \in 0..N
               PROVE  Closed(t, g[k])
    OBVIOUS
  <2>1. CASE k = 0
    BY <1>2, <2>1 DEF Closed
  <2>2. CASE k # 0
    <3>1. k \in 1..N
      BY <1>1, <2>2
    <3> QED
      BY <1>2, <3>1 DEF Closed
  <2> QED
    BY <2>1, <2>2
<1>4. ASSUME NEW n
      PROVE  n \in WellFounded(t) =>
               \E W : Closed(t, W) /\ Depends(t, n) \subseteq W /\ n \notin W
  <2> DEFINE below == \E W : Closed(t, W) /\ Depends(t, n) \subseteq W /\ n \notin W
             split == {k \in Nat : k <= N /\ n \in g[k] => below}
  <2>1. 0 \in split
    BY <1>2
  <2>2. ASSUME NEW k \in Nat, k \in split
        PROVE  k + 1 \in split
    <3> SUFFICES ASSUME k + 1 <= N, n \in g[k + 1]
                 PROVE  below
      OBVIOUS
    <3>1. k + 1 \in 1..N /\ k + 1 - 1 = k /\ k \in 0..N
      BY <1>1
    <3>2. Depends(t, n) \subseteq g[k] /\ Closed(t, g[k])
      BY <1>2, <1>3, <3>1
    <3>3. CASE n \in g[k]
      BY <2>2, <3>1, <3>3
    <3>4. CASE n \notin g[k]
      BY <3>2, <3>4
    <3> QED
      BY <3>3, <3>4
  <2> HIDE DEF split
  <2>3. N \in split
    BY <1>1, <2>1, <2>2, NaturalsReached
  <2> QED
    BY <1>1, <1>2, <2>3 DEF split
<1> QED
  BY <1>1, <1>2, <1>3, <1>4
(***************************************************************************)
(* Completeness                                                            *)
(***************************************************************************)

(* The verdict of Kleene's logic, or none of an expression with a cycle.   *)
Told(verdict, n) ==
  \/ verdict = Kleene(template)[n]
  \/ verdict = "unknown" /\ n \notin WellFounded(template)

(* What Kleene's logic makes of operands that were passed over.            *)
Passed(f) ==
  Def(f.node).op \in {"and", "or"} =>
    /\ ~f.pending =>
         \A j \in 1..(f.at - 1) :
           Kleene(template)[Def(f.node).args[j]] = Negation(Decisive(Def(f.node).op))
    /\ f.pending /\ f.node \in WellFounded(template) =>
         /\ \A j \in 1..(f.at - 1) :
              Kleene(template)[Def(f.node).args[j]] # Decisive(Def(f.node).op)
         /\ \E j \in 1..(f.at - 1) : Kleene(template)[Def(f.node).args[j]] = "unknown"

Exhaustive ==
  /\ \A c \in DOMAIN cache : Told(cache[c], Body(c))
  /\ result # "none" => Told(result, focus)
  /\ \A i \in 1..Len(frames) : Passed(frames[i])

(* What Kleene's logic tells of an expression, from what it depends on.    *)
LEMMA KleeneFacts ==
  ASSUME template \in Templates, NEW n \in Nodes, NEW d, d = Def(n),
         NEW K, K = Kleene(template)
  PROVE  /\ K[n] \in Verdicts
         /\ d.op = "equals" => K[n] = d.value
         /\ d.op = "ref" /\ d.name \in Defined => K[n] = K[Body(d.name)]
         /\ d.op = "ref" /\ d.name \notin Defined => K[n] = "unknown"
         /\ d.op = "not" => K[n] = Negation(K[d.args[1]])
         /\ d.op \in {"and", "or"} =>
              /\ \A i \in 1..Len(d.args) : d.args[i] \in Nodes /\ K[d.args[i]] \in Verdicts
              /\ d.args = <<>> => K[n] = "unknown"
              /\ (\E i \in 1..Len(d.args) : K[d.args[i]] = Decisive(d.op)) =>
                   K[n] = Decisive(d.op)
              /\ /\ \A i \in 1..Len(d.args) : K[d.args[i]] # Decisive(d.op)
                 /\ \E i \in 1..Len(d.args) : K[d.args[i]] = "unknown"
                 => K[n] = "unknown"
              /\ /\ d.args # <<>>
                 /\ \A i \in 1..Len(d.args) : K[d.args[i]] = Negation(Decisive(d.op))
                 => K[n] = Negation(Decisive(d.op))
<1>1. K \in [Nodes -> Verdicts] /\ K[n] = KleeneStep(template, K)[n]
  BY KleeneIsFixed
<1>2. d = template.def[n]
  BY DEF Def
<1> QED BY <1>1, <1>2, StepFacts DEF Defined, Body

(* What an expression without a cycle waits for has none either.           *)
LEMMA OperandsAreWellFounded ==
  ASSUME template \in Templates, NEW f \in FrameType, FrameFits(f),
         NEW W, Closed(template, W), f.node \in W
  PROVE  /\ Awaited(f) \in W
         /\ Def(f.node).op # "ref" => \A i \in 1..Len(Def(f.node).args) : Def(f.node).args[i] \in W
<1>1. Depends(template, f.node) \subseteq W /\ Def(f.node).args \in Seq(Nodes)
  BY TemplateFacts DEF Closed, FrameType
<1>2. DOMAIN Def(f.node).args = 1..Len(Def(f.node).args)
  BY <1>1
<1>3. Def(f.node).op = "ref" => Body(Def(f.node).name) \in Depends(template, f.node)
  BY DEF FrameFits, Depends, Def, Body, Defined
<1>4. \A i \in 1..Len(Def(f.node).args) : Def(f.node).args[i] \in Depends(template, f.node)
  BY <1>2 DEF Depends, Def
<1> QED BY <1>1, <1>3, <1>4 DEF Awaited, FrameFits

(* The stack is a path of dependencies: with what a frame waits for, a     *)
(* closed set has the focus.                                               *)
LEMMA FocusIsReached ==
  ASSUME Shape, NEW W, Closed(template, W), NEW i \in 1..Len(frames),
         Awaited(frames[i]) \in W
  PROVE  focus \in W
<1>1. Len(frames) \in Nat /\ frames \in Seq(FrameType)
  BY DEF Shape, ConditionTypeOK, FrameType
<1> DEFINE reached ==
             {k \in Nat : i + k <= Len(frames) => Awaited(frames[i + k]) \in W}
<1>2. 0 \in reached
  BY <1>1
<1>3. ASSUME NEW k \in Nat, k \in reached
      PROVE  k + 1 \in reached
  <2> SUFFICES ASSUME i + (k + 1) <= Len(frames)
               PROVE  Awaited(frames[i + (k + 1)]) \in W
    OBVIOUS
  <2>1. /\ i + k \in 1..Len(frames) /\ i + k # Len(frames) /\ i + (k + 1) \in 1..Len(frames)
        /\ (i + k) + 1 = i + (k + 1)
    BY <1>1
  <2>2. Awaited(frames[i + k]) \in W
    BY <1>1, <1>3, <2>1
  <2>3. Awaited(frames[i + k]) = frames[i + (k + 1)].node
    BY <2>1 DEF Shape, Chained
  <2>4. FrameFits(frames[i + (k + 1)]) /\ frames[i + (k + 1)] \in FrameType
    BY <1>1, <2>1, ElementOfSeq DEF Shape, Chained
  <2> QED BY <2>2, <2>3, <2>4, OperandsAreWellFounded DEF Shape
<1> HIDE DEF reached
<1>4. Len(frames) - i \in reached
  BY <1>1, <1>2, <1>3, NaturalsReached
<1>5. Len(frames) - i \in Nat /\ i + (Len(frames) - i) = Len(frames) /\ Len(frames) \in 1..Len(frames)
  BY <1>1
<1>6. Awaited(frames[Len(frames)]) \in W
  BY <1>4, <1>5 DEF reached
<1>7. Awaited(frames[Len(frames)]) = focus
  <2>1. \A j \in 1..Len(frames) : j = Len(frames) => Awaited(frames[j]) = focus
    BY DEF Shape, Chained
  <2> QED BY <1>5, <2>1, Zenon
<1> QED BY <1>6, <1>7

(* A reference to a condition that is being evaluated is part of a cycle.  *)
LEMMA InProgressIsCyclic ==
  ASSUME Shape, focus \in Nodes, Def(focus).op = "ref", Def(focus).name \in InProgress
  PROVE  focus \notin WellFounded(template)
<1> SUFFICES ASSUME focus \in WellFounded(template)
             PROVE  FALSE
  OBVIOUS
<1> DEFINE c == Def(focus).name
<1>1. template \in Templates /\ frames \in Seq(FrameType) /\ DOMAIN frames = 1..Len(frames)
  BY LenProperties DEF Shape, ConditionTypeOK, FrameType
<1>2. PICK i \in 1..Len(frames) : Def(frames[i].node).op = "ref" /\ c = Def(frames[i].node).name
  BY <1>1 DEF InProgress
<1>3. c \in Defined /\ Awaited(frames[i]) = Body(c)
  BY <1>2 DEF Shape, Chained, FrameFits, Awaited
<1>4. Body(c) \in Depends(template, focus)
  BY <1>3 DEF Depends, Def, Body, Defined
<1>5. PICK W : Closed(template, W) /\ Depends(template, focus) \subseteq W /\ focus \notin W
  BY <1>1, WellFoundedFacts
<1>6. Awaited(frames[i]) \in W
  BY <1>3, <1>4, <1>5
<1>7. focus \in W
  BY <1>5, <1>6, FocusIsReached
<1> QED BY <1>5, <1>7

(* What is being returned is what the top frame needs to be told.          *)
LEMMA ReturnedIsTold ==
  ASSUME Shape, Exhaustive, frames # <<>>, result # "none"
  PROVE  /\ focus \in Nodes /\ Told(result, focus) /\ Kleene(template)[focus] \in Verdicts
         /\ Top.node \in WellFounded(template) => result = Kleene(template)[focus]
         /\ result # "unknown" => result = Kleene(template)[focus]
<1>1. focus \in Nodes /\ template \in Templates
  BY DEF Shape, ConditionTypeOK, Idle
<1>2. Told(result, focus) /\ Kleene(template)[focus] \in Verdicts
  BY <1>1, KleeneFacts DEF Exhaustive
<1>3. Top \in FrameType /\ FrameFits(Top) /\ Awaited(Top) = focus
  BY TopFacts
<1>4. Top.node \in WellFounded(template) => focus \in WellFounded(template)
  BY <1>1, <1>3, WellFoundedFacts, OperandsAreWellFounded
<1> QED BY <1>1, <1>2, <1>4 DEF Told

(* The verdict of a junction whose operands were passed over. *)
LEMMA JunctionIsTold ==
  ASSUME template \in Templates, NEW f \in FrameType, FrameFits(f), Passed(f),
         Def(f.node).op \in {"and", "or"}, f.at = Len(Def(f.node).args),
         NEW verdict \in Verdicts, verdict # Decisive(Def(f.node).op),
         f.node \in WellFounded(template) => verdict = Kleene(template)[Operand(f)],
         verdict # "unknown" => verdict = Kleene(template)[Operand(f)]
  PROVE  Told(Junction(Def(f.node).op, f.pending \/ verdict = "unknown"), f.node)
<1> DEFINE n == f.node
           args == Def(n).args
           op == Def(n).op
           K == Kleene(template)
<1>1. n \in Nodes /\ args \in Seq(Nodes) /\ f.at \in Nat /\ f.pending \in BOOLEAN
  BY TemplateFacts DEF FrameType
<1>2. f.at \in 1..Len(args) /\ Len(args) \in Nat /\ args # <<>>
  BY <1>1, LenProperties, EmptySeq DEF FrameFits
<1>3. \A j \in 1..Len(args) : j = f.at \/ j \in 1..(f.at - 1)
  BY <1>2
<1>4. CASE f.pending \/ verdict = "unknown"
  <2>1. Junction(op, f.pending \/ verdict = "unknown") = "unknown"
    BY <1>4 DEF Junction
  <2>2. CASE n \in WellFounded(template)
    <3>1. K[args[f.at]] = verdict
      BY <2>2 DEF Operand
    <3>2. /\ \A j \in 1..(f.at - 1) : K[args[j]] # Decisive(op)
          /\ f.pending => \E j \in 1..(f.at - 1) : K[args[j]] = "unknown"
      <4>1. Negation(Decisive(op)) # Decisive(op)
        BY DEF Negation, Decisive
      <4> QED BY <1>1, <2>2, <4>1 DEF Passed
    <3>3. \A j \in 1..Len(args) : K[args[j]] # Decisive(op)
      BY <1>3, <3>1, <3>2
    <3>4. \E j \in 1..Len(args) : K[args[j]] = "unknown"
      <4>1. CASE verdict = "unknown"
        BY <1>2, <3>1, <4>1
      <4>2. CASE f.pending
        <5>1. \A j \in 1..(f.at - 1) : j \in 1..Len(args)
          BY <1>2
        <5> QED BY <3>2, <4>2, <5>1
      <4> QED BY <1>4, <4>1, <4>2
    <3>5. K[n] = "unknown"
      BY <1>1, <3>3, <3>4, KleeneFacts
    <3> QED BY <2>1, <3>5 DEF Told
  <2> QED BY <2>1, <2>2 DEF Told
<1>5. CASE ~f.pending /\ verdict # "unknown"
  <2>1. Junction(op, f.pending \/ verdict = "unknown") = Negation(Decisive(op))
    BY <1>5 DEF Junction
  <2>2. K[args[f.at]] = Negation(Decisive(op))
    BY <1>5 DEF Operand, Negation, Decisive, Verdicts
  <2>3. \A j \in 1..Len(args) : K[args[j]] = Negation(Decisive(op))
    BY <1>3, <1>5, <2>2 DEF Passed
  <2>4. K[n] = Negation(Decisive(op))
    BY <1>1, <1>2, <2>3, KleeneFacts
  <2> QED BY <2>1, <2>4 DEF Told
<1> QED BY <1>4, <1>5

(* The next operand of a junction, when this one was not decisive. *)
LEMMA PassedAdvance ==
  ASSUME template \in Templates, NEW f \in FrameType, FrameFits(f), Passed(f),
         Def(f.node).op \in {"and", "or"},
         NEW verdict \in Verdicts, verdict # Decisive(Def(f.node).op),
         f.node \in WellFounded(template) => verdict = Kleene(template)[Operand(f)],
         verdict # "unknown" => verdict = Kleene(template)[Operand(f)]
  PROVE  Passed(Frame(f.node, f.at + 1, f.pending \/ verdict = "unknown"))
<1> DEFINE n == f.node
           args == Def(n).args
           op == Def(n).op
           K == Kleene(template)
           g == Frame(n, f.at + 1, f.pending \/ verdict = "unknown")
<1>1. n \in Nodes /\ f.at \in Nat /\ f.at \in 1..Len(args) /\ f.pending \in BOOLEAN
  BY DEF FrameType, FrameFits
<1>2. /\ g.node = n /\ g.at = f.at + 1
      /\ g.pending <=> f.pending \/ verdict = "unknown"
  BY DEF Frame
<1>3. \A j \in 1..f.at : j = f.at \/ j \in 1..(f.at - 1)
  BY <1>1
<1>4. \A j \in 1..(f.at - 1) : j \in 1..f.at
  BY <1>1
<1>5. Negation(Decisive(op)) # Decisive(op)
  BY DEF Negation, Decisive
<1>6. ASSUME ~f.pending, verdict # "unknown", NEW j \in 1..f.at
      PROVE  K[args[j]] = Negation(Decisive(op))
  <2>1. CASE j = f.at
    BY <1>6, <2>1 DEF Operand, Verdicts, Decisive, Negation
  <2>2. CASE j \in 1..(f.at - 1)
    BY <1>6, <2>2 DEF Passed
  <2> QED BY <1>3, <2>1, <2>2
<1>7. ASSUME f.pending \/ verdict = "unknown", n \in WellFounded(template)
      PROVE  /\ \A j \in 1..f.at : K[args[j]] # Decisive(op)
             /\ \E j \in 1..f.at : K[args[j]] = "unknown"
  <2>1. K[args[f.at]] = verdict
    BY <1>7 DEF Operand
  <2>2. \A j \in 1..(f.at - 1) : K[args[j]] # Decisive(op)
    BY <1>1, <1>5, <1>7 DEF Passed
  <2>3. CASE f.pending
    <3>1. \E j \in 1..(f.at - 1) : K[args[j]] = "unknown"
      BY <1>7, <2>3 DEF Passed
    <3> QED BY <1>3, <1>4, <2>1, <2>2, <3>1
  <2>4. CASE verdict = "unknown"
    <3>1. f.at \in 1..f.at
      BY <1>1
    <3> QED BY <1>3, <2>1, <2>2, <2>4, <3>1
  <2> QED BY <1>7, <2>3, <2>4
<1> HIDE DEF g
<1>8. g.at - 1 = f.at
  BY <1>1, <1>2
<1>9. Passed(g)
  BY <1>2, <1>6, <1>7, <1>8 DEF Passed
<1> QED BY <1>9 DEF g

(* What is told may be returned to the frame below. *)
LEMMA ExhaustiveAfterReturn ==
  ASSUME Shape, Exhaustive, frames # <<>>, NEW verdict \in Verdicts, Return(verdict),
         Told(verdict, Top.node), template' = template,
         \A c \in DOMAIN cache' : Told(cache'[c], Body(c))
  PROVE  Exhaustive'
<1>1. /\ Len(frames) \in Nat \ {0}
      /\ Len(Below) = Len(frames) - 1
      /\ \A i \in 1..Len(Below) : Below[i] = frames[i]
  BY BelowFacts DEF Shape, ConditionTypeOK, FrameType
<1>2. frames' = Below /\ focus' = Top.node /\ result' = verdict
  BY DEF Return
<1>3. \A i \in 1..Len(frames') : i \in 1..Len(frames) /\ frames'[i] = frames[i]
  BY <1>1, <1>2
<1>4. ASSUME NEW i \in 1..Len(frames') PROVE Passed(frames[i])'
  <2>1. Passed(frames[i]) /\ frames'[i] = frames[i]
    BY <1>3 DEF Exhaustive
  <2> QED BY <2>1 DEF Passed, Def
<1> QED BY <1>2, <1>4 DEF Exhaustive, Told, Body

(* Entering an expression keeps what was told. *)
LEMMA ExhaustiveEntering ==
  ASSUME Shape, Exhaustive, EvaluateEquals \/ EvaluateRef \/ EvaluateNot \/ EvaluateJunction
  PROVE  Exhaustive'
<1>1. focus \in Nodes /\ result = "none" /\ template' = template /\ cache' = cache
      /\ template \in Templates
  BY Entering DEF Shape
<1>2. \A c \in DOMAIN cache' : Told(cache[c], Body(c))'
  BY <1>1 DEF Exhaustive, Told, Body
<1>3. ASSUME NEW v \in Verdicts, Give(v),
             \/ /\ v = "unknown" /\ Def(focus).op = "ref"
                /\ Def(focus).name \in InProgress \/ Def(focus).name \notin Defined
             \/ /\ v = "unknown" /\ Def(focus).op \in {"and", "or"}
                /\ Def(focus).args = <<>>
             \/ Def(focus).op = "equals" /\ v = Def(focus).value
             \/ /\ Def(focus).op = "ref" /\ Def(focus).name \in DOMAIN cache
                /\ v = cache[Def(focus).name]
      PROVE  Exhaustive'
  <2>1. result' = v /\ focus' = focus /\ frames' = frames
    BY <1>3 DEF Give
  <2>2. \A i \in 1..Len(frames') : Passed(frames[i])'
    BY <1>1, <2>1 DEF Exhaustive, Passed, Def
  <2>3. Told(v, focus)
    <3>1. CASE v = "unknown" /\ Def(focus).op = "ref" /\ Def(focus).name \in InProgress
      BY <1>1, <3>1, InProgressIsCyclic DEF Told
    <3>2. CASE v = "unknown" /\ Def(focus).op = "ref" /\ Def(focus).name \notin Defined
      BY <1>1, <3>2, KleeneFacts DEF Told
    <3>3. CASE v = "unknown" /\ Def(focus).op \in {"and", "or"} /\ Def(focus).args = <<>>
      BY <1>1, <3>3, KleeneFacts DEF Told
    <3>4. CASE Def(focus).op = "equals" /\ v = Def(focus).value
      BY <1>1, <3>4, KleeneFacts DEF Told
    <3>5. CASE /\ Def(focus).op = "ref" /\ Def(focus).name \in DOMAIN cache
               /\ v = cache[Def(focus).name]
      <4> DEFINE c == Def(focus).name
      <4>1. c \in Defined /\ Told(v, Body(c))
        BY <3>5 DEF Shape, ConditionTypeOK, Exhaustive
      <4>2. Kleene(template)[focus] = Kleene(template)[Body(c)]
        BY <1>1, <3>5, <4>1, KleeneFacts
      <4>3. focus \in WellFounded(template) => Body(c) \in WellFounded(template)
        <5>1. Body(c) \in Depends(template, focus)
          BY <3>5, <4>1 DEF Depends, Def, Body, Defined
        <5> QED BY <1>1, <5>1, WellFoundedFacts DEF Closed
      <4> QED BY <4>1, <4>2, <4>3 DEF Told
    <3> QED BY <1>3, <3>1, <3>2, <3>3, <3>4, <3>5
  <2>4. Told(result, focus)'
    BY <1>1, <2>1, <2>3 DEF Told
  <2> QED BY <1>2, <2>2, <2>4 DEF Exhaustive
<1>4. ASSUME NEW operand \in Nodes, Call(focus, operand)
      PROVE  Exhaustive'
  <2> DEFINE f == Frame(focus, 1, FALSE)
  <2>1. f \in FrameType /\ f.at = 1 /\ ~f.pending /\ frames \in Seq(FrameType)
    BY <1>1 DEF Frame, FrameType, Shape, ConditionTypeOK
  <2>2. frames' = Append(frames, f) /\ result' = "none"
    BY <1>4 DEF Call
  <2> HIDE DEF f
  <2>3. /\ Len(frames') = Len(frames) + 1 /\ Len(frames) \in Nat
        /\ \A i \in 1..Len(frames) : frames'[i] = frames[i]
        /\ frames'[Len(frames) + 1] = f
    BY <2>1, <2>2, AppendFacts
  <2>4. ASSUME NEW i \in 1..Len(frames') PROVE Passed(frames[i])'
    <3>1. CASE i = Len(frames) + 1
      BY <2>1, <2>3, <3>1 DEF Passed
    <3>2. CASE i \in 1..Len(frames)
      BY <1>1, <2>3, <3>2 DEF Exhaustive, Passed, Def
    <3> QED BY <2>3, <3>1, <3>2
  <2> QED BY <1>2, <2>2, <2>4 DEF Exhaustive
<1> QED BY <1>3, <1>4, Entering

(* Leaving one keeps it as well. *)
LEMMA ExhaustiveLeaving ==
  ASSUME Shape, Exhaustive, ReturnToRef \/ ReturnToNot \/ ReturnToJunction
  PROVE  Exhaustive'
<1>1. /\ result \in Verdicts /\ result # "none" /\ frames # <<>> /\ template' = template
      /\ template \in Templates /\ Len(frames) \in Nat \ {0}
      /\ Top \in FrameType /\ FrameFits(Top) /\ Awaited(Top) = focus
      /\ Top.node \in Nodes
  BY Leaving, TopFacts DEF Shape, FrameType, Verdicts
<1>2. Passed(Top)
  <2>1. Len(frames) \in 1..Len(frames) /\ Top = frames[Len(frames)]
    BY <1>1, TopFacts
  <2> QED BY <2>1 DEF Exhaustive
<1>3. /\ focus \in Nodes /\ Told(result, focus) /\ Kleene(template)[focus] \in Verdicts
      /\ Top.node \in WellFounded(template) => result = Kleene(template)[focus]
      /\ result # "unknown" => result = Kleene(template)[focus]
  BY <1>1, ReturnedIsTold
<1>4. \A c \in DOMAIN cache : Told(cache[c], Body(c))
  BY DEF Exhaustive
<1>5. CASE /\ Def(Top.node).op = "ref" /\ Return(result)
           /\ cache' = [d \in DOMAIN cache \cup {Def(Top.node).name} |->
                          IF d = Def(Top.node).name THEN result ELSE cache[d]]
  <2>1. Def(Top.node).name \in Defined /\ Body(Def(Top.node).name) = focus
    BY <1>1, <1>5 DEF FrameFits, Awaited
  <2>2. Kleene(template)[Top.node] = Kleene(template)[focus]
    BY <1>1, <1>5, <2>1, KleeneFacts
  <2>3. Told(result, Top.node)
    BY <1>3, <2>2 DEF Told, Verdicts
  <2>4. \A c \in DOMAIN cache' : Told(cache'[c], Body(c))
    BY <1>3, <1>4, <1>5, <2>1
  <2> QED BY <1>1, <1>5, <2>3, <2>4, ExhaustiveAfterReturn
<1>6. CASE Def(Top.node).op = "not" /\ Return(Negation(result)) /\ cache' = cache
  <2>1. Def(Top.node).args[1] = focus
    BY <1>1, <1>6 DEF FrameFits, Awaited
  <2>2. Kleene(template)[Top.node] = Negation(Kleene(template)[focus])
    BY <1>1, <1>6, <2>1, KleeneFacts
  <2>3. Negation(result) \in Verdicts /\ Told(Negation(result), Top.node)
    BY <1>1, <1>3, <2>2 DEF Told, Negation, Verdicts
  <2> QED BY <1>1, <1>4, <1>6, <2>3, ExhaustiveAfterReturn
<1>7. CASE Def(Top.node).op \in {"and", "or"} /\ cache' = cache
  <2>1. Operand(Top) = focus
    BY <1>1, <1>7 DEF Awaited, Operand
  <2>2. Top.at \in 1..Len(Def(Top.node).args)
    BY <1>1, <1>7 DEF FrameFits
  <2>3. CASE result = Decisive(Def(Top.node).op) /\ Return(result)
    <3>1. result # "unknown"
      BY <2>3 DEF Decisive
    <3>2. Kleene(template)[Top.node] = result
      BY <1>1, <1>3, <1>7, <2>1, <2>2, <2>3, <3>1, KleeneFacts DEF Operand
    <3> QED BY <1>1, <1>4, <1>7, <2>3, <3>2, ExhaustiveAfterReturn DEF Told
  <2>4. CASE /\ result # Decisive(Def(Top.node).op) /\ Top.at = Len(Def(Top.node).args)
             /\ Return(Junction(Def(Top.node).op, Top.pending \/ result = "unknown"))
    <3> DEFINE verdict == Junction(Def(Top.node).op, Top.pending \/ result = "unknown")
    <3>1. Told(verdict, Top.node)
      BY <1>1, <1>2, <1>3, <1>7, <2>1, <2>4, JunctionIsTold
    <3>2. verdict \in Verdicts
      BY <1>7 DEF Junction, Negation, Decisive, Verdicts
    <3> QED BY <1>1, <1>4, <1>7, <2>4, <3>1, <3>2, ExhaustiveAfterReturn
  <2>5. CASE /\ result # Decisive(Def(Top.node).op) /\ Top.at < Len(Def(Top.node).args)
             /\ Advance(Top.pending \/ result = "unknown")
    <3> DEFINE g == Frame(Top.node, Top.at + 1, Top.pending \/ result = "unknown")
    <3>1. Passed(g)
      BY <1>1, <1>2, <1>3, <1>7, <2>1, <2>5, PassedAdvance
    <3>2. g \in FrameType
      BY <1>1 DEF Frame, FrameType
    <3>3. frames' = Append(Below, g) /\ result' = "none"
      BY <2>5 DEF Advance
    <3> HIDE DEF g
    <3>4. /\ Below \in Seq(FrameType) /\ Len(Below) = Len(frames) - 1
          /\ \A i \in 1..Len(Below) : Below[i] = frames[i]
      BY <1>1, BelowFacts DEF Shape, ConditionTypeOK, FrameType
    <3>5. /\ Len(frames') = Len(frames)
          /\ \A i \in 1..(Len(frames) - 1) : frames'[i] = frames[i]
          /\ frames'[Len(frames)] = g
      BY <1>1, <3>2, <3>3, <3>4, AppendFacts
    <3>6. ASSUME NEW i \in 1..Len(frames') PROVE Passed(frames[i])'
      <4>1. CASE i = Len(frames)
        BY <1>1, <3>1, <3>5, <4>1 DEF Passed, Def
      <4>2. CASE i \in 1..(Len(frames) - 1)
        <5>1. i \in 1..Len(frames) /\ frames'[i] = frames[i]
          BY <1>1, <3>5, <4>2
        <5> QED BY <1>1, <5>1 DEF Exhaustive, Passed, Def
      <4> QED BY <1>1, <3>5, <4>1, <4>2
    <3> QED BY <1>1, <1>4, <1>7, <3>3, <3>6 DEF Exhaustive, Told, Body
  <2> QED BY <1>7, <2>3, <2>4, <2>5, Leaving
<1> QED BY <1>5, <1>6, <1>7, Leaving

(* Nothing else touches a verdict. *)
LEMMA ExhaustiveNext == Shape /\ Exhaustive /\ [ConditionNext]_conditionVars => Exhaustive'
<1> SUFFICES ASSUME Shape, Exhaustive, [ConditionNext]_conditionVars PROVE Exhaustive'
  OBVIOUS
<1>1. CASE EvaluateEquals \/ EvaluateRef \/ EvaluateNot \/ EvaluateJunction
  BY <1>1, ExhaustiveEntering
<1>2. CASE ReturnToRef \/ ReturnToNot \/ ReturnToJunction
  BY <1>2, ExhaustiveLeaving
<1>3. CASE Answer \/ \E n \in Nodes : Request(n)
  <2>1. frames = <<>> /\ frames' = frames /\ template' = template /\ cache' = cache
        /\ result' = "none"
    BY <1>3 DEF Answer, Request, Shape
  <2> QED BY <2>1 DEF Exhaustive, Told, Body
<1>4. CASE UNCHANGED conditionVars
  BY <1>4 DEF conditionVars, Exhaustive, Told, Passed, Def, Body
<1> QED BY <1>1, <1>2, <1>3, <1>4 DEF ConditionNext, EvaluationStep

(***************************************************************************)
(* The theorems                                                            *)
(***************************************************************************)

(* Every variable of the evaluator keeps its type. *)
THEOREM ConditionTypeCorrect == ConditionSpec => []ConditionTypeOK
<1>1. Shape => ConditionTypeOK
  BY DEF Shape
<1> QED BY <1>1, ShapeInit, ShapeNext, PTL DEF ConditionSpec

(* Whatever a template's conditions are, cyclic or undefined ones among    *)
(* them, and in whatever order they are asked for: a verdict that is given *)
(* or remembered is that of the deployment.                                *)
THEOREM ConditionSoundness == ConditionSpec => []VerdictsAreSound
<1>1. ConditionInit => Sound
  <2> SUFFICES ASSUME ConditionInit PROVE Sound
    OBVIOUS
  <2>1. cache = <<>> /\ result = "none" /\ frames = <<>>
    BY DEF ConditionInit
  <2> QED BY <2>1 DEF Sound, VerdictsAreSound
<1>2. Sound => VerdictsAreSound
  BY DEF Sound
<1> QED BY <1>1, <1>2, ShapeInit, ShapeNext, SoundNext, PTL DEF ConditionSpec

(* The recursion of evaluate never comes back to a condition it is in the  *)
(* middle of, so its depth is bounded by the number of conditions.         *)
THEOREM NoReentry == ConditionSpec => []NeverReentered
<1>1. ConditionInit => NeverReentered
  BY DEF ConditionInit, NeverReentered
<1> QED BY <1>1, ShapeInit, ShapeNext, ReentryNext, PTL DEF ConditionSpec

(* Whatever order the conditions are asked for in: what can be known of    *)
(* one that depends on no cycle is known, and of the others nothing is     *)
(* known that Kleene's logic does not tell.                                *)
THEOREM ConditionCompleteness == ConditionSpec => []VerdictsAreKleene
<1>1. ConditionInit => Exhaustive
  <2> SUFFICES ASSUME ConditionInit PROVE Exhaustive
    OBVIOUS
  <2>1. cache = <<>> /\ result = "none" /\ frames = <<>>
    BY DEF ConditionInit
  <2>2. DOMAIN cache = {} /\ 1..Len(frames) = {}
    BY <2>1
  <2> QED BY <2>1, <2>2 DEF Exhaustive
<1>2. Exhaustive => VerdictsAreKleene
  BY DEF Exhaustive, VerdictsAreKleene, Told
<1> QED BY <1>1, <1>2, ShapeInit, ShapeNext, ExhaustiveNext, PTL DEF ConditionSpec
==============================================================================
