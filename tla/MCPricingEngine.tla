---------------------------- MODULE MCPricingEngine ----------------------------
(* Small instances of PricingEngine, and of the resolver below it, for TLC. *)
EXTENDS PricingEngine, TLC

(***************************************************************************)
(* Conditions of templates with typical resources: Known holds, No does    *)
(* not, Either is Unsure or Known, and Unsure depends on what a template   *)
(* does not say.                                                           *)
(***************************************************************************)
ConditionNames == {"Known", "No", "Unsure", "Either"}

Node(op, value, name, args) == [op |-> op, value |-> value, name |-> name, args |-> args]
Leaf(v) == Node("equals", v, "A", <<>>)
Refers(c) == Node("ref", "unknown", c, <<>>)
Apply(op, args) == Node(op, "unknown", "A", args)

Definition ==
  [n \in ConditionNames |-> Refers(n)]
    @@ [yes |-> Leaf("true"), dunno |-> Leaf("unknown"),
        notKnown |-> Apply("not", <<"Known">>),
        unsureOrKnown |-> Apply("or", <<"Unsure", "Known">>)]

Bodies == [Known |-> "yes", No |-> "notKnown", Unsure |-> "dunno",
           Either |-> "unsureOrKnown"]

(***************************************************************************)
(* Two conditions defined in every way: over leaves, each other and        *)
(* themselves, and the undefined C.                                        *)
(***************************************************************************)
Operand ==
  [t |-> Leaf("true"), f |-> Leaf("false"), u |-> Leaf("unknown"),
   A |-> Refers("A"), B |-> Refers("B"), C |-> Refers("C")]

BodiesOver(operands) ==
  {Apply("not", <<x>>) : x \in operands}
    \cup {Apply(op, <<x, y>>) : op \in {"and", "or"}, x, y \in operands}

(* The value of a body when each operand has the given one. *)
Value(d, holds) ==
  CASE d.op = "equals" -> Truth(d.value)
    [] d.op = "ref" -> holds[d.name]
    [] d.op = "not" -> ~holds[d.args[1]]
    [] d.op = "and" -> \A i \in DOMAIN d.args : holds[d.args[i]]
    [] d.op = "or" -> \E i \in DOMAIN d.args : holds[d.args[i]]

Holds(u, a, b, c) == [t |-> TRUE, f |-> FALSE, u |-> u, A |-> a, B |-> b, C |-> c]

AllNames == ConditionNames \cup {"A", "B", "C"}
AllNodes ==
  {"Known", "No", "Unsure", "Either", "yes", "dunno", "notKnown", "unsureOrKnown",
   "t", "f", "u", "A", "B", "C", "bodyA", "bodyB"}

(***************************************************************************)
(* Property expressions                                                    *)
(***************************************************************************)
Lit(text) == [fn |-> "literal", parts |-> <<text>>]
Par(name) == [fn |-> "ref", name |-> name]
Absent == Par("AWS::NoValue")
Runtime(text) == [fn |-> "runtime", value |-> Scalar(<<text>>)]
Dynamic(of, text) == [fn |-> "dynamic", of |-> of, value |-> Scalar(<<text>>)]
If(c, yes, no) == [fn |-> "if", condition |-> c, yes |-> yes, no |-> no]
Array(items) == [fn |-> "array", items |-> items]
Obj(fields) == [fn |-> "object", fields |-> fields]
Find(key) == [fn |-> "find", key |-> key, default |-> Runtime("gp2")]
Select(items, index) == [fn |-> "select", of |-> items, index |-> index]
Join(items) == [fn |-> "join", of |-> items]
Split(source) == [fn |-> "split", of |-> source]

(* An optional property that is v, w or absent. *)
Optional(v, w) ==
  {Absent, Lit(v), Runtime(v), If("No", Lit(v), Absent), If("Either", Lit(v), Lit(w)),
   If("Unsure", Lit(v), Absent), If("Unsure", Lit(v), Lit(w)), Dynamic(Lit("{{a}}"), v),
   If("Unsure", Lit(v), Dynamic(Lit("{{a}}"), v))}

Lists ==
  {Array(<<Lit("a"), If("No", Lit("x"), Absent), Lit("b")>>),
   Array(<<Runtime("a"), Lit("b")>>),
   Array(<<If("Unsure", Lit("a"), Lit("x")), Lit("b")>>),
   Par("Zones"), Split(Join(Par("Zones"))), Split(Join(Array(<<Lit("a"), Par("Hidden")>>))),
   Array(<<Lit("a"), Dynamic(Join(Array(<<Lit("{{"), Par("Kind")>>)), "b")>>),
   Par("Ports"), Split(Join(Array(<<Lit("a"), Par("Secret")>>)))}

Device(type, size) == Obj([Ebs |-> Obj([VolumeType |-> type, VolumeSize |-> size])])
Throughput(units) == Obj([Read |-> Lit(units), Write |-> Lit("1")])
Index(units) == Obj([ProvisionedThroughput |-> Throughput(units)])

(***************************************************************************)
(* Resources                                                               *)
(***************************************************************************)
Declared(type, condition, properties) ==
  [type |-> type, condition |-> condition, properties |-> properties]
Unconditional(type, properties) == Declared(type, NoNode, properties)

Volumes ==
  {Unconditional("Volume", [Size |-> s, VolumeType |-> t, Iops |-> i]) :
     s \in {Par("Size"), Par("Padded"), Par("Secret"), Runtime("4"), Lit("0")},
     t \in Optional("gp3", "io2") \cup {Find(Par("Kind")), Find(Lit("none"))},
     i \in Optional("5", "3")}
Instances ==
  {Unconditional("Instance", [InstanceType |-> t, ImageId |-> i, Tenancy |-> n]) :
     t \in {Select(l, 1) : l \in Lists}, i \in {Lit("win"), Lit("odd"), Absent},
     n \in {Lit("dedicated"), Runtime("host"), Absent}}
Devices ==
  {Unconditional("Instance", [InstanceType |-> Lit("a"), BlockDeviceMappings |-> d]) :
     d \in {Array(<<Device(Lit("gp3"), Lit("4")), x>>) :
              x \in Optional("b", "a") \cup {Device(y, Par("Size")) : y \in Optional("io2", "gp2")}
                      \cup {If("Unsure", Device(Absent, Lit("2")), Absent)}}}
Databases ==
  {Unconditional("DBInstance",
       [DBInstanceClass |-> Lit("a"), Engine |-> e, MultiAZ |-> m,
        AllocatedStorage |-> Par("Size"), StorageType |-> Lit("io1"), Iops |-> i]) :
     e \in {Lit("mysql"), Lit("aurora-mysql"), Runtime("mysql")},
     m \in Optional("true", "false"), i \in {Lit("5"), Runtime("5")}}
Caches ==
  {Unconditional("CacheCluster", [CacheNodeType |-> t, NumCacheNodes |-> n]) :
     t \in {Lit("a"), Runtime("a"), Lit("none")}, n \in Optional("3", "2")}
Groups ==
  {Unconditional("ReplicationGroup",
       [CacheNodeType |-> Lit("a"), NumNodeGroups |-> g, ReplicasPerNodeGroup |-> n,
        NodeGroupConfiguration |-> c, NumCacheClusters |-> k]) :
     g \in {Absent, Lit("2"), Runtime("2")}, n \in {Absent, Lit("1"), Runtime("1")},
     c \in {Absent, Array(<<Obj([Slots |-> Lit("a")]), Obj([Slots |-> Runtime("b")])>>)},
     k \in {Absent, Lit("3"), Runtime("3")}}
Tables ==
  {Unconditional("Table", [BillingMode |-> b, ProvisionedThroughput |-> t,
                           GlobalSecondaryIndexes |-> Array(<<Index("2"), x>>)]) :
     b \in Optional("PAY_PER_REQUEST", "PROVISIONED"),
     t \in {Absent, Throughput("1")},
     x \in {Absent, Index("1"), If("Unsure", Index("1"), Absent), Obj([Name |-> Lit("a")])}}
Simple ==
  {Declared(type, c, <<>>) :
     type \in {"EIP", "NatGateway", "Bucket", "Role", "AutoScalingGroup"},
     c \in ConditionNames \cup {NoNode}}
   \cup {Unconditional("LoadBalancer", [Type |-> t]) : t \in Optional("network", "classic")}
   \cup {Unconditional("SSMParameter", [Tier |-> t]) : t \in Optional("Advanced", "Standard")}
   \cup {Unconditional("Certificate", [CertificateAuthorityArn |-> t]) : t \in Optional("a", "b")}

(* Instances that share an image, beside a resource that may not exist. *)
Shared ==
  LET instance(image) ==
        Unconditional("Instance", [InstanceType |-> Lit("a"), ImageId |-> Lit(image)])
  IN  {[r1 |-> instance("win"), r2 |-> instance("win"), r3 |-> Declared("EIP", c, <<>>)] :
         c \in {"Unsure", "Either", "No"}}
      \cup {[r1 |-> instance("win"), r2 |-> instance("odd"), r3 |-> instance(i)] :
              i \in {"win", "odd", "lin"}}

Stacks ==
  {[r1 |-> b] : b \in UNION {Volumes, Instances, Devices, Databases, Caches, Groups,
                             Tables, Simple}}
    \cup Shared

(* Nodes that a template does not use are leaves, names of conditions that *)
(* it does not define are undefined references.                            *)
Template(bodies, def, truth, stack) ==
  [conditions |-> bodies,
   def |-> [n \in AllNodes |-> IF n \in DOMAIN def THEN def[n]
                          ELSE IF n \in ConditionNames THEN Refers(n) ELSE Leaf("true")],
   truth |-> [n \in AllNodes |-> n \in DOMAIN truth => truth[n]],
   resources |-> stack,
   supplied |-> [Size |-> <<"4">>, Padded |-> <<"04">>, Ports |-> <<"3", "04">>,
                 Secret |-> <<"****">>, Kind |-> <<"gp3">>, Zones |-> <<"a", "b">>],
   defaults |-> [Kind |-> <<"gp2">>],
   listTyped |-> {"Zones", "Ports"},
   numberTyped |-> {"Size", "Padded", "Ports"},
   given |-> [Hidden |-> <<"b">>, Secret |-> <<"3">>],
   mappings |-> (<<"gp3">> :> <<"gp3">>) @@ (<<"gp2">> :> <<"gp2">>),
   images |-> [win |-> "Windows", odd |-> "Windows", lin |-> "Linux"],
   opaque |-> {"odd"}]

ResourceTemplates ==
  {Template(Bodies, Definition,
            [n \in {"No", "notKnown", "Unsure", "dunno"} |-> n \in {"Unsure", "dunno"} /\ unsure],
            stack) :
     stack \in Stacks, unsure \in BOOLEAN}

(* The bodies of A and B, and a reading of them that is consistent. *)
Consistent ==
  {c \in (BodiesOver({"t", "u", "B"}) \cup {Refers("C")})
           \X (BodiesOver({"f", "A", "B"}) \cup {Apply("or", <<>>)})
           \X {Holds(u, a, b, c) : u, a, b, c \in BOOLEAN} :
     c[3].A = Value(c[1], c[3]) /\ c[3].B = Value(c[2], c[3])}

ConditionTemplates ==
  {Template([A |-> "bodyA", B |-> "bodyB"],
            Operand @@ [bodyA |-> c[1], bodyB |-> c[2]],
            c[3] @@ [bodyA |-> c[3].A, bodyB |-> c[3].B],
            [r1 |-> Declared("EIP", "A", <<>>), r2 |-> Declared("Role", "B", <<>>)]) :
     c \in Consistent}

(* The properties of all resources, and what they are made of. *)
Properties ==
  UNION {{stack[r].properties[p] : p \in DOMAIN stack[r].properties} :
           <<stack, r>> \in {s \in Stacks \X {"r1", "r2", "r3"} : s[2] \in DOMAIN s[1]}}

WithParts(es) == es \cup UNION {Parts(e) : e \in es}
PropertiesAndParts == WithParts(WithParts(WithParts(WithParts(WithParts(Properties)))))

(* (TLC evaluates a constant's definition at each use, but not what the    *)
(* definition names.)                                                      *)
AllExpressions == PropertiesAndParts

DepthOfEach ==
  LET depth[e \in AllExpressions] ==
        IF Parts(e) = {} THEN 0 ELSE 1 + Max({depth[part] : part \in Parts(e)})
  IN  [e \in AllExpressions |-> depth[e]]

AllTemplates == ResourceTemplates \cup ConditionTemplates

(* The numerals that Python writes differently. *)
Rewriting == [text \in {"04"} |-> "4"]

(* In no price list: a cache node type, the IOPS of a gp3 volume. *)
NoPrice == {<<"ElastiCache", "none", "redis">>, <<"EC2", "IOPS", "gp3", 0>>}
==============================================================================
