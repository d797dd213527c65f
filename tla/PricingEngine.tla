----------------------------- MODULE PricingEngine -----------------------------
(***************************************************************************)
(* Pricing of a template's resolved resources.                             *)
(*                                                                         *)
(* Source: src/src/pricing/dimensions.py (the mappers and classify),       *)
(* engine.py (PricingEngine), platform.py (Ec2PlatformResolver), models.py *)
(* (coverage_of).                                                          *)
(*                                                                         *)
(* A product is the tuple of the attributes that its price is looked up    *)
(* by; a component is a product and a quantity.  The catalog has a price   *)
(* for every product but the Unlisted ones.                                *)
(*                                                                         *)
(* Templates have, beyond what TemplateResolver uses:                      *)
(*   images      image -> platform it really has                           *)
(*   opaque      the images DescribeImages does not tell the platform of   *)
(***************************************************************************)
EXTENDS TemplateResolver

CONSTANTS
  HoursPerMonth,   \* 730, scaled
  FreeIops,        \* 3000, scaled (gp3)
  FreeThroughput,  \* 125, scaled (gp3)
  Unlisted,        \* products without a price in the catalog
  MaxFailures      \* bound: failed DescribeImages calls

ASSUME QuantitiesAssumption ==
  {HoursPerMonth, FreeIops, FreeThroughput, MaxFailures} \subseteq Nat

NoText == ""

(* An image has a name. *)
ASSUME ImagesAssumption ==
  \A t \in Templates :
    {"images", "opaque"} \subseteq DOMAIN t /\ NoText \notin DOMAIN t.images

VARIABLES
  priced,    \* the resources priced so far
  platforms, \* _cache: the verified platforms of images
  failures   \* failed DescribeImages calls so far

engineVars == <<resolverVars, priced, platforms, failures>>

(***************************************************************************)
(* Coercion                                                                *)
(***************************************************************************)

Digits == <<"0", "1", "2", "3", "4", "5">>
None == 0 - 1

(* _text: NoText when absent, empty, or not a scalar. *)
Text(props, p) ==
  IF p \in DOMAIN props /\ props[p].kind = "scalar" /\ Len(props[p].v) = 1
  THEN props[p].v[1] ELSE NoText

TextOr(props, p, default) == IF Text(props, p) = NoText THEN default ELSE Text(props, p)

(* _number, however it is written *)
Number(props, p) ==
  LET places == {i \in DOMAIN Digits : Digits[i] = Rewritten(Text(props, p))}
  IN  IF places = {} THEN None ELSE (CHOOSE i \in places : TRUE) - 1

NumberOr(props, p, default) ==
  IF Number(props, p) \in {None, 0} THEN default ELSE Number(props, p)

(* _flag *)
Flag(props, p) == Text(props, p) = "true"

Fields(value) == IF value.kind = "object" THEN value.v ELSE <<>>
Items(props, p) ==
  IF p \in DOMAIN props /\ props[p].kind = "list" THEN props[p].v ELSE <<>>

(***************************************************************************)
(* Mappers                                                                 *)
(***************************************************************************)

Component(product, quantity) == {[product |-> product, quantity |-> quantity]}
Hourly(product) == Component(product, HoursPerMonth)

Classified(class, components, excluded) ==
  [class |-> class, components |-> components, excluded |-> excluded]

Deterministic(components, excluded) ==
  Classified("DETERMINISTIC", components, excluded)
Other(class) == Classified(class, {}, {})

(* Mutant of AboveFree: the amount is not compared with the allowance. *)
AboveFreeUnchecked(product, amount, free) == Component(product, amount - free)

AboveFree(product, amount, free) ==
  IF amount > free THEN Component(product, amount - free) ELSE {}

(* _ebs_components, of a volume or an inline block device.  The device     *)
(* tells the volumes of an instance apart.                                 *)
EbsComponents(spec, device) ==
  LET type == TextOr(spec, "VolumeType", "gp2")
      size == NumberOr(spec, "Size", Number(spec, "VolumeSize"))
      iops == Number(spec, "Iops")
      product(family) == <<"EC2", family, type, device>>
  IN  (IF size > 0 THEN Component(product("Storage"), size) ELSE {})
      \cup (CASE type = "gp3" ->
                   AboveFree(product("IOPS"), iops, FreeIops)
                   \cup AboveFree(product("Throughput"),
                                  Number(spec, "Throughput"), FreeThroughput)
              [] type = "io1" -> AboveFree(product("IOPS"), iops, 0)
              [] OTHER -> {})

(* io2 IOPS are tiered, so they are named instead of priced. *)
EbsExcluded(spec) ==
  IF Text(spec, "VolumeType") = "io2" /\ Number(spec, "Iops") > 0
  THEN {"provisioned IOPS"} ELSE {}

(* _ebs_volume *)
Volume(props) ==
  IF Number(props, "Size") = None THEN Other("UNRESOLVED")
  ELSE Deterministic(EbsComponents(props, 0), EbsExcluded(props))

(* _ec2_instance, given the platform of its image. *)
Instance(props, platform) ==
  LET type == Text(props, "InstanceType")
      tenancy == TextOr(props, "Tenancy", "default")
      devices == Items(props, "BlockDeviceMappings")
      ebs(i) == LET fields == Fields(devices[i])
                IN  IF "Ebs" \in DOMAIN fields THEN Fields(fields.Ebs) ELSE <<>>
  IN  IF type = NoText \/ tenancy \notin {"default", "dedicated", "host"}
      THEN Other("UNRESOLVED")
      ELSE Deterministic(
             Hourly(<<"EC2", "Instance", type, platform, tenancy>>)
               \cup UNION {IF ebs(i) = <<>> THEN {} ELSE EbsComponents(ebs(i), i) :
                             i \in DOMAIN devices},
             {"AMI-provided storage"}
               \cup UNION {EbsExcluded(ebs(i)) : i \in DOMAIN devices})

(* _rds_instance *)
DBInstance(props) ==
  LET class == Text(props, "DBInstanceClass")
      engine == Text(props, "Engine")
      deployment == IF Flag(props, "MultiAZ") THEN "Multi-AZ" ELSE "Single-AZ"
      storage == Number(props, "AllocatedStorage")
      type == TextOr(props, "StorageType", "gp2")
      iops == Number(props, "Iops")
      storageComponent ==
        IF storage > 0
        THEN Component(<<"RDS", "Storage", type, deployment>>, storage) ELSE {}
      iopsComponent ==
        IF type \in {"io1", "io2"}
        THEN AboveFree(<<"RDS", "IOPS", deployment>>, iops, 0) ELSE {}
  IN  CASE class = NoText \/ engine = NoText -> Other("UNRESOLVED")
        [] class # NoText /\ engine = "aurora-mysql" -> Other("UNSUPPORTED")
        [] OTHER -> Deterministic(
             Hourly(<<"RDS", "Instance", class, engine, deployment>>)
               \cup storageComponent \cup iopsComponent,
             (IF storage > 0 THEN {} ELSE {"Storage"})
               \cup (IF iopsComponent = {} THEN {"I/O"} ELSE {})
               \cup (IF type = "gp3" /\ Number(props, "StorageThroughput") > 0
                     THEN {"gp3 storage throughput"} ELSE {}))

(* _load_balancer *)
LoadBalancer(props) ==
  LET type == TextOr(props, "Type", "application")
  IN  IF type \notin {"application", "network", "gateway"}
      THEN Other("UNSUPPORTED")
      ELSE Deterministic(Hourly(<<"ELB", type>>), {"LCU usage"})

(* _replication_group_nodes: shards with replicas, explicit shards, or a   *)
(* number of nodes that includes the primary.                              *)
GroupNodes(props) ==
  LET replicas == NumberOr(props, "ReplicasPerNodeGroup", 0)
      listed == Len(Items(props, "NodeGroupConfiguration"))
      shards == IF Number(props, "NumNodeGroups") # None
                THEN Number(props, "NumNodeGroups")
                ELSE IF listed > 0 THEN listed ELSE None
      clusters == Number(props, "NumCacheClusters")
  IN  CASE shards # None -> shards * (1 + replicas)
        [] shards = None /\ clusters # None -> clusters
        [] OTHER -> 1 + replicas

CacheNodes(props, nodes, excluded) ==
  LET type == Text(props, "CacheNodeType")
      engine == TextOr(props, "Engine", "redis")
  IN  IF type = NoText THEN Other("UNRESOLVED")
      ELSE Deterministic(
             Component(<<"ElastiCache", type, engine>>, HoursPerMonth * nodes),
             excluded)

(* _elasticache_cluster *)
CacheCluster(props) == CacheNodes(props, NumberOr(props, "NumCacheNodes", 1), {})

(* _elasticache_replication_group *)
ReplicationGroup(props) ==
  CacheNodes(props, GroupNodes(props), {"Backup storage", "Data transfer"})

(* _dynamodb_table: the table's capacity and that of its indexes. *)
Table(props) ==
  LET capacity(spec) ==
        IF "ProvisionedThroughput" \in DOMAIN spec
        THEN Fields(spec.ProvisionedThroughput) ELSE <<>>
      indexes == Items(props, "GlobalSecondaryIndexes")
      capacities ==
        <<capacity(props)>> \o [i \in DOMAIN indexes |-> capacity(Fields(indexes[i]))]
      counted == {1} \cup {i + 1 : i \in {j \in DOMAIN indexes : indexes[j].kind = "object"}}
      total(unit) ==
        LET share == [i \in DOMAIN capacities |->
                        IF i \in counted THEN Number(capacities[i], unit) ELSE 0]
            upTo[i \in 0..Len(capacities)] ==
              IF i = 0 THEN 0 ELSE upTo[i - 1] + share[i]
        IN  upTo[Len(capacities)]
      known == \A i \in counted, unit \in {"Read", "Write"} :
                 Number(capacities[i], unit) # None
  IN  CASE Text(props, "BillingMode") = "PAY_PER_REQUEST" -> Other("USAGE_BASED")
        [] Text(props, "BillingMode") # "PAY_PER_REQUEST" /\ ~known ->
             Other("UNRESOLVED")
        [] OTHER -> Deterministic(
             UNION {Component(<<"DynamoDB", unit>>, total(unit) * HoursPerMonth) :
                      unit \in {"Read", "Write"}},
             {"Table storage", "Backup and restore"})

(* classify: the types that depend on their properties have a mapper, the  *)
(* others are in a table or have no mapping at all.                        *)
Classify(type, props, platform) ==
  CASE type = "Volume" -> Volume(props)
    [] type = "Instance" -> Instance(props, platform)
    [] type = "DBInstance" -> DBInstance(props)
    [] type = "NatGateway" ->
         Deterministic(Hourly(<<"EC2", "NAT Gateway">>), {"Data processing"})
    [] type = "LoadBalancer" -> LoadBalancer(props)
    [] type = "CacheCluster" -> CacheCluster(props)
    [] type = "ReplicationGroup" -> ReplicationGroup(props)
    [] type = "EIP" -> Deterministic(Hourly(<<"VPC", "PublicIPv4">>), {})
    [] type = "Table" -> Table(props)
    [] type = "SSMParameter" ->
         Other(IF TextOr(props, "Tier", "Standard") = "Standard"
               THEN "FREE" ELSE "UNSUPPORTED")
    [] type = "Certificate" ->
         Other(IF "CertificateAuthorityArn" \in DOMAIN props
               THEN "UNSUPPORTED" ELSE "FREE")
    [] type = "Bucket" -> Other("USAGE_BASED")
    [] type = "Role" -> Other("FREE")
    [] OTHER -> Other("UNSUPPORTED")

(***************************************************************************)
(* Platform of an image (Ec2PlatformResolver.resolve and _fetch)           *)
(***************************************************************************)

Assumed == [os |-> "Linux", assumed |-> TRUE]
Described(image) == [os |-> template.images[image], assumed |-> FALSE]

(* The images whose platform DescribeImages tells. *)
Readable == DOMAIN template.images \ template.opaque

(* The image the mapper of an instance asks about, if it asks. *)
ImageOf(r) ==
  LET props == resolved[r].properties
  IN  IF Resource(r).type = "Instance" /\ Text(props, "InstanceType") # NoText
      THEN Text(props, "ImageId") ELSE NoText

(* Mutant of Remembers: a fallback is remembered as well. *)
RemembersAlways(platform) == TRUE

(* Only what the image's metadata said is remembered. *)
Remembers(platform) == ~platform.assumed

(***************************************************************************)
(* price_inventory                                                         *)
(***************************************************************************)

(* Mutant of ConfidenceOf: a component without a price goes unnoticed. *)
ConfidenceOfPriced(components, excluded) ==
  IF \A c \in components : c.product \in Unlisted THEN "UNAVAILABLE"
  ELSE IF excluded # {} THEN "MEDIUM" ELSE "HIGH"

(* _price_components: none, some or all of the components have a price. *)
ConfidenceOf(components, excluded) ==
  LET unpriced == {c \in components : c.product \in Unlisted}
  IN  IF unpriced = components THEN "UNAVAILABLE"
      ELSE IF unpriced # {} \/ excluded # {} THEN "MEDIUM" ELSE "HIGH"

(* price_resource once the platform is known. *)
Outcome(r, platform) ==
  LET c == Classify(Resource(r).type, resolved[r].properties, platform.os)
  IN  [class |-> c.class, components |-> c.components, excluded |-> c.excluded,
       platform |-> platform,
       confidence |-> IF c.class = "DETERMINISTIC"
                      THEN ConfidenceOf(c.components, c.excluded)
                      ELSE "UNAVAILABLE"]

Price(r, platform) ==
  priced' = [s \in DOMAIN priced \cup {r} |->
               IF s = r THEN Outcome(r, platform) ELSE priced[s]]

(* Every resource is resolved before the first is priced. *)
Pricing(r) ==
  /\ DOMAIN resolved = Resources
  /\ r \notin DOMAIN priced
  /\ resolved[r].inclusion # "EXCLUDED"

(* Nothing to ask, or the answer is remembered. *)
PriceLocally(r) ==
  /\ Pricing(r)
  /\ ImageOf(r) \in DOMAIN platforms \cup {NoText}
  /\ Price(r, IF ImageOf(r) = NoText THEN Assumed ELSE platforms[ImageOf(r)])
  /\ UNCHANGED <<resolverVars, platforms, failures>>

(* DescribeImages is asked, and may be throttled or denied. *)
PriceAsking(r) ==
  LET image == ImageOf(r)
      Fetched(platform) ==
        /\ Price(r, platform)
        /\ platforms' = [i \in DOMAIN platforms
                               \cup (IF Remembers(platform) THEN {image} ELSE {}) |->
                           IF i = image THEN platform ELSE platforms[i]]
  IN  /\ Pricing(r)
      /\ image \notin DOMAIN platforms \cup {NoText}
      /\ \/ image \in Readable /\ Fetched(Described(image)) /\ UNCHANGED failures
         \/ image \notin Readable /\ Fetched(Assumed) /\ UNCHANGED failures
         \/ failures < MaxFailures /\ Fetched(Assumed) /\ failures' = failures + 1
      /\ UNCHANGED resolverVars

EngineInit ==
  /\ ResolverInit
  /\ priced = <<>>
  /\ platforms = <<>>
  /\ failures = 0

EngineNext ==
  \/ ResolverNext /\ UNCHANGED <<priced, platforms, failures>>
  \/ \E r \in Resources : PriceLocally(r) \/ PriceAsking(r)

EngineSpec == EngineInit /\ [][EngineNext]_engineVars

(***************************************************************************)
(* Properties                                                              *)
(***************************************************************************)

Classes == {"DETERMINISTIC", "USAGE_BASED", "FREE", "UNSUPPORTED", "UNRESOLVED"}

(* Every variable keeps its type. *)
EngineTypeOK ==
  /\ DOMAIN resolved \subseteq Resources
  /\ \A r \in DOMAIN resolved :
       /\ resolved[r].inclusion \in {"INCLUDED", "EXCLUDED", "UNKNOWN"}
       /\ resolved[r].gaps \subseteq DOMAIN Resource(r).properties
  /\ DOMAIN priced \subseteq DOMAIN resolved
  /\ \A r \in DOMAIN priced :
       /\ priced[r].class \in Classes
       /\ priced[r].confidence \in {"HIGH", "MEDIUM", "UNAVAILABLE"}
       /\ \A c \in priced[r].components : c.quantity \in Nat
  /\ failures \in 0..MaxFailures

(* The classification of what was deployed under this logical ID. *)
Billed(r) ==
  LET properties == Resource(r).properties
      props == Mapping([p \in DOMAIN properties |-> Deployed(template)[properties[p]]], TRUE).v
      image == Text(props, "ImageId")
  IN  Classify(Resource(r).type, props,
               IF image \in DOMAIN template.images THEN template.images[image]
                                                  ELSE Assumed.os)

(* What was resolved without a gap, and without a text that stands in for  *)
(* another, is priced as it was deployed, the instances of an image        *)
(* DescribeImages told of included, and is called certain only if nothing  *)
(* of the bill is left out.                                                *)
FigureIsDeployed ==
  \A r \in DOMAIN priced :
    /\ Exists(r)
    /\ resolved[r].gaps = {}
    /\ \A p \in DOMAIN Resource(r).properties : StandIns[Resource(r).properties[p]] = {}
    /\ Resource(r).type = "Instance" => ~priced[r].platform.assumed
    => /\ priced[r].class = Billed(r).class
       /\ priced[r].components = Billed(r).components
       /\ priced[r].confidence = "HIGH" =>
            /\ Billed(r).excluded = {}
            /\ \A c \in Billed(r).components : c.product \notin Unlisted

(* "A transient EC2 failure must not underprice that AMI until Lambda      *)
(* recycling": each failed call costs one instance its platform, no more.  *)
OneFallbackPerFailure ==
  LET wrong == {r \in DOMAIN priced :
                  /\ ImageOf(r) \in Readable
                  /\ priced[r].platform.os # template.images[ImageOf(r)]}
  IN  Cardinality(wrong) <= failures

(* resolver.py: "never guess ... a cost report that is quietly wrong       *)
(* destroys trust"; engine.py: "No estimation, no interpolation, no        *)
(* filling in of gaps".  A figure reported with high confidence is that of *)
(* what was deployed.                                                      *)
NeverQuietlyWrong ==
  \A r \in DOMAIN priced :
    priced[r].confidence = "HIGH" =>
      /\ priced[r].class = Billed(r).class
      /\ priced[r].components = Billed(r).components
==============================================================================
