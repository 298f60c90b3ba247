-------------------------- MODULE DiscoveryProofs --------------------------
(***************************************************************************)
(* What discovery drafts, for any manifest, options and order of the       *)
(* parameters: the file holds the rules that each tool's parameters draw,  *)
(* all of them and no others.  From it follow what the drafted rules       *)
(* refuse and what they let pass.  Each of them is traced to the parameter *)
(* it comes from; from that follows which drafts "gatra start" accepts.    *)
(***************************************************************************)
EXTENDS Discovery, TLAPS

-----------------------------------------------------------------------------
(***************************************************************************)
(* The rules that a parameter draws, as a set.                             *)
(***************************************************************************)
Kinds == {"rate_limit", "numeric_limit", "enum_guard", "pattern_guard", "injection_guard",
          "path_traversal_guard"}

Operands == (SUBSET Texts) \cup Int \cup Patterns \cup {Unset}

DraftRules ==
  [ruleID : Seq(Letters \cup Kinds), toolPattern : Names, valuePath : Names \cup {Whole},
   maxPerCall : Int \cup {Unset}, maxCumulative : {DefaultMaxCumulative, Unset},
   condition : [test : {"none", "minimum", "enum", "pattern", "injection", "climbing"},
                operand : Operands]]

LimitRule(toolName, param, prop) ==
  [ruleID |-> RuleID(toolName, param, "numeric_limit"), toolPattern |-> toolName,
   valuePath |-> param, maxPerCall |-> PerCall(prop), maxCumulative |-> DefaultMaxCumulative,
   condition |-> MinimumCondition(prop)]

GuardRule(toolName, param, kind, test, operand) ==
  [ruleID |-> RuleID(toolName, param, kind), toolPattern |-> toolName, valuePath |-> param,
   maxPerCall |-> Unset, maxCumulative |-> Unset,
   condition |-> [test |-> test, operand |-> operand]]

Members(seq) == {seq[i] : i \in 1 .. Len(seq)}

Provided(test, rule) == IF test THEN {rule} ELSE {}

Drawn(toolName, param, prop) ==
  Provided(Numeric(prop), LimitRule(toolName, param, prop))
  \cup Provided(prop.enum # {}, GuardRule(toolName, param, "enum_guard", "enum", prop.enum))
  \cup Provided(prop.pattern # Unset,
                GuardRule(toolName, param, "pattern_guard", "pattern", prop.pattern))
  \cup Provided(EnableInjectionGuard /\ IsExecutionVector(prop),
                GuardRule(toolName, param, "injection_guard", "injection", Unset))
  \cup Provided(EnablePathGuard /\ IsPathVector(prop),
                GuardRule(toolName, param, "path_traversal_guard", "climbing", Unset))

-----------------------------------------------------------------------------
(***************************************************************************)
(* Lemmas about sequences and rounding.                                    *)
(***************************************************************************)
LEMMA Concatenated ==
  ASSUME NEW a \in Seq(DraftRules), NEW b \in Seq(DraftRules)
  PROVE  a \o b \in Seq(DraftRules) /\ Members(a \o b) = Members(a) \cup Members(b)
  <1>1. a \o b \in Seq(DraftRules) /\ Len(a \o b) = Len(a) + Len(b)
    OBVIOUS
  <1>2. \A i \in 1 .. Len(a) : i \in 1 .. Len(a \o b) /\ (a \o b)[i] = a[i]
    BY <1>1
  <1>3. \A i \in 1 .. Len(b) : i + Len(a) \in 1 .. Len(a \o b) /\ (a \o b)[i + Len(a)] = b[i]
    BY <1>1
  <1>4. \A i \in 1 .. Len(a \o b) :
          i \in 1 .. Len(a) \/ (i - Len(a) \in 1 .. Len(b) /\ (a \o b)[i] = b[i - Len(a)])
    BY <1>1
  <1> QED
    BY <1>1, <1>2, <1>3, <1>4 DEF Members

LEMMA OneOrNone ==
  ASSUME NEW test \in BOOLEAN, NEW rule \in DraftRules
  PROVE  LET seq == IF test THEN <<rule>> ELSE <<>>
         IN  seq \in Seq(DraftRules) /\ Members(seq) = Provided(test, rule)
  BY DEF Members, Provided

LEMMA HalfUnit == Precision \div 2 \in Int
  <1>1. Precision \in Nat
    BY DiscoveryAssumption
  <1> QED
    BY <1>1

\* A printed number is less than one unit of the sixth decimal's half away.
LEMMA PrintedNear ==
  ASSUME NEW n \in Int
  PROVE  /\ Printed(n) \in Int
         /\ n <= Printed(n) + Precision \div 2
         /\ Printed(n) <= n + Precision \div 2
  <1>1. Precision \in Nat /\ Precision % 2 = 1
    BY DiscoveryAssumption
  <1>2. PICK half \in Nat : half = Precision \div 2 /\ Precision = 2 * half + 1
    BY <1>1
  <1>3. n + half \in Int /\ Precision \in Nat \ {0}
    BY <1>1, <1>2
  <1>4. /\ (n + half) \div Precision \in Int
        /\ (n + half) = Precision * ((n + half) \div Precision) + ((n + half) % Precision)
        /\ (n + half) % Precision \in 0 .. Precision - 1
    BY <1>3
  <1> DEFINE q == (n + half) \div Precision
             r == (n + half) % Precision
  <1>5. Printed(n) = q * Precision
    BY <1>2 DEF Printed
  <1>6. q \in Int /\ r \in 0 .. Precision - 1 /\ n + half = Precision * q + r
    BY <1>4
  <1> HIDE DEF q, r
  <1>7. q * Precision = Precision * q /\ Precision * q \in Int
    BY <1>1, <1>6
  <1> DEFINE m == Precision * q
  <1>8. m \in Int /\ Printed(n) = m /\ n + half = m + r /\ r \in 0 .. 2 * half
    BY <1>2, <1>5, <1>6, <1>7
  <1> HIDE DEF m
  <1> QED
    BY <1>2, <1>8

LEMMA IDTyped ==
  ASSUME NEW toolName \in Names, NEW param \in Names, NEW kind \in Kinds
  PROVE  /\ RuleID(toolName, param, kind) \in Seq(Letters \cup Kinds)
         /\ RuleID(toolName, param, kind) # <<>>
         /\ Fallback(toolName) \in DraftRules /\ Fallback(toolName).ruleID # <<>>
  <1> DEFINE S == Letters \cup Kinds
  <1>0. Letters \subseteq S /\ "_" \in S /\ kind \in S /\ "rate_limit" \in S
    BY DiscoveryAssumption DEF Kinds
  <1> HIDE DEF S
  <1>1. ASSUME NEW name \in Names PROVE SanitizeID(name) \in Seq(S)
    <2> DEFINE char(i) == IF name[i] \in Letters THEN name[i] ELSE "_"
    <2>1. Len(name) \in Nat /\ DOMAIN name = 1 .. Len(name)
      BY DEF Names
    <2>2. \A i \in 1 .. Len(name) : char(i) \in S
      BY <1>0
    <2>3. SanitizeID(name) = [i \in 1 .. Len(name) |-> char(i)]
      BY <2>1 DEF SanitizeID
    <2> HIDE DEF char
    <2> QED
      BY <2>1, <2>2, <2>3
  <1>2. SanitizeID(toolName) \in Seq(S) /\ SanitizeID(param) \in Seq(S)
    BY <1>1
  <1>3. ASSUME NEW a \in Seq(S), NEW mark \in S
        PROVE  a \o <<mark>> \in Seq(S) /\ a \o <<mark>> # <<>>
    <2>1. <<mark>> \in Seq(S) /\ Len(<<mark>>) = 1
      OBVIOUS
    <2>2. a \o <<mark>> \in Seq(S) /\ Len(a \o <<mark>>) = Len(a) + Len(<<mark>>)
      BY <2>1
    <2>3. Len(a \o <<mark>>) # 0
      BY <2>1, <2>2
    <2> QED
      BY <2>2, <2>3
  <1>4. RuleID(toolName, param, kind) \in Seq(S) /\ RuleID(toolName, param, kind) # <<>>
    <2> DEFINE a == SanitizeID(toolName) \o <<"_">>
               b == a \o SanitizeID(param)
    <2>1. a \in Seq(S)
      BY <1>0, <1>2, <1>3
    <2> HIDE DEF a
    <2>2. b \in Seq(S)
      BY <2>1, <1>2
    <2> HIDE DEF b
    <2>3. b \o <<kind>> \in Seq(S) /\ b \o <<kind>> # <<>>
      BY <2>2, <1>0, <1>3
    <2> QED
      BY <2>3 DEF RuleID, a, b
  <1>5. Fallback(toolName) \in DraftRules /\ Fallback(toolName).ruleID # <<>>
    <2> DEFINE id == SanitizeID(toolName) \o <<"rate_limit">>
    <2>1. id \in Seq(Letters \cup Kinds) /\ id # <<>>
      BY <1>0, <1>2, <1>3 DEF S
    <2>2. NoCondition \in [test : {"none", "minimum", "enum", "pattern", "injection", "climbing"},
                           operand : Operands]
      BY DEF NoCondition, Operands
    <2> HIDE DEF id
    <2>3. LET rule == [ruleID |-> id, toolPattern |-> toolName, valuePath |-> Whole,
                       maxPerCall |-> Unset, maxCumulative |-> Unset, condition |-> NoCondition]
          IN  rule \in DraftRules /\ rule.ruleID = id
      BY <2>1, <2>2 DEF DraftRules
    <2> QED
      BY <2>1, <2>3 DEF Fallback, id
  <1> QED
    BY <1>4, <1>5 DEF S

LEMMA DrawnTyped ==
  ASSUME NEW toolName \in Names, NEW param \in Names, NEW prop \in Properties
  PROVE  /\ LimitRule(toolName, param, prop) \in DraftRules
         /\ \A kind \in Kinds, operand \in Operands :
              \A test \in {"enum", "pattern", "injection", "climbing"} :
                GuardRule(toolName, param, kind, test, operand) \in DraftRules
  <1>1. prop.minimum \in Int \cup {Unset} /\ prop.maximum \in Int \cup {Unset}
    BY DEF Properties
  <1>2. PerCall(prop) \in Int \cup {Unset}
    BY <1>1, DiscoveryAssumption DEF PerCall
  <1>3. MinimumCondition(prop) \in
          [test : {"none", "minimum", "enum", "pattern", "injection", "climbing"},
           operand : Operands]
    <2>1. CASE prop.minimum = Unset
      BY <2>1 DEF MinimumCondition, NoCondition, Operands
    <2>2. CASE prop.minimum # Unset
      <3>1. Printed(prop.minimum) \in Int
        BY <1>1, <2>2, PrintedNear
      <3> QED
        BY <2>2, <3>1 DEF MinimumCondition, Operands
    <2> QED
      BY <2>1, <2>2
  <1>4. LimitRule(toolName, param, prop) \in DraftRules
    BY <1>2, <1>3, IDTyped DEF LimitRule, DraftRules, Kinds
  <1> QED
    BY <1>4, IDTyped DEF GuardRule, DraftRules

\* A parameter's draft is a sequence of the rules it draws.
LEMMA DraftDraws ==
  ASSUME NEW toolName \in Names, NEW param \in Names, NEW prop \in Properties
  PROVE  /\ Draft(toolName, param, prop) \in Seq(DraftRules)
         /\ Members(Draft(toolName, param, prop)) = Drawn(toolName, param, prop)
  <1> DEFINE execution == EnableInjectionGuard /\ IsExecutionVector(prop)
             path == EnablePathGuard /\ IsPathVector(prop)
             Limit == LimitRule(toolName, param, prop)
             Enum == GuardRule(toolName, param, "enum_guard", "enum", prop.enum)
             Pattern == GuardRule(toolName, param, "pattern_guard", "pattern", prop.pattern)
             Injection == GuardRule(toolName, param, "injection_guard", "injection", Unset)
             Climb == GuardRule(toolName, param, "path_traversal_guard", "climbing", Unset)
             a == IF Numeric(prop) THEN <<Limit>> ELSE <<>>
             b == IF prop.enum # {} THEN <<Enum>> ELSE <<>>
             c == IF prop.pattern # Unset THEN <<Pattern>> ELSE <<>>
             d == IF execution THEN <<Injection>> ELSE <<>>
             e == IF path THEN <<Climb>> ELSE <<>>
  <1>1. Draft(toolName, param, prop) = (((a \o b) \o c) \o d) \o e
    BY DEF Draft, LimitRule, GuardRule
  <1>2. prop.enum \in Operands /\ prop.pattern \in Operands /\ Unset \in Operands
    BY DEF Properties, Operands
  <1>3. /\ Limit \in DraftRules /\ Enum \in DraftRules /\ Pattern \in DraftRules
        /\ Injection \in DraftRules /\ Climb \in DraftRules
    BY <1>2, DrawnTyped DEF Kinds
  <1>4. /\ Numeric(prop) \in BOOLEAN /\ (prop.enum # {}) \in BOOLEAN
        /\ (prop.pattern # Unset) \in BOOLEAN /\ execution \in BOOLEAN /\ path \in BOOLEAN
    BY DEF Numeric, IsExecutionVector, IsPathVector
  <1>5. Drawn(toolName, param, prop) =
          Provided(Numeric(prop), Limit) \cup Provided(prop.enum # {}, Enum)
          \cup Provided(prop.pattern # Unset, Pattern) \cup Provided(execution, Injection)
          \cup Provided(path, Climb)
    BY DEF Drawn
  <1>6. /\ a \in Seq(DraftRules) /\ Members(a) = Provided(Numeric(prop), Limit)
        /\ b \in Seq(DraftRules) /\ Members(b) = Provided(prop.enum # {}, Enum)
        /\ c \in Seq(DraftRules) /\ Members(c) = Provided(prop.pattern # Unset, Pattern)
        /\ d \in Seq(DraftRules) /\ Members(d) = Provided(execution, Injection)
        /\ e \in Seq(DraftRules) /\ Members(e) = Provided(path, Climb)
    <2> HIDE DEF execution, path, Limit, Enum, Pattern, Injection, Climb
    <2>1. a \in Seq(DraftRules) /\ Members(a) = Provided(Numeric(prop), Limit)
      BY <1>3, <1>4, OneOrNone
    <2>2. b \in Seq(DraftRules) /\ Members(b) = Provided(prop.enum # {}, Enum)
      BY <1>3, <1>4, OneOrNone
    <2>3. c \in Seq(DraftRules) /\ Members(c) = Provided(prop.pattern # Unset, Pattern)
      BY <1>3, <1>4, OneOrNone
    <2>4. d \in Seq(DraftRules) /\ Members(d) = Provided(execution, Injection)
      BY <1>3, <1>4, OneOrNone
    <2>5. e \in Seq(DraftRules) /\ Members(e) = Provided(path, Climb)
      BY <1>3, <1>4, OneOrNone
    <2> QED
      BY <2>1, <2>2, <2>3, <2>4, <2>5
  <1> HIDE DEF a, b, c, d, e, execution, path, Limit, Enum, Pattern, Injection, Climb
  <1>7. a \o b \in Seq(DraftRules) /\ Members(a \o b) = Members(a) \cup Members(b)
    BY <1>6, Concatenated
  <1>8. /\ (a \o b) \o c \in Seq(DraftRules)
        /\ Members((a \o b) \o c) = Members(a \o b) \cup Members(c)
    BY <1>6, <1>7, Concatenated
  <1>9. /\ ((a \o b) \o c) \o d \in Seq(DraftRules)
        /\ Members(((a \o b) \o c) \o d) = Members((a \o b) \o c) \cup Members(d)
    BY <1>6, <1>8, Concatenated
  <1>10. /\ (((a \o b) \o c) \o d) \o e \in Seq(DraftRules)
         /\ Members((((a \o b) \o c) \o d) \o e) = Members(((a \o b) \o c) \o d) \cup Members(e)
    BY <1>6, <1>9, Concatenated
  <1> QED
    BY <1>1, <1>5, <1>6, <1>7, <1>8, <1>9, <1>10

-----------------------------------------------------------------------------
(***************************************************************************)
(* The invariant: policy holds the rules of the tools that are done, and   *)
(* rules those of the parameters of the present tool that were visited,    *)
(* neither more nor less.                                                  *)
(***************************************************************************)
DrawnBy(tools, i, param) == Drawn(tools[i].name, param, tools[i].properties[param])

DrawnByAll(tools, i, params) == UNION {DrawnBy(tools, i, param) : param \in params}

ToolRules(tools, i) ==
  IF DrawnByAll(tools, i, Parameters(tools, i)) = {} THEN {Fallback(tools[i].name)}
  ELSE DrawnByAll(tools, i, Parameters(tools, i))

Typed ==
  /\ stage \in {"reading", "drafting", "written", "failed"}
  /\ manifest \in Manifests \cup {<<>>}
  /\ tool \in 1 .. Len(manifest) + 1
  /\ left \subseteq Parameters(manifest, tool)
  /\ rules \in Seq(DraftRules) /\ policy \in Seq(DraftRules)

Progress ==
  /\ stage = "reading" => tool = 1 /\ manifest = <<>>
  /\ stage \in {"reading", "drafting"} => file = Previous
  /\ stage = "written" => file = policy /\ tool = Len(manifest) + 1
  /\ file \in {Previous, Torn, policy}

Exact ==
  /\ Members(rules) = DrawnByAll(manifest, tool, Parameters(manifest, tool) \ left)
  /\ Members(policy) = UNION {ToolRules(manifest, i) : i \in 1 .. tool - 1}

DraftInv == Typed /\ Progress /\ Exact

LEMMA ManifestTyped ==
  ASSUME NEW tools \in Manifests \cup {<<>>}
  PROVE  /\ Len(tools) \in Nat
         /\ \A i \in 1 .. Len(tools) :
              /\ tools[i].name \in Names
              /\ \A param \in Parameters(tools, i) :
                   param \in Names /\ tools[i].properties[param] \in Properties
  <1>1. CASE tools = <<>>
    BY <1>1
  <1>2. CASE tools \in Manifests
    <2>1. PICK S : tools \in Seq(S)
      BY <1>2, DiscoveryAssumption
    <2>2. Len(tools) \in Nat
      BY <2>1
    <2> QED
      BY <1>2, <2>2, DiscoveryAssumption DEF Parameters
  <1> QED
    BY <1>1, <1>2

LEMMA NoMembers ==
  ASSUME NEW seq \in Seq(DraftRules)
  PROVE  Members(seq) = {} <=> seq = <<>>
  <1>1. CASE seq = <<>>
    BY <1>1 DEF Members
  <1>2. CASE seq # <<>>
    <2>1. Len(seq) \in Nat \ {0}
      BY <1>2
    <2>2. seq[1] \in Members(seq)
      BY <2>1 DEF Members
    <2> QED
      BY <1>2, <2>2
  <1> QED
    BY <1>1, <1>2

LEMMA InitDraft == Init => DraftInv
  <1> SUFFICES ASSUME Init PROVE DraftInv
    OBVIOUS
  <1>1. <<>> \in Seq(DraftRules) /\ Len(manifest) = 0 /\ Parameters(manifest, tool) = {}
    BY DEF Init, Parameters
  <1>2. Typed /\ Progress
    BY <1>1 DEF Init, Typed, Progress
  <1>3. Members(rules) = {} /\ Members(policy) = {}
    BY <1>1, NoMembers DEF Init
  <1> QED
    BY <1>1, <1>2, <1>3 DEF Init, Exact, DrawnByAll, DraftInv

LEMMA ReadDraft ==
  ASSUME DraftInv, NEW tools \in Manifests, Read(tools)
  PROVE  DraftInv'
  <1>1. /\ tool = 1 /\ tool' = 1 /\ manifest' = tools /\ left' = Parameters(tools, 1)
        /\ rules' = rules /\ policy' = policy /\ file' = file /\ file = Previous
        /\ stage' \in {"drafting", "failed"}
    BY DEF Read, DraftInv, Progress
  <1>2. Members(rules) = {} /\ Members(policy) = {}
    <2>1. Parameters(manifest, tool) = {} /\ 1 .. tool - 1 = {}
      BY <1>1 DEF DraftInv, Progress, Read, Parameters
    <2> QED
      BY <2>1 DEF DraftInv, Exact, DrawnByAll
  <1>3. Typed'
    BY <1>1, ManifestTyped DEF DraftInv, Typed
  <1>4. Progress'
    BY <1>1 DEF Progress
  <1>5. Exact'
    <2>1. Parameters(manifest', tool') \ left' = {} /\ 1 .. tool' - 1 = {}
      BY <1>1
    <2> QED
      BY <1>1, <1>2, <2>1 DEF Exact, DrawnByAll
  <1> QED
    BY <1>3, <1>4, <1>5 DEF DraftInv

LEMMA VisitDraft ==
  ASSUME DraftInv, NEW param \in left, Visit(param)
  PROVE  DraftInv'
  <1> DEFINE new == Draft(manifest[tool].name, param, manifest[tool].properties[param])
  <1>1. /\ tool \in 1 .. Len(manifest) /\ param \in Parameters(manifest, tool)
        /\ manifest \in Manifests \cup {<<>>}
    BY DEF DraftInv, Typed, Visit
  <1>2. /\ manifest[tool].name \in Names /\ param \in Names
        /\ manifest[tool].properties[param] \in Properties
    BY <1>1, ManifestTyped
  <1>3. new \in Seq(DraftRules) /\ Members(new) = DrawnBy(manifest, tool, param)
    BY <1>2, DraftDraws DEF DrawnBy
  <1>4. /\ rules' = rules \o new /\ left' = left \ {param}
        /\ stage' = stage /\ manifest' = manifest /\ tool' = tool /\ policy' = policy
        /\ file' = file
    BY DEF Visit
  <1> HIDE DEF new
  <1>5. rules' \in Seq(DraftRules) /\ Members(rules') = Members(rules) \cup Members(new)
    BY <1>3, <1>4, Concatenated DEF DraftInv, Typed
  <1>6. Typed' /\ Progress'
    BY <1>4, <1>5 DEF DraftInv, Typed, Progress
  <1>7. Exact'
    <2>1. Parameters(manifest, tool) \ left' = (Parameters(manifest, tool) \ left) \cup {param}
      BY <1>1, <1>4
    <2>2. DrawnByAll(manifest, tool, Parameters(manifest, tool) \ left') =
            DrawnByAll(manifest, tool, Parameters(manifest, tool) \ left)
              \cup DrawnBy(manifest, tool, param)
      BY <2>1 DEF DrawnByAll
    <2> QED
      BY <1>3, <1>4, <1>5, <2>2 DEF DraftInv, Exact
  <1> QED
    BY <1>6, <1>7 DEF DraftInv

LEMMA NextToolDraft ==
  ASSUME DraftInv, NextTool
  PROVE  DraftInv'
  <1> DEFINE new == IF rules = <<>> THEN <<Fallback(manifest[tool].name)>> ELSE rules
  <1>1. /\ tool \in 1 .. Len(manifest) /\ left = {} /\ stage = "drafting"
        /\ manifest \in Manifests \cup {<<>>} /\ Len(manifest) \in Nat
        /\ rules \in Seq(DraftRules) /\ policy \in Seq(DraftRules)
    BY ManifestTyped DEF DraftInv, Typed, NextTool
  <1>2. Fallback(manifest[tool].name) \in DraftRules
    <2>1. manifest[tool].name \in Names
      BY <1>1, ManifestTyped
    <2> QED
      BY <2>1, IDTyped DEF Kinds
  <1>3. Members(rules) = DrawnByAll(manifest, tool, Parameters(manifest, tool))
    BY <1>1 DEF DraftInv, Exact
  <1>4. new \in Seq(DraftRules) /\ Members(new) = ToolRules(manifest, tool)
    <2>1. Members(<<Fallback(manifest[tool].name)>>) = {Fallback(manifest[tool].name)}
      BY DEF Members
    <2>2. <<Fallback(manifest[tool].name)>> \in Seq(DraftRules)
      BY <1>2
    <2> QED
      BY <1>1, <1>3, <2>1, <2>2, NoMembers DEF ToolRules
  <1>5. /\ policy' = policy \o new /\ rules' = <<>> /\ tool' = tool + 1
        /\ left' = Parameters(manifest, tool + 1)
        /\ stage' = stage /\ manifest' = manifest /\ file' = file
    BY DEF NextTool
  <1> HIDE DEF new
  <1>6. policy' \in Seq(DraftRules) /\ Members(policy') = Members(policy) \cup Members(new)
    BY <1>1, <1>4, <1>5, Concatenated
  <1>7. rules' \in Seq(DraftRules) /\ Members(rules') = {}
    <2>1. <<>> \in Seq(DraftRules)
      OBVIOUS
    <2> QED
      BY <1>5, <2>1, NoMembers
  <1>8. Typed'
    BY <1>1, <1>5, <1>6, <1>7 DEF Typed, DraftInv
  <1>9. Progress'
    BY <1>1, <1>5 DEF DraftInv, Progress
  <1>10. Exact'
    <2>1. 1 .. tool' - 1 = (1 .. tool - 1) \cup {tool}
      BY <1>1, <1>5
    <2>2. UNION {ToolRules(manifest, i) : i \in 1 .. tool' - 1} =
            (UNION {ToolRules(manifest, i) : i \in 1 .. tool - 1}) \cup ToolRules(manifest, tool)
      BY <2>1
    <2>3. Parameters(manifest, tool') \ left' = {}
      BY <1>5
    <2>4. DrawnByAll(manifest, tool', Parameters(manifest, tool') \ left') = {}
      BY <2>3 DEF DrawnByAll
    <2>5. Members(policy) = UNION {ToolRules(manifest, i) : i \in 1 .. tool - 1}
      BY DEF DraftInv, Exact
    <2>6. Members(policy') = UNION {ToolRules(manifest, i) : i \in 1 .. tool' - 1}
      BY <1>4, <1>6, <2>2, <2>5
    <2> QED
      BY <1>5, <1>7, <2>4, <2>6 DEF Exact
  <1> QED
    BY <1>8, <1>9, <1>10 DEF DraftInv

LEMMA WriteDraft ==
  ASSUME DraftInv, NEW outcome \in WriteOutcomes, Write(outcome)
  PROVE  DraftInv'
  <1>1. /\ manifest' = manifest /\ tool' = tool /\ left' = left
        /\ rules' = rules /\ policy' = policy /\ stage' \in {"written", "failed"}
        /\ file = Previous /\ file' \in {policy, Torn, file}
        /\ stage' = "written" => file' = policy
    BY DiscoveryAssumption DEF Write, DraftInv, Progress
  <1>2. tool = Len(manifest) + 1
    BY ManifestTyped DEF Write, DraftInv, Typed
  <1>3. Typed' /\ Exact'
    BY <1>1 DEF DraftInv, Typed, Exact
  <1>4. Progress'
    BY <1>1, <1>2 DEF Progress
  <1> QED
    BY <1>3, <1>4 DEF DraftInv

LEMMA NextDraft == DraftInv /\ [Next]_vars => DraftInv'
  <1> SUFFICES ASSUME DraftInv, [Next]_vars PROVE DraftInv'
    OBVIOUS
  <1>1. CASE UNCHANGED vars
    BY <1>1 DEF vars, DraftInv, Typed, Progress, Exact
  <1> QED
    BY <1>1, ReadDraft, VisitDraft, NextToolDraft, WriteDraft DEF Next

LEMMA DraftInvariant == Spec => []DraftInv
  BY InitDraft, NextDraft, PTL DEF Spec

\* The file that discover reports as written.
LEMMA WrittenDraft ==
  ASSUME DraftInv, stage = "written"
  PROVE  /\ file \in Seq(DraftRules)
         /\ Members(file) = UNION {ToolRules(manifest, i) : i \in Tools}
         /\ manifest \in Manifests \cup {<<>>}
  <1>1. file = policy /\ tool = Len(manifest) + 1 /\ Len(manifest) \in Nat
    BY ManifestTyped DEF DraftInv, Progress, Typed
  <1> QED
    BY <1>1 DEF DraftInv, Typed, Exact, Tools

-----------------------------------------------------------------------------
(***************************************************************************)
(* What one parameter's rules make of an argument.                         *)
(***************************************************************************)
\* Something is drawn exactly where a kind of guard is due.
LEMMA DrawnGuards ==
  ASSUME NEW toolName, NEW param, NEW prop, NEW rule \in Drawn(toolName, param, prop)
  PROVE  /\ Draws(prop) # {} /\ rule.toolPattern = toolName /\ rule.valuePath = param
         /\ \/ "numeric_limit" \in Draws(prop) /\ rule = LimitRule(toolName, param, prop)
            \/ /\ "enum_guard" \in Draws(prop)
               /\ rule = GuardRule(toolName, param, "enum_guard", "enum", prop.enum)
            \/ /\ "pattern_guard" \in Draws(prop)
               /\ rule = GuardRule(toolName, param, "pattern_guard", "pattern", prop.pattern)
            \/ /\ "injection_guard" \in Draws(prop)
               /\ rule = GuardRule(toolName, param, "injection_guard", "injection", Unset)
            \/ /\ "path_traversal_guard" \in Draws(prop)
               /\ rule = GuardRule(toolName, param, "path_traversal_guard", "climbing", Unset)
  <1>1. /\ Numeric(prop) => "numeric_limit" \in Draws(prop)
        /\ prop.enum # {} => "enum_guard" \in Draws(prop)
        /\ prop.pattern # Unset => "pattern_guard" \in Draws(prop)
        /\ EnableInjectionGuard /\ IsExecutionVector(prop) => "injection_guard" \in Draws(prop)
        /\ EnablePathGuard /\ IsPathVector(prop) => "path_traversal_guard" \in Draws(prop)
    BY DEF Draws
  <1>2. \A kind, test, operand :
          /\ GuardRule(toolName, param, kind, test, operand).toolPattern = toolName
          /\ GuardRule(toolName, param, kind, test, operand).valuePath = param
    BY DEF GuardRule
  <1>3. /\ LimitRule(toolName, param, prop).toolPattern = toolName
        /\ LimitRule(toolName, param, prop).valuePath = param
    BY DEF LimitRule
  <1> QED
    BY <1>1, <1>2, <1>3 DEF Drawn, Provided

LEMMA GuardsDrawn ==
  ASSUME NEW toolName, NEW param, NEW prop, Draws(prop) # {}
  PROVE  Drawn(toolName, param, prop) # {}
  <1>1. \/ Numeric(prop) \/ prop.enum # {} \/ prop.pattern # Unset
        \/ EnableInjectionGuard /\ IsExecutionVector(prop)
        \/ EnablePathGuard /\ IsPathVector(prop)
    BY DEF Draws
  <1> QED
    BY <1>1 DEF Drawn, Provided

\* An argument that breaks its schema is refused by a rule its parameter draws,
\* unless the literal of an enum or of a pattern reads as more than it says.
LEMMA BreachRefused ==
  ASSUME NEW toolName \in Names, NEW param \in Names, NEW prop \in Properties,
         NEW args, param \in DOMAIN args, args[param] \in Values,
         BreaksPlainly(prop, args[param])
  PROVE  \E rule \in Drawn(toolName, param, prop) : ~Admits(rule, args)
  <1> DEFINE arg == args[param]
             Limit == LimitRule(toolName, param, prop)
             Enum == GuardRule(toolName, param, "enum_guard", "enum", prop.enum)
             Pattern == GuardRule(toolName, param, "pattern_guard", "pattern", prop.pattern)
  <1>1. /\ Numeric(prop) => Limit \in Drawn(toolName, param, prop)
        /\ prop.enum # {} => Enum \in Drawn(toolName, param, prop)
        /\ prop.pattern # Unset => Pattern \in Drawn(toolName, param, prop)
    BY DEF Drawn, Provided
  <1>2. /\ Limit.valuePath = param /\ Enum.valuePath = param /\ Pattern.valuePath = param
        /\ Limit.maxPerCall = PerCall(prop) /\ Limit.condition = MinimumCondition(prop)
        /\ Enum.condition = [test |-> "enum", operand |-> prop.enum]
        /\ Pattern.condition = [test |-> "pattern", operand |-> prop.pattern]
    BY DEF LimitRule, GuardRule
  <1>3. /\ arg.type = "number" => arg.value \in Int
        /\ prop.minimum \in Int \cup {Unset} /\ prop.maximum \in Int \cup {Unset}
        /\ Unset \notin Int
    BY DiscoveryAssumption DEF Properties
  <1> HIDE DEF arg, Limit, Enum, Pattern
  <1>4. CASE /\ Numeric(prop) /\ arg.type = "number"
             /\ prop.maximum # Unset /\ arg.value > prop.maximum
    <2>1. Limit.maxPerCall = prop.maximum
      BY <1>2, <1>4 DEF PerCall
    <2>2. ~(Limit.maxPerCall # Unset /\ arg.type = "number" => arg.value <= Limit.maxPerCall)
      BY <1>3, <1>4, <2>1
    <2>3. ~Admits(Limit, args)
      BY <1>2, <2>2 DEF Admits, arg
    <2> QED
      BY <1>1, <1>4, <2>3
  <1>5. CASE /\ Numeric(prop) /\ arg.type = "number"
             /\ prop.minimum # Unset /\ arg.value + Precision \div 2 < prop.minimum
    <2>1. Limit.condition = [test |-> "minimum", operand |-> Printed(prop.minimum)]
      BY <1>2, <1>5 DEF MinimumCondition
    <2>2. /\ Printed(prop.minimum) \in Int
          /\ prop.minimum <= Printed(prop.minimum) + Precision \div 2
      BY <1>3, <1>5, PrintedNear
    <2>3. Precision \div 2 \in Int
      BY HalfUnit
    <2>4. ~(arg.value >= Printed(prop.minimum))
      BY <1>3, <1>5, <2>2, <2>3
    <2>5. ~Passes(Limit.condition, arg)
      BY <2>1, <2>4 DEF Passes
    <2>6. Limit.condition # NoCondition
      BY <2>1 DEF NoCondition
    <2>7. ~Admits(Limit, args)
      BY <1>2, <2>5, <2>6 DEF Admits, arg
    <2> QED
      BY <1>1, <1>5, <2>7
  <1>6. CASE OffEnum(prop, arg) /\ ReadsNoWider(EnumReads[prop.enum], prop.enum)
    <2> DEFINE reading == EnumReads[prop.enum]
    <2>1. prop.enum # {} /\ arg.type = "string" /\ arg.value \notin prop.enum
      BY <1>6 DEF OffEnum
    <2>2. Reading(Enum.condition) = reading /\ Enum.condition.test = "enum"
      BY <1>2 DEF Reading
    <2>3. reading = Garbled \/ arg \notin reading
      BY <1>6, <2>1 DEF ReadsNoWider, Strings
    <2> HIDE DEF reading
    <2>4. ~(Compiles(Enum) /\ Passes(Enum.condition, arg))
      BY <2>2, <2>3 DEF Compiles, Passes
    <2>5. ~Admits(Enum, args)
      BY <1>2, <2>2, <2>4 DEF Admits, arg, NoCondition
    <2> QED
      BY <1>1, <2>1, <2>5
  <1>7. CASE OffPattern(prop, arg) /\ ReadsNoWider(PatternReads[prop.pattern], Accepts[prop.pattern])
    <2> DEFINE reading == PatternReads[prop.pattern]
    <2>1. prop.pattern # Unset /\ arg.type = "string" /\ arg.value \notin Accepts[prop.pattern]
      BY <1>7 DEF OffPattern
    <2>2. Reading(Pattern.condition) = reading /\ Pattern.condition.test = "pattern"
      BY <1>2 DEF Reading
    <2>3. reading = Garbled \/ arg \notin reading
      BY <1>7, <2>1 DEF ReadsNoWider, Strings
    <2> HIDE DEF reading
    <2>4. ~(Compiles(Pattern) /\ Passes(Pattern.condition, arg))
      BY <2>2, <2>3 DEF Compiles, Passes
    <2>5. ~Admits(Pattern, args)
      BY <1>2, <2>2, <2>4 DEF Admits, arg, NoCondition
    <2> QED
      BY <1>1, <2>1, <2>5
  <1> QED
    BY <1>4, <1>5, <1>6, <1>7 DEF BreaksPlainly, OutOfBounds, arg

\* A rule of a parameter whose guards are all content with the argument admits it.
LEMMA ContentAdmitted ==
  ASSUME NEW toolName \in Names, NEW param \in Names, NEW prop \in Properties,
         NEW args, param \in DOMAIN args, args[param] \in Values,
         \/ Draws(prop) = {"numeric_limit"} /\ prop.minimum = Unset
         \/ /\ \A k \in DOMAIN param : param[k] \in Letters
            /\ prop.enum # {} => ReadsNoNarrower(EnumReads[prop.enum], prop.enum)
            /\ prop.pattern # Unset =>
                 ReadsNoNarrower(PatternReads[prop.pattern], Accepts[prop.pattern]),
         Contented(prop, args[param]),
         NEW rule \in Drawn(toolName, param, prop)
  PROVE  Admits(rule, args)
  <1> DEFINE arg == args[param]
  <1>0. arg \in Values
    OBVIOUS
  <1>1. /\ arg.type = "number" => arg.value \in Int
        /\ prop.minimum \in Int \cup {Unset} /\ prop.maximum \in Int \cup {Unset}
        /\ Unset \notin Int /\ DefaultMaxPerCall \in Int /\ Precision \div 2 \in Int
    BY HalfUnit, DiscoveryAssumption DEF Properties
  <1>2. rule.valuePath = param
    BY DrawnGuards
  <1>3. Contented(prop, arg)
    OBVIOUS
  <1> HIDE DEF arg
  <1>4. "numeric_limit" \in Draws(prop) <=> Numeric(prop)
    BY DEF Draws
  <1>5. CASE Numeric(prop)
    <2>1. Draws(prop) = {"numeric_limit"} /\ arg.type = "number"
      BY <1>3, <1>5 DEF Contented
    <2>2. rule = LimitRule(toolName, param, prop)
      BY <2>1, DrawnGuards
    <2>3. /\ rule.maxPerCall = PerCall(prop) /\ rule.condition = MinimumCondition(prop)
      BY <2>2 DEF LimitRule
    <2>4. arg.value <= rule.maxPerCall
      <3>1. CASE prop.maximum = Unset
        BY <1>3, <1>5, <2>3, <3>1 DEF Contented, PerCall
      <3>2. CASE prop.maximum # Unset
        <4>1. ~(arg.value > prop.maximum)
          BY <1>3, <1>5, <2>1, <3>2 DEF Contented, Breaks, OutOfBounds
        <4> QED
          BY <1>1, <2>1, <2>3, <3>2, <4>1 DEF PerCall
      <3> QED
        BY <3>1, <3>2
    <2>5. rule.condition # NoCondition => Compiles(rule) /\ Passes(rule.condition, arg)
      <3> SUFFICES ASSUME rule.condition # NoCondition
                   PROVE  Compiles(rule) /\ Passes(rule.condition, arg)
        OBVIOUS
      <3>1. /\ prop.minimum # Unset
            /\ rule.condition = [test |-> "minimum", operand |-> Printed(prop.minimum)]
        BY <2>3 DEF MinimumCondition
      <3>2. Compiles(rule)
        BY <1>2, <3>1 DEF Compiles
      <3>3. arg.value >= prop.minimum + Precision \div 2
        BY <1>3, <1>5, <3>1 DEF Contented
      <3>4. Printed(prop.minimum) \in Int /\ Printed(prop.minimum) <= prop.minimum + Precision \div 2
        BY <1>1, <3>1, PrintedNear
      <3>5. arg.value >= Printed(prop.minimum)
        BY <1>1, <2>1, <3>1, <3>3, <3>4
      <3> QED
        BY <2>1, <3>1, <3>2, <3>5 DEF Passes
    <2> QED
      BY <1>2, <2>1, <2>4, <2>5 DEF Admits, arg
  <1>6. CASE ~Numeric(prop)
    <2>1. /\ \A k \in DOMAIN param : param[k] \in Letters
          /\ prop.enum # {} => ReadsNoNarrower(EnumReads[prop.enum], prop.enum)
          /\ prop.pattern # Unset =>
               ReadsNoNarrower(PatternReads[prop.pattern], Accepts[prop.pattern])
      BY <1>4, <1>6
    <2>2. /\ arg.type = "string" /\ ~Breaks(prop, arg)
          /\ "injection_guard" \in Draws(prop) => arg.value \notin Destructive
          /\ "path_traversal_guard" \in Draws(prop) => arg.value \notin Climbing
      BY <1>3, <1>6 DEF Contented
    <2>3. /\ "enum_guard" \in Draws(prop) => prop.enum # {}
          /\ "pattern_guard" \in Draws(prop) => prop.pattern # Unset
      BY DEF Draws
    <2>4. PICK kind, test, operand :
            /\ rule = GuardRule(toolName, param, kind, test, operand)
            /\ \/ test = "enum" /\ operand = prop.enum /\ "enum_guard" \in Draws(prop)
               \/ test = "pattern" /\ operand = prop.pattern /\ "pattern_guard" \in Draws(prop)
               \/ test = "injection" /\ "injection_guard" \in Draws(prop)
               \/ test = "climbing" /\ "path_traversal_guard" \in Draws(prop)
      BY <1>4, <1>6, DrawnGuards
    <2>5. /\ rule.condition = [test |-> test, operand |-> operand]
          /\ rule.maxPerCall = Unset
      BY <2>4 DEF GuardRule
    <2>6. rule.condition.test = test /\ rule.condition.operand = operand
      BY <2>5
    <2>7. test \in {"enum", "pattern"} =>
            Reading(rule.condition) # Garbled /\ arg \in Reading(rule.condition)
      <3>1. CASE test = "enum" /\ operand = prop.enum /\ prop.enum # {}
        <4>1. arg \in Strings(prop.enum)
          BY <1>0, <2>2, <3>1 DEF Breaks, OffEnum, Strings
        <4>2. Reading(rule.condition) = EnumReads[prop.enum]
          BY <2>6, <3>1 DEF Reading
        <4> QED
          BY <2>1, <3>1, <4>1, <4>2 DEF ReadsNoNarrower
      <3>2. CASE test = "pattern" /\ operand = prop.pattern /\ prop.pattern # Unset
        <4>1. arg \in Strings(Accepts[prop.pattern])
          BY <1>0, <2>2, <3>2 DEF Breaks, OffPattern, Strings
        <4>2. Reading(rule.condition) = PatternReads[prop.pattern]
          BY <2>6, <3>2 DEF Reading
        <4> QED
          BY <2>1, <3>2, <4>1, <4>2 DEF ReadsNoNarrower
      <3> QED
        BY <2>3, <2>4, <3>1, <3>2
    <2>8. Compiles(rule)
      BY <1>2, <2>1, <2>6, <2>7 DEF Compiles
    <2>9. Passes(rule.condition, arg)
      <3>1. CASE test \in {"enum", "pattern"}
        BY <2>6, <2>7, <3>1 DEF Passes
      <3>2. CASE test = "injection" /\ "injection_guard" \in Draws(prop)
        BY <2>2, <2>6, <3>2 DEF Passes
      <3>3. CASE test = "climbing" /\ "path_traversal_guard" \in Draws(prop)
        BY <2>2, <2>6, <3>3 DEF Passes
      <3> QED
        BY <2>4, <3>1, <3>2, <3>3
    <2> QED
      BY <1>2, <2>2, <2>5, <2>8, <2>9 DEF Admits, arg
  <1> QED
    BY <1>5, <1>6

-----------------------------------------------------------------------------
(***************************************************************************)
(* What the drafted file makes of a call.                                  *)
(***************************************************************************)
LEMMA ArgumentsTyped ==
  ASSUME NEW i \in Tools, NEW args \in Arguments(i), NEW param \in DOMAIN args
  PROVE  param \in Parameters(manifest, i) /\ args[param] \in Values
  BY DEF Arguments

LEMMA AdmittedByMembers ==
  ASSUME NEW drafted \in Seq(DraftRules), NEW toolName, NEW args
  PROVE  Admitted(drafted, toolName, args) <=>
           \A rule \in Members(drafted) : rule.toolPattern = toolName => Admits(rule, args)
  <1>1. DOMAIN drafted = 1 .. Len(drafted)
    OBVIOUS
  <1> QED
    BY <1>1 DEF Admitted, Members

LEMMA EnforcedWhenWritten == DraftInv => PlainSchemaEnforced
  <1> SUFFICES ASSUME DraftInv, stage = "written", NEW i \in Tools, NEW args \in Arguments(i),
                      NEW param \in DOMAIN args, BreaksPlainly(Prop(i, param), args[param])
               PROVE  ~Admitted(file, manifest[i].name, args)
    BY DEF PlainSchemaEnforced
  <1> DEFINE name == manifest[i].name
             prop == manifest[i].properties[param]
  <1>1. param \in Parameters(manifest, i) /\ args[param] \in Values
    BY ArgumentsTyped
  <1>2. name \in Names /\ param \in Names /\ prop \in Properties
    BY <1>1, WrittenDraft, ManifestTyped DEF Tools
  <1>3. PICK rule \in Drawn(name, param, prop) : ~Admits(rule, args)
    BY <1>1, <1>2, BreachRefused DEF Prop
  <1>4. rule.toolPattern = name
    BY DrawnGuards
  <1>5. rule \in DrawnByAll(manifest, i, Parameters(manifest, i))
    BY <1>1 DEF DrawnByAll, DrawnBy
  <1>6. rule \in Members(file)
    <2>1. rule \in ToolRules(manifest, i)
      BY <1>5 DEF ToolRules
    <2> QED
      BY <2>1, WrittenDraft
  <1> QED
    BY <1>3, <1>4, <1>6, WrittenDraft, AdmittedByMembers

LEMMA ContentWhenWritten == DraftInv => ContentedCallsAdmitted
  <1> SUFFICES ASSUME DraftInv, stage = "written", NEW i \in Tools, NEW args \in Arguments(i),
                      \A j \in Tools : manifest[j].name = manifest[i].name =>
                        /\ Guarded(j) # {} /\ Guarded(j) \subseteq DOMAIN args
                        /\ \A param \in Guarded(j) :
                             Legible(j, param) /\ Contented(Prop(j, param), args[param])
               PROVE  Admitted(file, manifest[i].name, args)
    BY DEF ContentedCallsAdmitted
  <1>1. ASSUME NEW rule \in Members(file), rule.toolPattern = manifest[i].name
        PROVE  Admits(rule, args)
    <2>1. PICK j \in Tools : rule \in ToolRules(manifest, j)
      BY WrittenDraft
    <2>2. ASSUME NEW param \in Parameters(manifest, j), rule \in DrawnBy(manifest, j, param)
          PROVE  Admits(rule, args)
      <3> DEFINE prop == manifest[j].properties[param]
      <3>1. manifest[j].name \in Names /\ param \in Names /\ prop \in Properties
        BY WrittenDraft, ManifestTyped DEF Tools
      <3>2. /\ rule \in Drawn(manifest[j].name, param, prop)
            /\ Draws(prop) # {} /\ manifest[j].name = manifest[i].name
        BY <1>1, <2>2, DrawnGuards DEF DrawnBy
      <3>3. param \in Guarded(j)
        BY <3>2 DEF Guarded, Prop
      <3>4. /\ param \in DOMAIN args /\ Legible(j, param) /\ Contented(prop, args[param])
        BY <3>2, <3>3 DEF Prop
      <3>5. args[param] \in Values
        BY <3>4, ArgumentsTyped
      <3>6. \/ Draws(prop) = {"numeric_limit"} /\ prop.minimum = Unset
            \/ /\ \A k \in DOMAIN param : param[k] \in Letters
               /\ prop.enum # {} => ReadsNoNarrower(EnumReads[prop.enum], prop.enum)
               /\ prop.pattern # Unset =>
                    ReadsNoNarrower(PatternReads[prop.pattern], Accepts[prop.pattern])
        BY <3>4 DEF Legible, Prop
      <3> HIDE DEF prop
      <3> QED
        BY <3>1, <3>2, <3>4, <3>5, <3>6, ContentAdmitted
    <2>3. CASE rule \in DrawnByAll(manifest, j, Parameters(manifest, j))
      BY <2>2, <2>3 DEF DrawnByAll
    <2>4. CASE /\ DrawnByAll(manifest, j, Parameters(manifest, j)) = {}
               /\ rule = Fallback(manifest[j].name)
      <3>1. manifest[j].name = manifest[i].name
        BY <1>1, <2>4 DEF Fallback
      <3>2. PICK param \in Parameters(manifest, j) : Draws(Prop(j, param)) # {}
        BY <3>1 DEF Guarded
      <3>3. DrawnBy(manifest, j, param) # {}
        BY <3>2, GuardsDrawn DEF DrawnBy, Prop
      <3> QED
        BY <2>4, <3>3 DEF DrawnByAll
    <2> QED
      BY <2>1, <2>3, <2>4 DEF ToolRules
  <1> QED
    BY <1>1, WrittenDraft, AdmittedByMembers

LEMMA DrawnShape ==
  ASSUME NEW tools \in Manifests \cup {<<>>}, NEW i \in 1 .. Len(tools)
  PROVE  /\ \A param \in Parameters(tools, i) : \A rule \in DrawnBy(tools, i, param) :
              /\ RuleShape(rule)
              /\ rule.toolPattern = tools[i].name /\ rule.valuePath = param
         /\ \A rule \in ToolRules(tools, i) :
              RuleShape(rule) /\ rule.toolPattern = tools[i].name
  <1>1. tools[i].name \in Names
    BY ManifestTyped
  <1>2. ASSUME NEW rule \in DraftRules, rule.ruleID # <<>> PROVE RuleShape(rule)
    BY <1>2 DEF RuleShape, DraftRules
  <1>3. ASSUME NEW param \in Parameters(tools, i), NEW rule \in DrawnBy(tools, i, param)
        PROVE  /\ RuleShape(rule)
               /\ rule.toolPattern = tools[i].name /\ rule.valuePath = param
    <2> DEFINE name == tools[i].name
               prop == tools[i].properties[param]
    <2>1. param \in Names /\ prop \in Properties
      BY ManifestTyped
    <2>2. rule \in Drawn(name, param, prop)
      BY DEF DrawnBy
    <2>3. rule \in DraftRules
      <3>1. rule \in Members(Draft(name, param, prop)) /\ Draft(name, param, prop) \in Seq(DraftRules)
        BY <1>1, <2>1, <2>2, DraftDraws
      <3> QED
        BY <3>1 DEF Members
    <2>4. \A kind \in Kinds : RuleID(name, param, kind) # <<>>
      BY <1>1, <2>1, IDTyped
    <2>5. rule.ruleID \in {RuleID(name, param, kind) : kind \in Kinds}
      BY <2>2, DrawnGuards DEF LimitRule, GuardRule, Kinds
    <2>6. rule.toolPattern = name /\ rule.valuePath = param
      BY <2>2, DrawnGuards
    <2> QED
      BY <1>2, <2>3, <2>4, <2>5, <2>6
  <1>4. /\ RuleShape(Fallback(tools[i].name))
        /\ Fallback(tools[i].name).toolPattern = tools[i].name
    <2>1. /\ Fallback(tools[i].name) \in DraftRules
          /\ Fallback(tools[i].name).ruleID # <<>>
      BY <1>1, IDTyped DEF Kinds
    <2> QED
      BY <1>2, <2>1 DEF Fallback
  <1> QED
    BY <1>3, <1>4 DEF ToolRules, DrawnByAll

LEMMA TypedAlways == DraftInv => TypeOK
  <1> SUFFICES ASSUME DraftInv PROVE TypeOK
    OBVIOUS
  <1>1. /\ manifest \in Manifests \cup {<<>>} /\ Len(manifest) \in Nat
        /\ tool \in 1 .. Len(manifest) + 1
        /\ DOMAIN rules = 1 .. Len(rules) /\ DOMAIN policy = 1 .. Len(policy)
    BY ManifestTyped DEF DraftInv, Typed
  <1>2. ASSUME NEW i \in DOMAIN rules
        PROVE  /\ RuleShape(rules[i])
               /\ tool <= Len(manifest) /\ rules[i].toolPattern = manifest[tool].name
               /\ rules[i].valuePath \in Parameters(manifest, tool) \ left
    <2>1. rules[i] \in Members(rules)
      BY <1>1 DEF Members
    <2>2. PICK param \in Parameters(manifest, tool) \ left :
            rules[i] \in DrawnBy(manifest, tool, param)
      BY <2>1 DEF DraftInv, Exact, DrawnByAll
    <2>3. tool \in 1 .. Len(manifest)
      BY <1>1, <2>2 DEF Parameters
    <2> QED
      BY <1>1, <2>2, <2>3, DrawnShape
  <1>3. ASSUME NEW i \in DOMAIN policy
        PROVE  RuleShape(policy[i]) /\ \E j \in 1 .. tool - 1 :
                 policy[i].toolPattern = manifest[j].name
    <2>1. policy[i] \in Members(policy)
      BY <1>1 DEF Members
    <2>2. PICK j \in 1 .. tool - 1 : policy[i] \in ToolRules(manifest, j)
      BY <2>1 DEF DraftInv, Exact
    <2>3. j \in 1 .. Len(manifest)
      BY <1>1, <2>2
    <2> QED
      BY <1>1, <2>2, <2>3, DrawnShape
  <1> QED
    BY <1>1, <1>2, <1>3 DEF DraftInv, Typed, Progress, TypeOK

(***************************************************************************)
(* The state of a discovery keeps its types: a rule that waits belongs to  *)
(* the tool at hand, one in the policy to a tool that is done.             *)
(***************************************************************************)
THEOREM DiscoveryTyped == Spec => []TypeOK
  BY DraftInvariant, TypedAlways, PTL

(***************************************************************************)
(* Whatever the manifest and the order in which its parameters are         *)
(* visited, a call with an argument outside its bounds is refused, and so  *)
(* is one off its enum or pattern, unless CEL reads the pasted literal as  *)
(* more than the schema says; one that does not compile admits nothing.    *)
(***************************************************************************)
THEOREM SchemasAreEnforced == Spec => []PlainSchemaEnforced
  BY DraftInvariant, EnforcedWhenWritten, PTL

(***************************************************************************)
(* A call is admitted when every guard of its tool is content with its     *)
(* argument: no rule of another tool or parameter refuses it.              *)
(***************************************************************************)
THEOREM NoOtherRefusals == Spec => []ContentedCallsAdmitted
  BY DraftInvariant, ContentWhenWritten, PTL

-----------------------------------------------------------------------------
(***************************************************************************)
(* Where the drafted rules come from: each from a tool, a parameter and a  *)
(* kind of guard, its origin, and each origin draws one rule.              *)
(***************************************************************************)
Made(tools, origin) ==
  LET name == tools[origin[1]].name
      param == origin[2]
      kind == origin[3]
      prop == tools[origin[1]].properties[param]
  IN  CASE kind = "rate_limit" -> Fallback(name)
        [] kind = "numeric_limit" -> LimitRule(name, param, prop)
        [] kind = "enum_guard" -> GuardRule(name, param, kind, "enum", prop.enum)
        [] kind = "pattern_guard" -> GuardRule(name, param, kind, "pattern", prop.pattern)
        [] kind = "injection_guard" -> GuardRule(name, param, kind, "injection", Unset)
        [] kind = "path_traversal_guard" -> GuardRule(name, param, kind, "climbing", Unset)

OriginsAt(tools, i, param) == {<<i, param, kind>> : kind \in Draws(tools[i].properties[param])}

OriginsOf(tools, i, params) == UNION {OriginsAt(tools, i, param) : param \in params}

ToolOrigins(tools, i) ==
  IF OriginsOf(tools, i, Parameters(tools, i)) = {} THEN {<<i, Whole, "rate_limit">>}
  ELSE OriginsOf(tools, i, Parameters(tools, i))

\* org tells the origin of each position.
TracedBy(org, seq, tools, origins) ==
  /\ org \in [1 .. Len(seq) -> origins]
  /\ \A k, l \in 1 .. Len(seq) : org[k] = org[l] => k = l
  /\ \A origin \in origins : \E k \in 1 .. Len(seq) : org[k] = origin
  /\ \A k \in 1 .. Len(seq) : seq[k] = Made(tools, org[k])

Traced(seq, tools, origins) == \E org : TracedBy(org, seq, tools, origins)

LEMMA TracedNone ==
  ASSUME NEW tools
  PROVE  Traced(<<>>, tools, {})
  <1> DEFINE org == [k \in 1 .. 0 |-> <<>>]
  <1>1. Len(<<>>) = 0 /\ 1 .. 0 = {}
    OBVIOUS
  <1>2. org \in [1 .. 0 -> {}]
    BY <1>1
  <1> HIDE DEF org
  <1>3. TracedBy(org, <<>>, tools, {})
    BY <1>1, <1>2 DEF TracedBy
  <1> QED
    BY <1>3 DEF Traced

LEMMA TracedOne ==
  ASSUME NEW tools, NEW origin, NEW rule, rule = Made(tools, origin)
  PROVE  Traced(<<rule>>, tools, {origin})
  <1> DEFINE org == [k \in 1 .. 1 |-> origin]
             seq == <<rule>>
  <1>1. Len(seq) = 1 /\ seq[1] = rule /\ 1 .. 1 = {1}
    OBVIOUS
  <1>2. org \in [1 .. 1 -> {origin}] /\ org[1] = origin
    BY <1>1
  <1> HIDE DEF org, seq
  <1>3. TracedBy(org, seq, tools, {origin})
    BY <1>1, <1>2 DEF TracedBy
  <1> QED
    BY <1>3 DEF Traced, seq

LEMMA TracedBoth ==
  ASSUME NEW S, NEW a \in Seq(S), NEW b \in Seq(S), NEW tools,
         NEW A, NEW B, A \cap B = {}, Traced(a, tools, A), Traced(b, tools, B)
  PROVE  Traced(a \o b, tools, A \cup B)
  <1>1. PICK f : TracedBy(f, a, tools, A)
    BY DEF Traced
  <1>2. PICK g : TracedBy(g, b, tools, B)
    BY DEF Traced
  <1> DEFINE m == Len(a)
             n == Len(b)
             both == a \o b
             org == [k \in 1 .. m + n |-> IF k <= m THEN f[k] ELSE g[k - m]]
  <1>3. /\ m \in Nat /\ n \in Nat /\ Len(both) = m + n
        /\ \A k \in 1 .. m : both[k] = a[k]
        /\ \A k \in 1 .. m + n : k > m => both[k] = b[k - m]
    OBVIOUS
  <1>4. /\ \A k \in 1 .. m : f[k] \in A /\ a[k] = Made(tools, f[k])
        /\ \A k, l \in 1 .. m : f[k] = f[l] => k = l
        /\ \A origin \in A : \E k \in 1 .. m : f[k] = origin
    BY <1>1 DEF TracedBy
  <1>5. /\ \A k \in 1 .. n : g[k] \in B /\ b[k] = Made(tools, g[k])
        /\ \A k, l \in 1 .. n : g[k] = g[l] => k = l
        /\ \A origin \in B : \E k \in 1 .. n : g[k] = origin
    BY <1>2 DEF TracedBy
  <1> HIDE DEF m, n, both
  <1>6. /\ \A k \in 1 .. m : k \in 1 .. m + n /\ org[k] = f[k]
        /\ \A k \in 1 .. m + n : k > m => k - m \in 1 .. n /\ org[k] = g[k - m]
        /\ \A k \in 1 .. n : k + m \in 1 .. m + n /\ org[k + m] = g[k]
        /\ \A k \in 1 .. m + n : k \in 1 .. m \/ k > m
        /\ DOMAIN org = 1 .. m + n
        /\ org = [k \in 1 .. m + n |-> org[k]]
    <2>1. \A k \in 1 .. n : k + m \in 1 .. m + n /\ ~(k + m <= m) /\ k + m - m = k
      BY <1>3
    <2>2. \A k \in 1 .. m + n : k > m => k - m \in 1 .. n /\ ~(k <= m)
      BY <1>3
    <2>3. \A k \in 1 .. m : k \in 1 .. m + n /\ k <= m
      BY <1>3
    <2>4. ASSUME NEW k \in 1 .. n PROVE org[k + m] = g[k]
      <3>1. PICK j : j = k + m
        OBVIOUS
      <3>2. j \in 1 .. m + n /\ ~(j <= m) /\ j - m = k
        BY <1>3, <2>1, <3>1
      <3>3. org[j] = g[j - m]
        BY <3>2
      <3> QED
        BY <3>1, <3>2, <3>3
    <2> QED
      BY <1>3, <2>1, <2>2, <2>3, <2>4
  <1> HIDE DEF org
  <1>7. \A k \in 1 .. m + n : org[k] \in A \cup B /\ both[k] = Made(tools, org[k])
    <2> SUFFICES ASSUME NEW k \in 1 .. m + n
                 PROVE  org[k] \in A \cup B /\ both[k] = Made(tools, org[k])
      OBVIOUS
    <2>1. CASE k \in 1 .. m
      BY <2>1, <1>3, <1>4, <1>6
    <2>2. CASE k > m
      <3>1. PICK j \in 1 .. n : j = k - m
        BY <1>6, <2>2
      <3>2. org[k] = g[j] /\ both[k] = b[j]
        BY <1>3, <1>6, <2>2, <3>1
      <3> QED
        BY <1>5, <3>2
    <2> QED
      BY <2>1, <2>2, <1>6
  <1>8. ASSUME NEW k \in 1 .. m + n, NEW l \in 1 .. m + n, org[k] = org[l]
        PROVE  k = l
    <2>1. CASE k \in 1 .. m /\ l \in 1 .. m
      BY <1>4, <1>6, <1>8, <2>1
    <2>2. CASE k > m /\ l > m
      <3>1. k - m = l - m
        BY <1>5, <1>6, <1>8, <2>2
      <3> QED
        BY <1>3, <3>1
    <2>3. CASE k \in 1 .. m /\ l > m
      <3>1. org[k] \in A /\ org[l] \in B
        BY <1>4, <1>5, <1>6, <2>3
      <3> QED
        BY <1>8, <3>1
    <2>4. CASE k > m /\ l \in 1 .. m
      <3>1. org[k] \in B /\ org[l] \in A
        BY <1>4, <1>5, <1>6, <2>4
      <3> QED
        BY <1>8, <3>1
    <2> QED
      BY <1>6, <2>1, <2>2, <2>3, <2>4
  <1>9. ASSUME NEW origin \in A \cup B
        PROVE  \E k \in 1 .. m + n : org[k] = origin
    <2>1. CASE origin \in A
      <3>1. PICK k \in 1 .. m : f[k] = origin
        BY <1>4, <2>1
      <3> QED
        BY <1>6, <3>1
    <2>2. CASE origin \in B
      <3>1. PICK k \in 1 .. n : g[k] = origin
        BY <1>5, <2>2
      <3> QED
        BY <1>6, <3>1
    <2> QED
      BY <2>1, <2>2
  <1>10. TracedBy(org, both, tools, A \cup B)
    BY <1>3, <1>6, <1>7, <1>8, <1>9 DEF TracedBy
  <1> QED
    BY <1>10 DEF Traced, both

\* Nothing was drawn exactly when there is no origin.
LEMMA TracedEmpty ==
  ASSUME NEW S, NEW seq \in Seq(S), NEW tools, NEW origins, Traced(seq, tools, origins)
  PROVE  seq = <<>> <=> origins = {}
  <1>1. PICK org : TracedBy(org, seq, tools, origins)
    BY DEF Traced
  <1>2. CASE seq = <<>>
    BY <1>1, <1>2 DEF TracedBy
  <1>3. CASE seq # <<>>
    <2>1. 1 \in 1 .. Len(seq)
      BY <1>3
    <2>2. org[1] \in origins
      BY <1>1, <2>1 DEF TracedBy
    <2> QED
      BY <1>3, <2>2
  <1> QED
    BY <1>2, <1>3

\* A guard that is due, or not, is traced to its kind.
LEMMA TracedGuard ==
  ASSUME NEW test \in BOOLEAN, NEW tools, NEW origin, NEW rule, rule = Made(tools, origin)
  PROVE  Traced(IF test THEN <<rule>> ELSE <<>>, tools, IF test THEN {origin} ELSE {})
  <1>1. CASE test
    BY <1>1, TracedOne
  <1>2. CASE ~test
    BY <1>2, TracedNone
  <1> QED
    BY <1>1, <1>2

LEMMA MadeAs ==
  ASSUME NEW tools, NEW i, NEW param
  PROVE  LET name == tools[i].name
             prop == tools[i].properties[param]
         IN  /\ Made(tools, <<i, param, "rate_limit">>) = Fallback(name)
             /\ Made(tools, <<i, param, "numeric_limit">>) = LimitRule(name, param, prop)
             /\ Made(tools, <<i, param, "enum_guard">>) =
                  GuardRule(name, param, "enum_guard", "enum", prop.enum)
             /\ Made(tools, <<i, param, "pattern_guard">>) =
                  GuardRule(name, param, "pattern_guard", "pattern", prop.pattern)
             /\ Made(tools, <<i, param, "injection_guard">>) =
                  GuardRule(name, param, "injection_guard", "injection", Unset)
             /\ Made(tools, <<i, param, "path_traversal_guard">>) =
                  GuardRule(name, param, "path_traversal_guard", "climbing", Unset)
  BY DEF Made

LEMMA DraftTraced ==
  ASSUME NEW tools \in Manifests \cup {<<>>}, NEW i \in 1 .. Len(tools),
         NEW param \in Parameters(tools, i)
  PROVE  Traced(Draft(tools[i].name, param, tools[i].properties[param]), tools,
                OriginsAt(tools, i, param))
  <1> DEFINE name == tools[i].name
             prop == tools[i].properties[param]
             at(kind) == <<i, param, kind>>
             execution == EnableInjectionGuard /\ IsExecutionVector(prop)
             path == EnablePathGuard /\ IsPathVector(prop)
             Limit == LimitRule(name, param, prop)
             Enum == GuardRule(name, param, "enum_guard", "enum", prop.enum)
             Pattern == GuardRule(name, param, "pattern_guard", "pattern", prop.pattern)
             Injection == GuardRule(name, param, "injection_guard", "injection", Unset)
             Climb == GuardRule(name, param, "path_traversal_guard", "climbing", Unset)
             a == IF Numeric(prop) THEN <<Limit>> ELSE <<>>
             b == IF prop.enum # {} THEN <<Enum>> ELSE <<>>
             c == IF prop.pattern # Unset THEN <<Pattern>> ELSE <<>>
             d == IF execution THEN <<Injection>> ELSE <<>>
             e == IF path THEN <<Climb>> ELSE <<>>
             A == IF Numeric(prop) THEN {at("numeric_limit")} ELSE {}
             B == IF prop.enum # {} THEN {at("enum_guard")} ELSE {}
             C == IF prop.pattern # Unset THEN {at("pattern_guard")} ELSE {}
             D == IF execution THEN {at("injection_guard")} ELSE {}
             E == IF path THEN {at("path_traversal_guard")} ELSE {}
             S == {Limit, Enum, Pattern, Injection, Climb}
  <1>1. Draft(name, param, prop) = (((a \o b) \o c) \o d) \o e
    BY DEF Draft, LimitRule, GuardRule
  <1>2. /\ Numeric(prop) \in BOOLEAN /\ (prop.enum # {}) \in BOOLEAN
        /\ (prop.pattern # Unset) \in BOOLEAN /\ execution \in BOOLEAN /\ path \in BOOLEAN
    BY DEF Numeric, IsExecutionVector, IsPathVector
  <1>3. /\ Limit = Made(tools, at("numeric_limit")) /\ Enum = Made(tools, at("enum_guard"))
        /\ Pattern = Made(tools, at("pattern_guard"))
        /\ Injection = Made(tools, at("injection_guard"))
        /\ Climb = Made(tools, at("path_traversal_guard"))
    <2>0. Limit = Made(tools, at("numeric_limit"))
      BY MadeAs, Zenon
    <2>1. Enum = Made(tools, at("enum_guard"))
      BY MadeAs, Zenon
    <2>2. Pattern = Made(tools, at("pattern_guard"))
      BY MadeAs, Zenon
    <2>3. Injection = Made(tools, at("injection_guard"))
      BY MadeAs, Zenon
    <2>4. Climb = Made(tools, at("path_traversal_guard"))
      BY MadeAs, Zenon
    <2> QED
      BY <2>0, <2>1, <2>2, <2>3, <2>4
  <1>4. OriginsAt(tools, i, param) = (((A \cup B) \cup C) \cup D) \cup E
    <2>1. Draws(prop) = {kind \in {"numeric_limit", "enum_guard", "pattern_guard",
                                   "injection_guard", "path_traversal_guard"} :
                           \/ kind = "numeric_limit" /\ Numeric(prop)
                           \/ kind = "enum_guard" /\ prop.enum # {}
                           \/ kind = "pattern_guard" /\ prop.pattern # Unset
                           \/ kind = "injection_guard" /\ execution
                           \/ kind = "path_traversal_guard" /\ path}
      BY DEF Draws
    <2>2. OriginsAt(tools, i, param) = {at(kind) : kind \in Draws(prop)}
      BY DEF OriginsAt
    <2> HIDE DEF prop, at, execution, path
    <2> QED
      BY <2>1, <2>2
  <1>5. \A k, l : k # l => at(k) # at(l)
    OBVIOUS
  <1> HIDE DEF at, prop, execution, path, Limit, Enum, Pattern, Injection, Climb
  <1>6. /\ a \in Seq(S) /\ b \in Seq(S) /\ c \in Seq(S) /\ d \in Seq(S) /\ e \in Seq(S)
    <2>1. Limit \in S /\ Enum \in S /\ Pattern \in S /\ Injection \in S /\ Climb \in S
      OBVIOUS
    <2> HIDE DEF S
    <2>2. \A rule \in S : <<rule>> \in Seq(S)
      OBVIOUS
    <2>3. <<>> \in Seq(S)
      OBVIOUS
    <2> QED
      BY <2>1, <2>2, <2>3
  <1>7. /\ Traced(a, tools, A) /\ Traced(b, tools, B) /\ Traced(c, tools, C)
        /\ Traced(d, tools, D) /\ Traced(e, tools, E)
    BY <1>2, <1>3, TracedGuard
  <1>8. /\ A \cap B = {} /\ (A \cup B) \cap C = {} /\ ((A \cup B) \cup C) \cap D = {}
        /\ (((A \cup B) \cup C) \cup D) \cap E = {}
    BY <1>5
  <1> HIDE DEF a, b, c, d, e, A, B, C, D, E, S
  <1>9. /\ a \o b \in Seq(S) /\ (a \o b) \o c \in Seq(S)
        /\ ((a \o b) \o c) \o d \in Seq(S)
    <2>1. \A p, q \in Seq(S) : p \o q \in Seq(S)
      OBVIOUS
    <2> QED
      BY <1>6, <2>1
  <1>10. Traced(a \o b, tools, A \cup B)
    BY <1>6, <1>7, <1>8, TracedBoth
  <1>11. Traced((a \o b) \o c, tools, (A \cup B) \cup C)
    BY <1>6, <1>7, <1>8, <1>9, <1>10, TracedBoth
  <1>12. Traced(((a \o b) \o c) \o d, tools, ((A \cup B) \cup C) \cup D)
    BY <1>6, <1>7, <1>8, <1>9, <1>11, TracedBoth
  <1>13. Traced((((a \o b) \o c) \o d) \o e, tools, (((A \cup B) \cup C) \cup D) \cup E)
    BY <1>6, <1>7, <1>8, <1>9, <1>12, TracedBoth
  <1> QED
    BY <1>1, <1>4, <1>13 DEF name, prop

TraceInv ==
  /\ Traced(rules, manifest, OriginsOf(manifest, tool, Parameters(manifest, tool) \ left))
  /\ Traced(policy, manifest, UNION {ToolOrigins(manifest, i) : i \in 1 .. tool - 1})
  /\ stage \in {"drafting", "written"} => manifest # <<>>

\* An origin is one of its tool and its parameter.
LEMMA OriginsTell ==
  ASSUME NEW tools, NEW i, NEW origin
  PROVE  /\ \A param : origin \in OriginsAt(tools, i, param) =>
              origin[1] = i /\ origin[2] = param
                /\ origin[3] \in Draws(tools[i].properties[param])
                /\ origin = <<i, param, origin[3]>>
         /\ \A params : origin \in OriginsOf(tools, i, params) =>
              origin[2] \in params /\ origin \in OriginsAt(tools, i, origin[2])
         /\ origin \in ToolOrigins(tools, i) => origin[1] = i
  <1>1. \A param : origin \in OriginsAt(tools, i, param) =>
          origin[1] = i /\ origin[2] = param
            /\ origin[3] \in Draws(tools[i].properties[param])
            /\ origin = <<i, param, origin[3]>>
    BY DEF OriginsAt
  <1>2. \A params : origin \in OriginsOf(tools, i, params) =>
          origin[2] \in params /\ origin \in OriginsAt(tools, i, origin[2])
    BY <1>1 DEF OriginsOf
  <1> QED
    BY <1>1, <1>2 DEF ToolOrigins

LEMMA InitTrace == Init => TraceInv
  <1> SUFFICES ASSUME Init PROVE TraceInv
    OBVIOUS
  <1>1. Parameters(manifest, tool) = {} /\ 1 .. tool - 1 = {}
    BY DEF Init, Parameters
  <1>2. OriginsOf(manifest, tool, Parameters(manifest, tool) \ left) = {}
    BY <1>1 DEF OriginsOf
  <1>3. UNION {ToolOrigins(manifest, i) : i \in 1 .. tool - 1} = {}
    BY <1>1
  <1> QED
    BY <1>2, <1>3, TracedNone DEF Init, TraceInv

LEMMA ReadTrace ==
  ASSUME DraftInv, TraceInv, NEW tools \in Manifests, Read(tools)
  PROVE  TraceInv'
  <1>1. /\ tool = 1 /\ tool' = 1 /\ manifest' = tools /\ left' = Parameters(tools, 1)
        /\ rules' = rules /\ policy' = policy /\ manifest = <<>>
        /\ stage' \in {"drafting", "written"} => tools # <<>>
    BY DEF Read, DraftInv, Progress
  <1>2. Parameters(manifest, tool) \ left = {} /\ 1 .. tool - 1 = {}
    BY <1>1 DEF Parameters
  <1>3. /\ OriginsOf(manifest, tool, Parameters(manifest, tool) \ left) = {}
        /\ UNION {ToolOrigins(manifest, i) : i \in 1 .. tool - 1} = {}
    BY <1>2 DEF OriginsOf
  <1>4. rules = <<>> /\ policy = <<>>
    BY <1>3, TracedEmpty DEF TraceInv, DraftInv, Typed
  <1>5. Parameters(tools, 1) \ left' = {} /\ 1 .. 1 - 1 = {}
    BY <1>1
  <1>6. /\ OriginsOf(tools, 1, Parameters(tools, 1) \ left') = {}
        /\ UNION {ToolOrigins(tools, i) : i \in 1 .. 1 - 1} = {}
    BY <1>5 DEF OriginsOf
  <1>7. Traced(<<>>, tools, {})
    BY TracedNone
  <1> QED
    BY <1>1, <1>4, <1>6, <1>7 DEF TraceInv

LEMMA VisitTrace ==
  ASSUME DraftInv, TraceInv, NEW param \in left, Visit(param)
  PROVE  TraceInv'
  <1> DEFINE new == Draft(manifest[tool].name, param, manifest[tool].properties[param])
             before == OriginsOf(manifest, tool, Parameters(manifest, tool) \ left)
             more == OriginsAt(manifest, tool, param)
  <1>1. /\ tool \in 1 .. Len(manifest) /\ param \in Parameters(manifest, tool)
        /\ manifest \in Manifests \cup {<<>>} /\ rules \in Seq(DraftRules)
    BY DEF DraftInv, Typed, Visit
  <1>2. new \in Seq(DraftRules)
    <2>1. /\ manifest[tool].name \in Names /\ param \in Names
          /\ manifest[tool].properties[param] \in Properties
      BY <1>1, ManifestTyped
    <2> QED
      BY <2>1, DraftDraws
  <1>3. Traced(new, manifest, more)
    BY <1>1, DraftTraced
  <1>4. /\ rules' = rules \o new /\ left' = left \ {param}
        /\ stage' = stage /\ manifest' = manifest /\ tool' = tool /\ policy' = policy
    BY DEF Visit
  <1>5. before \cap more = {}
    <2> DEFINE others == Parameters(manifest, tool) \ left
    <2>1. param \notin others
      OBVIOUS
    <2> HIDE DEF others
    <2>2. \A origin : origin \in OriginsOf(manifest, tool, others) => origin[2] \in others
      BY OriginsTell
    <2>3. \A origin : origin \in OriginsAt(manifest, tool, param) => origin[2] = param
      BY DEF OriginsAt
    <2> QED
      BY <2>1, <2>2, <2>3 DEF others
  <1>6. Traced(rules, manifest, before)
    BY DEF TraceInv
  <1>7. Parameters(manifest, tool) \ left' = (Parameters(manifest, tool) \ left) \cup {param}
    BY <1>1, <1>4
  <1>8. OriginsOf(manifest, tool, Parameters(manifest, tool) \ left') = before \cup more
    BY <1>7 DEF OriginsOf
  <1> HIDE DEF new, before, more
  <1>9. Traced(rules \o new, manifest, before \cup more)
    BY <1>1, <1>2, <1>3, <1>5, <1>6, TracedBoth
  <1> QED
    BY <1>4, <1>8, <1>9 DEF TraceInv

LEMMA NextToolTrace ==
  ASSUME DraftInv, TraceInv, NextTool
  PROVE  TraceInv'
  <1> DEFINE new == IF rules = <<>> THEN <<Fallback(manifest[tool].name)>> ELSE rules
             before == UNION {ToolOrigins(manifest, i) : i \in 1 .. tool - 1}
             drawn == OriginsOf(manifest, tool, Parameters(manifest, tool))
             more == ToolOrigins(manifest, tool)
  <1>1. /\ tool \in 1 .. Len(manifest) /\ left = {} /\ Len(manifest) \in Nat
        /\ manifest \in Manifests \cup {<<>>}
        /\ rules \in Seq(DraftRules) /\ policy \in Seq(DraftRules)
    BY ManifestTyped DEF DraftInv, Typed, NextTool
  <1>2. /\ policy' = policy \o new /\ rules' = <<>> /\ tool' = tool + 1
        /\ left' = Parameters(manifest, tool + 1)
        /\ stage' = stage /\ manifest' = manifest
    BY DEF NextTool
  <1>3. Traced(rules, manifest, drawn)
    <2>1. Parameters(manifest, tool) \ left = Parameters(manifest, tool)
      BY <1>1
    <2> QED
      BY <2>1 DEF TraceInv
  <1>4. rules = <<>> <=> drawn = {}
    BY <1>1, <1>3, TracedEmpty
  <1>5. new \in Seq(DraftRules) /\ Traced(new, manifest, more)
    <2>1. CASE rules = <<>>
      <3>1. Fallback(manifest[tool].name) \in DraftRules
        <4>1. manifest[tool].name \in Names
          BY <1>1, ManifestTyped
        <4> QED
          BY <4>1, IDTyped DEF Kinds
      <3>2. new = <<Fallback(manifest[tool].name)>> /\ more = {<<tool, Whole, "rate_limit">>}
        BY <1>4, <2>1 DEF ToolOrigins
      <3>3. Made(manifest, <<tool, Whole, "rate_limit">>) = Fallback(manifest[tool].name)
        BY MadeAs
      <3>4. Traced(<<Fallback(manifest[tool].name)>>, manifest, {<<tool, Whole, "rate_limit">>})
        BY <3>3, TracedOne
      <3>5. <<Fallback(manifest[tool].name)>> \in Seq(DraftRules)
        BY <3>1
      <3> HIDE DEF new, more
      <3> QED
        BY <3>2, <3>4, <3>5
    <2>2. CASE rules # <<>>
      BY <1>1, <1>3, <1>4, <2>2 DEF ToolOrigins
    <2> QED
      BY <2>1, <2>2
  <1>6. before \cap more = {}
    <2>1. \A origin \in before : origin[1] \in 1 .. tool - 1
      BY OriginsTell
    <2>2. \A origin \in more : origin[1] = tool
      BY OriginsTell
    <2> QED
      BY <1>1, <2>1, <2>2
  <1>7. Traced(policy, manifest, before)
    BY DEF TraceInv
  <1>8. UNION {ToolOrigins(manifest, i) : i \in 1 .. tool' - 1} = before \cup more
    <2>1. 1 .. tool' - 1 = (1 .. tool - 1) \cup {tool}
      BY <1>1, <1>2
    <2> QED
      BY <2>1
  <1>9. OriginsOf(manifest, tool', Parameters(manifest, tool') \ left') = {}
    BY <1>2 DEF OriginsOf
  <1> HIDE DEF new, before, more
  <1>10. Traced(policy \o new, manifest, before \cup more)
    BY <1>1, <1>5, <1>6, <1>7, TracedBoth
  <1>11. Traced(rules, manifest, OriginsOf(manifest, tool, Parameters(manifest, tool) \ left))'
    BY <1>2, <1>9, TracedNone
  <1>12. Traced(policy, manifest, UNION {ToolOrigins(manifest, i) : i \in 1 .. tool - 1})'
    BY <1>2, <1>8, <1>10
  <1>13. stage' \in {"drafting", "written"} => manifest' # <<>>
    BY <1>2 DEF TraceInv
  <1> QED
    BY <1>11, <1>12, <1>13 DEF TraceInv

LEMMA NextTrace == DraftInv /\ TraceInv /\ [Next]_vars => TraceInv'
  <1> SUFFICES ASSUME DraftInv, TraceInv, [Next]_vars PROVE TraceInv'
    OBVIOUS
  <1>1. CASE UNCHANGED vars
    BY <1>1 DEF vars, TraceInv
  <1>2. ASSUME NEW outcome \in WriteOutcomes, Write(outcome)
        PROVE  TraceInv'
    BY <1>2 DEF Write, TraceInv
  <1> QED
    BY <1>1, <1>2, ReadTrace, VisitTrace, NextToolTrace DEF Next

LEMMA TraceInvariant == Spec => [](DraftInv /\ TraceInv)
  BY InitDraft, InitTrace, NextDraft, NextTrace, PTL DEF Spec

-----------------------------------------------------------------------------
(***************************************************************************)
(* The ids of drafted rules tell their origins apart, up to a clash.       *)
(***************************************************************************)
LEMMA Suffixed ==
  ASSUME NEW S, NEW a \in Seq(S), NEW b \in Seq(S), NEW x, NEW y, a \o <<x>> = b \o <<y>>
  PROVE  a = b /\ x = y
  <1> DEFINE m == Len(a)
             n == Len(b)
             T == S \cup {x, y}
             whole == a \o <<x>>
             other == b \o <<y>>
  <1>1. a \in Seq(T) /\ b \in Seq(T) /\ <<x>> \in Seq(T) /\ <<y>> \in Seq(T)
    OBVIOUS
  <1>2. /\ m \in Nat /\ n \in Nat /\ Len(whole) = m + 1 /\ Len(other) = n + 1
        /\ \A i \in 1 .. m : whole[i] = a[i]
        /\ \A i \in 1 .. n : other[i] = b[i]
        /\ whole[m + 1] = x /\ other[n + 1] = y
    BY <1>1
  <1>3. whole = other
    OBVIOUS
  <1>4. a = [i \in 1 .. m |-> a[i]] /\ b = [i \in 1 .. n |-> b[i]]
    OBVIOUS
  <1> HIDE DEF m, n, T, whole, other
  <1>5. m = n
    BY <1>2, <1>3
  <1>6. \A i \in 1 .. m : a[i] = b[i]
    BY <1>2, <1>3, <1>5
  <1>7. a = b
    BY <1>4, <1>5, <1>6
  <1>8. x = y
    BY <1>2, <1>3, <1>5
  <1> QED
    BY <1>7, <1>8

LEMMA Joined ==
  ASSUME NEW S, NEW a \in Seq(S), NEW b \in Seq(S)
  PROVE  /\ a \o b \in Seq(S) /\ Len(a \o b) = Len(a) + Len(b)
         /\ DOMAIN (a \o b) = 1 .. Len(a) + Len(b)
         /\ \A i \in 1 .. Len(a) : (a \o b)[i] = a[i]
         /\ \A i \in 1 .. Len(a) + Len(b) : i > Len(a) => (a \o b)[i] = b[i - Len(a)]
         /\ a \o b = [i \in 1 .. Len(a) + Len(b) |-> (a \o b)[i]]
  <1>1. a \o b \in Seq(S) /\ Len(a \o b) = Len(a) + Len(b)
    OBVIOUS
  <1>2. \A i \in 1 .. Len(a) : (a \o b)[i] = a[i]
    OBVIOUS
  <1>3. \A i \in 1 .. Len(a) + Len(b) : i > Len(a) => (a \o b)[i] = b[i - Len(a)]
    OBVIOUS
  <1>4. ASSUME NEW seq \in Seq(S)
        PROVE  DOMAIN seq = 1 .. Len(seq) /\ seq = [i \in 1 .. Len(seq) |-> seq[i]]
    OBVIOUS
  <1> QED
    BY <1>1, <1>2, <1>3, <1>4

LEMMA SanitizedTyped ==
  ASSUME NEW name \in Names
  PROVE  SanitizeID(name) \in Names /\ Len(SanitizeID(name)) = Len(name)
  <1> DEFINE S == Letters \cup Separators
             char(i) == IF name[i] \in Letters THEN name[i] ELSE "_"
  <1>1. Len(name) \in Nat /\ DOMAIN name = 1 .. Len(name)
    BY DEF Names
  <1>2. \A i \in 1 .. Len(name) : char(i) \in S
    BY DiscoveryAssumption
  <1>3. SanitizeID(name) = [i \in 1 .. Len(name) |-> char(i)]
    BY <1>1 DEF SanitizeID
  <1>4. Names = Seq(S)
    BY DEF Names
  <1> HIDE DEF char, S
  <1> QED
    BY <1>1, <1>2, <1>3, <1>4

\* An id is that of the qualified name of the parameter.
LEMMA SanitizedJoin ==
  ASSUME NEW a \in Names, NEW b \in Names
  PROVE  /\ a \o b \in Names
         /\ SanitizeID(a \o b) = SanitizeID(a) \o SanitizeID(b)
  <1> DEFINE S == Letters \cup Separators
             m == Len(a)
             n == Len(b)
             sa == SanitizeID(a)
             sb == SanitizeID(b)
             whole == a \o b
             clean == SanitizeID(whole)
             parts == sa \o sb
  <1>1. /\ m \in Nat /\ n \in Nat /\ whole \in Names /\ Len(whole) = m + n
        /\ \A i \in 1 .. m : whole[i] = a[i]
        /\ \A i \in 1 .. m + n : i > m => whole[i] = b[i - m]
        /\ DOMAIN a = 1 .. m /\ DOMAIN b = 1 .. n /\ DOMAIN whole = 1 .. m + n
    BY DEF Names
  <1>2. /\ sa \in Names /\ sb \in Names /\ Len(sa) = m /\ Len(sb) = n
        /\ clean \in Names
    BY <1>1, SanitizedTyped
  <1>3. /\ parts \in Names /\ Len(parts) = m + n
        /\ \A i \in 1 .. m : parts[i] = sa[i]
        /\ \A i \in 1 .. m + n : i > m => parts[i] = sb[i - m]
        /\ DOMAIN parts = 1 .. m + n
        /\ parts = [i \in 1 .. m + n |-> parts[i]]
    <2>1. sa \in Seq(S) /\ sb \in Seq(S)
      BY <1>2 DEF Names
    <2> HIDE DEF sa, sb, m, n, S
    <2>2. /\ parts \in Seq(S) /\ Len(parts) = Len(sa) + Len(sb)
          /\ DOMAIN parts = 1 .. Len(sa) + Len(sb)
          /\ \A i \in 1 .. Len(sa) : parts[i] = sa[i]
          /\ \A i \in 1 .. Len(sa) + Len(sb) : i > Len(sa) => parts[i] = sb[i - Len(sa)]
          /\ parts = [i \in 1 .. Len(sa) + Len(sb) |-> parts[i]]
      BY <2>1, Joined
    <2> HIDE DEF parts
    <2> QED
      BY <1>2, <2>2 DEF Names, S
  <1>4. /\ \A i \in 1 .. m : sa[i] = IF a[i] \in Letters THEN a[i] ELSE "_"
        /\ \A i \in 1 .. n : sb[i] = IF b[i] \in Letters THEN b[i] ELSE "_"
        /\ \A i \in 1 .. m + n : clean[i] = IF whole[i] \in Letters THEN whole[i] ELSE "_"
        /\ DOMAIN clean = 1 .. m + n
    BY <1>1 DEF SanitizeID
  <1>5. clean = [i \in DOMAIN clean |-> clean[i]]
    BY DEF SanitizeID
  <1>6. parts = [i \in DOMAIN parts |-> parts[i]]
    BY <1>3
  <1> HIDE DEF S, m, n, sa, sb, whole, clean, parts
  <1>7. ASSUME NEW i \in 1 .. m + n PROVE clean[i] = parts[i]
    <2>1. CASE i \in 1 .. m
      BY <1>1, <1>3, <1>4, <2>1
    <2>2. CASE i > m
      <3>1. PICK j : j = i - m
        OBVIOUS
      <3>2. j \in 1 .. n
        BY <1>1, <2>2, <3>1
      <3>3. whole[i] = b[j] /\ parts[i] = sb[j]
        BY <1>1, <1>3, <2>2, <3>1
      <3> QED
        BY <1>4, <3>2, <3>3
    <2> QED
      BY <1>1, <2>1, <2>2
  <1>8. clean = parts
    BY <1>3, <1>4, <1>5, <1>6, <1>7
  <1> QED
    BY <1>1, <1>8 DEF sa, sb, whole, clean, parts

LEMMA SanitizedLetter ==
  ASSUME NEW char \in Letters
  PROVE  <<char>> \in Names /\ SanitizeID(<<char>>) = <<char>>
  <1> DEFINE mark == <<char>>
  <1>1. mark \in Seq(Letters \cup Separators)
    OBVIOUS
  <1>2. DOMAIN mark = 1 .. 1 /\ mark[1] = char /\ mark = [i \in 1 .. 1 |-> mark[i]]
    OBVIOUS
  <1>3. SanitizeID(mark) = [i \in 1 .. 1 |-> IF mark[i] \in Letters THEN mark[i] ELSE "_"]
    BY <1>2 DEF SanitizeID
  <1>4. \A i \in 1 .. 1 : mark[i] = char
    BY <1>2
  <1> HIDE DEF mark
  <1>5. SanitizeID(mark) = [i \in 1 .. 1 |-> mark[i]]
    BY <1>3, <1>4
  <1> QED
    BY <1>1, <1>2, <1>5 DEF Names, mark

LEMMA IDOfParameter ==
  ASSUME NEW toolName \in Names, NEW param \in Names, NEW kind
  PROVE  /\ RuleID(toolName, param, kind) = SanitizeID(toolName \o <<"_">> \o param) \o <<kind>>
         /\ SanitizeID(toolName \o <<"_">> \o param) \in Names
  <1> DEFINE mark == <<"_">>
  <1>1. mark \in Names /\ SanitizeID(mark) = mark
    BY SanitizedLetter, DiscoveryAssumption, Zenon
  <1>2. PICK m \in Names : m = mark /\ SanitizeID(m) = m
    BY <1>1, Zenon
  <1>3. toolName \o m \in Names /\ SanitizeID(toolName \o m) = SanitizeID(toolName) \o m
    <2>1. SanitizeID(toolName \o m) = SanitizeID(toolName) \o SanitizeID(m)
      BY SanitizedJoin, Zenon
    <2>2. SanitizeID(toolName) \o SanitizeID(m) = SanitizeID(toolName) \o m
      BY <1>2
    <2> QED
      BY <2>1, <2>2, SanitizedJoin, Zenon
  <1>4. /\ (toolName \o m) \o param \in Names
        /\ SanitizeID((toolName \o m) \o param) = (SanitizeID(toolName) \o m) \o SanitizeID(param)
    <2> DEFINE prefix == toolName \o m
    <2>1. prefix \in Names /\ SanitizeID(prefix) = SanitizeID(toolName) \o m
      BY <1>3
    <2> HIDE DEF prefix
    <2>2. /\ prefix \o param \in Names
          /\ SanitizeID(prefix \o param) = SanitizeID(prefix) \o SanitizeID(param)
      BY <2>1, SanitizedJoin, Zenon
    <2>3. SanitizeID(prefix \o param) = (SanitizeID(toolName) \o m) \o SanitizeID(param)
      BY <2>1, <2>2, Zenon
    <2> QED
      BY <2>2, <2>3, Zenon DEF prefix
  <1>5. SanitizeID((toolName \o m) \o param) \in Names
    BY <1>4, SanitizedTyped
  <1>6. RuleID(toolName, param, kind) =
          ((SanitizeID(toolName) \o m) \o SanitizeID(param)) \o <<kind>>
    BY <1>2, Zenon DEF RuleID
  <1> QED
    BY <1>2, <1>4, <1>5, <1>6, Zenon

-----------------------------------------------------------------------------
(***************************************************************************)
(* What Policy.Validate finds in the drafted rules, told by their origins. *)
(***************************************************************************)
Origins == UNION {ToolOrigins(manifest, i) : i \in Tools}

LEMMA OriginsAre ==
  ASSUME NEW origin
  PROVE  origin \in Origins <=>
           \E i \in Tools :
             \/ Guarded(i) = {} /\ origin = <<i, Whole, "rate_limit">>
             \/ \E param \in Guarded(i) : \E kind \in Draws(Prop(i, param)) :
                  origin = <<i, param, kind>>
  <1>1. ASSUME NEW i \in Tools
        PROVE  origin \in ToolOrigins(manifest, i) <=>
                 \/ Guarded(i) = {} /\ origin = <<i, Whole, "rate_limit">>
                 \/ \E param \in Guarded(i) : \E kind \in Draws(Prop(i, param)) :
                      origin = <<i, param, kind>>
    <2> DEFINE all == OriginsOf(manifest, i, Parameters(manifest, i))
    <2>1. \A any : any \in all <=>
            \E param \in Guarded(i) : \E kind \in Draws(Prop(i, param)) : any = <<i, param, kind>>
      BY DEF OriginsOf, OriginsAt, Guarded, Prop
    <2>2. all = {} <=> Guarded(i) = {}
      <3>1. \A param \in Guarded(i) : Draws(Prop(i, param)) # {}
        BY DEF Guarded
      <3> HIDE DEF all
      <3> QED
        BY <2>1, <3>1
    <2> DEFINE fallback == <<i, Whole, "rate_limit">>
    <2>3. ToolOrigins(manifest, i) = IF all = {} THEN {fallback} ELSE all
      BY DEF ToolOrigins
    <2> HIDE DEF all, fallback
    <2>4. CASE all = {}
      <3>1. origin \in ToolOrigins(manifest, i) <=> origin = fallback
        BY <2>3, <2>4
      <3> QED
        BY <2>2, <2>4, <3>1, Zenon DEF fallback
    <2>5. CASE all # {}
      <3>1. origin \in ToolOrigins(manifest, i) <=> origin \in all
        BY <2>3, <2>5
      <3> QED
        BY <2>1, <2>2, <2>5, <3>1, Zenon
    <2> QED
      BY <2>4, <2>5
  <1>2. origin \in Origins <=> \E i \in Tools : origin \in ToolOrigins(manifest, i)
    BY DEF Origins
  <1> QED
    BY <1>1, <1>2, Zenon

\* The rule for a parameter: its id, and the limits that only a numeric one has.
LEMMA MadeForParameter ==
  ASSUME DraftInv, NEW i \in Tools, NEW param \in Guarded(i), NEW kind \in Draws(Prop(i, param))
  PROVE  LET rule == Made(manifest, <<i, param, kind>>)
         IN  /\ Qualified(i, param) \in Names
             /\ rule.ruleID = Qualified(i, param) \o <<kind>>
             /\ rule.toolPattern = manifest[i].name
             /\ kind = "numeric_limit" =>
                  /\ rule.maxPerCall = PerCall(Prop(i, param))
                  /\ rule.maxCumulative = DefaultMaxCumulative
             /\ kind # "numeric_limit" => rule.maxPerCall = Unset
             /\ kind # "rate_limit"
             /\ kind = "numeric_limit" => Numeric(Prop(i, param))
  <1> DEFINE name == manifest[i].name
             prop == manifest[i].properties[param]
             rule == Made(manifest, <<i, param, kind>>)
  <1>1. name \in Names /\ param \in Names
    BY ManifestTyped DEF DraftInv, Typed, Tools, Guarded
  <1>2. RuleID(name, param, kind) = Qualified(i, param) \o <<kind>> /\ Qualified(i, param) \in Names
    BY <1>1, IDOfParameter, Zenon DEF Qualified
  <1>3. \/ kind = "numeric_limit" /\ rule = LimitRule(name, param, prop)
        \/ /\ kind \notin {"numeric_limit", "rate_limit"}
           /\ \E test, operand : rule = GuardRule(name, param, kind, test, operand)
    <2>1. kind \in {"numeric_limit", "enum_guard", "pattern_guard", "injection_guard",
                    "path_traversal_guard"}
      BY DEF Draws
    <2>2. CASE kind = "numeric_limit"
      <3>1. rule = LimitRule(name, param, prop)
        BY <2>2, MadeAs, Zenon
      <3> QED
        BY <2>2, <3>1
    <2>3. CASE kind = "enum_guard"
      <3>1. rule = GuardRule(name, param, kind, "enum", prop.enum)
        BY <2>3, MadeAs, Zenon
      <3>2. \E test, operand : rule = GuardRule(name, param, kind, test, operand)
        BY <3>1, Zenon
      <3> QED
        BY <2>3, <3>2
    <2>4. CASE kind = "pattern_guard"
      <3>1. rule = GuardRule(name, param, kind, "pattern", prop.pattern)
        BY <2>4, MadeAs, Zenon
      <3>2. \E test, operand : rule = GuardRule(name, param, kind, test, operand)
        BY <3>1, Zenon
      <3> QED
        BY <2>4, <3>2
    <2>5. CASE kind = "injection_guard"
      <3>1. rule = GuardRule(name, param, kind, "injection", Unset)
        BY <2>5, MadeAs, Zenon
      <3>2. \E test, operand : rule = GuardRule(name, param, kind, test, operand)
        BY <3>1, Zenon
      <3> QED
        BY <2>5, <3>2
    <2>6. CASE kind = "path_traversal_guard"
      <3>1. rule = GuardRule(name, param, kind, "climbing", Unset)
        BY <2>6, MadeAs, Zenon
      <3>2. \E test, operand : rule = GuardRule(name, param, kind, test, operand)
        BY <3>1, Zenon
      <3> QED
        BY <2>6, <3>2
    <2> QED
      BY <2>1, <2>2, <2>3, <2>4, <2>5, <2>6
  <1>4. kind = "numeric_limit" => Numeric(Prop(i, param))
    BY DEF Draws
  <1>5. Prop(i, param) = prop
    BY DEF Prop
  <1> HIDE DEF rule
  <1>6. CASE kind = "numeric_limit" /\ rule = LimitRule(name, param, prop)
    <2>1. /\ rule.ruleID = RuleID(name, param, "numeric_limit") /\ rule.toolPattern = name
          /\ rule.maxPerCall = PerCall(prop) /\ rule.maxCumulative = DefaultMaxCumulative
      BY <1>6 DEF LimitRule
    <2>2. rule.ruleID = Qualified(i, param) \o <<kind>>
      BY <1>2, <1>6, <2>1, Zenon
    <2>3. kind # "rate_limit"
      BY <1>6
    <2> QED
      BY <1>2, <1>4, <1>5, <1>6, <2>1, <2>2, <2>3 DEF rule
  <1>7. CASE /\ kind \notin {"numeric_limit", "rate_limit"}
             /\ \E test, operand : rule = GuardRule(name, param, kind, test, operand)
    <2>1. /\ rule.ruleID = RuleID(name, param, kind) /\ rule.toolPattern = name
          /\ rule.maxPerCall = Unset
      BY <1>7 DEF GuardRule
    <2> QED
      BY <1>2, <1>5, <1>7, <2>1 DEF rule
  <1> QED
    BY <1>3, <1>6, <1>7

LEMMA MadeForTool ==
  ASSUME NEW i
  PROVE  LET rule == Made(manifest, <<i, Whole, "rate_limit">>)
         IN  /\ rule.ruleID = SanitizeID(manifest[i].name) \o <<"rate_limit">>
             /\ rule.toolPattern = manifest[i].name
             /\ rule.maxPerCall = Unset
  <1>1. Made(manifest, <<i, Whole, "rate_limit">>) = Fallback(manifest[i].name)
    BY MadeAs
  <1> DEFINE id == SanitizeID(manifest[i].name) \o <<"rate_limit">>
             rule == Made(manifest, <<i, Whole, "rate_limit">>)
  <1>2. rule = [ruleID |-> id, toolPattern |-> manifest[i].name, valuePath |-> Whole,
                maxPerCall |-> Unset, maxCumulative |-> Unset, condition |-> NoCondition]
    BY <1>1, Zenon DEF Fallback
  <1> HIDE DEF id, rule
  <1>3. rule.ruleID = id /\ rule.toolPattern = manifest[i].name /\ rule.maxPerCall = Unset
    BY <1>2
  <1> QED
    BY <1>3, Zenon DEF id, rule

Ended(name, kind) == name \o <<kind>>

LEMMA EndedTell ==
  ASSUME NEW a \in Names, NEW b \in Names, NEW x, NEW y, Ended(a, x) = Ended(b, y)
  PROVE  a = b /\ x = y
  <1>1. a \in Seq(Letters \cup Separators) /\ b \in Seq(Letters \cup Separators)
    BY DEF Names
  <1>2. a \o <<x>> = b \o <<y>>
    BY DEF Ended
  <1> QED
    BY <1>1, <1>2, Suffixed

\* Rules share an id exactly when two origins clash.
LEMMA IDsTell ==
  ASSUME DraftInv
  PROVE  (\A o, u \in Origins : Made(manifest, o).ruleID = Made(manifest, u).ruleID => o = u)
           <=> ~Clash
  <1>0. \A i \in Tools : manifest[i].name \in Names /\ SanitizeID(manifest[i].name) \in Names
    BY ManifestTyped, SanitizedTyped DEF DraftInv, Typed, Tools
  <1> DEFINE id(o) == Made(manifest, o).ruleID
             fallback(i) == <<i, Whole, "rate_limit">>
             S == Letters \cup Separators
  <1>1. \A i \in Tools : id(fallback(i)) = Ended(SanitizeID(manifest[i].name), "rate_limit")
    BY MadeForTool, Zenon DEF Ended
  <1>2. \A i \in Tools : \A p \in Guarded(i) : \A kind \in Draws(Prop(i, p)) :
          /\ id(<<i, p, kind>>) = Ended(Qualified(i, p), kind)
          /\ Qualified(i, p) \in Names /\ kind # "rate_limit"
    BY MadeForParameter, Zenon DEF Ended
  <1>3. \A o : o \in Origins <=>
          \E i \in Tools :
            \/ Guarded(i) = {} /\ o = fallback(i)
            \/ \E p \in Guarded(i) : \E kind \in Draws(Prop(i, p)) : o = <<i, p, kind>>
    BY OriginsAre, Zenon
  <1>4. \A i, j : fallback(i) = fallback(j) => i = j
    OBVIOUS
  <1> HIDE DEF id, fallback
  <1>5. ASSUME Clash
        PROVE  \E o, u \in Origins : id(o) = id(u) /\ o # u
    <2>1. CASE \E i, j \in Tools :
                 /\ i # j /\ Guarded(i) = {} /\ Guarded(j) = {}
                 /\ SanitizeID(manifest[i].name) = SanitizeID(manifest[j].name)
      <3>1. PICK i \in Tools, j \in Tools :
                   /\ i # j /\ Guarded(i) = {} /\ Guarded(j) = {}
                   /\ SanitizeID(manifest[i].name) = SanitizeID(manifest[j].name)
        BY <2>1
      <3>2. fallback(i) \in Origins /\ fallback(j) \in Origins
        BY <1>3, <3>1, Zenon
      <3>3. id(fallback(i)) = id(fallback(j))
        BY <1>1, <3>1, Zenon
      <3> QED
        BY <1>4, <3>1, <3>2, <3>3, Zenon
    <2>2. CASE \E i, j \in Tools : \E p \in Guarded(i), q \in Guarded(j) :
                 /\ <<i, p>> # <<j, q>>
                 /\ Draws(Prop(i, p)) \cap Draws(Prop(j, q)) # {}
                 /\ Qualified(i, p) = Qualified(j, q)
      <3>1. PICK i \in Tools, j \in Tools :
              \E p \in Guarded(i), q \in Guarded(j) :
                 /\ <<i, p>> # <<j, q>>
                 /\ Draws(Prop(i, p)) \cap Draws(Prop(j, q)) # {}
                 /\ Qualified(i, p) = Qualified(j, q)
        BY <2>2
      <3>2. PICK p \in Guarded(i), q \in Guarded(j) :
                 /\ <<i, p>> # <<j, q>>
                 /\ Draws(Prop(i, p)) \cap Draws(Prop(j, q)) # {}
                 /\ Qualified(i, p) = Qualified(j, q)
        BY <3>1
      <3>3. PICK kind : kind \in Draws(Prop(i, p)) /\ kind \in Draws(Prop(j, q))
        BY <3>2
      <3>4. <<i, p, kind>> \in Origins /\ <<j, q, kind>> \in Origins
        BY <1>3, <3>3, Zenon
      <3>5. id(<<i, p, kind>>) = id(<<j, q, kind>>)
        BY <1>2, <3>2, <3>3, Zenon
      <3>6. <<i, p, kind>> # <<j, q, kind>>
        BY <3>2
      <3> QED
        BY <3>4, <3>5, <3>6, Zenon
    <2> QED
      BY <1>5, <2>1, <2>2 DEF Clash
  <1>6. ASSUME NEW o \in Origins, NEW u \in Origins, id(o) = id(u), o # u
        PROVE  Clash
    <2>1. PICK i \in Tools :
            \/ Guarded(i) = {} /\ o = fallback(i)
            \/ \E p \in Guarded(i) : \E kind \in Draws(Prop(i, p)) : o = <<i, p, kind>>
      BY <1>3, Zenon
    <2>2. PICK j \in Tools :
            \/ Guarded(j) = {} /\ u = fallback(j)
            \/ \E q \in Guarded(j) : \E kind \in Draws(Prop(j, q)) : u = <<j, q, kind>>
      BY <1>3, Zenon
    <2>3. CASE Guarded(i) = {} /\ o = fallback(i) /\ Guarded(j) = {} /\ u = fallback(j)
      <3>1. Ended(SanitizeID(manifest[i].name), "rate_limit") =
              Ended(SanitizeID(manifest[j].name), "rate_limit")
        BY <1>1, <1>6, <2>3, Zenon
      <3>2. SanitizeID(manifest[i].name) = SanitizeID(manifest[j].name)
        BY <1>0, EndedTell, <3>1
      <3>3. i # j
        BY <1>6, <2>3, Zenon
      <3> QED
        BY <2>3, <3>2, <3>3, Zenon DEF Clash
    <2>4. ASSUME NEW p \in Guarded(i), NEW kind \in Draws(Prop(i, p)), o = <<i, p, kind>>,
                 Guarded(j) = {}, u = fallback(j)
          PROVE  FALSE
      <3>1. PICK mark : mark = "rate_limit"
        OBVIOUS
      <3>2. Ended(Qualified(i, p), kind) = Ended(SanitizeID(manifest[j].name), mark)
        BY <1>1, <1>2, <1>6, <2>4, <3>1, Zenon
      <3>3. Qualified(i, p) \in Names /\ kind # mark
        BY <1>2, <3>1, Zenon
      <3>4. SanitizeID(manifest[j].name) \in Names
        BY <1>0
      <3> QED
        BY <3>2, <3>3, <3>4, EndedTell
    <2>5. ASSUME NEW q \in Guarded(j), NEW kind \in Draws(Prop(j, q)), u = <<j, q, kind>>,
                 Guarded(i) = {}, o = fallback(i)
          PROVE  FALSE
      <3>1. PICK mark : mark = "rate_limit"
        OBVIOUS
      <3>2. Ended(Qualified(j, q), kind) = Ended(SanitizeID(manifest[i].name), mark)
        BY <1>1, <1>2, <1>6, <2>5, <3>1, Zenon
      <3>3. Qualified(j, q) \in Names /\ kind # mark
        BY <1>2, <3>1, Zenon
      <3>4. SanitizeID(manifest[i].name) \in Names
        BY <1>0
      <3> QED
        BY <3>2, <3>3, <3>4, EndedTell
    <2>6. ASSUME NEW p \in Guarded(i), NEW kind \in Draws(Prop(i, p)), o = <<i, p, kind>>,
                 NEW q \in Guarded(j), NEW other \in Draws(Prop(j, q)), u = <<j, q, other>>
          PROVE  Clash
      <3>1. Ended(Qualified(i, p), kind) = Ended(Qualified(j, q), other)
        BY <1>2, <1>6, <2>6, Zenon
      <3>2. Qualified(i, p) = Qualified(j, q) /\ kind = other
        <4>1. Qualified(i, p) \in Names /\ Qualified(j, q) \in Names
          BY <1>2, Zenon
        <4> QED
          BY <3>1, <4>1, EndedTell
      <3>3. <<i, p>> # <<j, q>>
        BY <1>6, <2>6, <3>2
      <3>4. Draws(Prop(i, p)) \cap Draws(Prop(j, q)) # {}
        BY <3>2
      <3> QED
        BY <3>2, <3>3, <3>4, Zenon DEF Clash
    <2> QED
      BY <2>1, <2>2, <2>3, <2>4, <2>5, <2>6, Zenon
  <1>7. (\A o, u \in Origins : id(o) = id(u) => o = u) <=> ~Clash
    BY <1>5, <1>6, Zenon
  <1> QED
    BY <1>7 DEF id

\* Every tool has a rule, under its own name, and every rule a tool.
LEMMA ToolsTell ==
  ASSUME DraftInv
  PROVE  /\ \A o \in Origins : \E i \in Tools : Made(manifest, o).toolPattern = manifest[i].name
         /\ \A i \in Tools : \E o \in Origins : Made(manifest, o).toolPattern = manifest[i].name
  <1>1. ASSUME NEW o \in Origins
        PROVE  \E i \in Tools : Made(manifest, o).toolPattern = manifest[i].name
    <2>1. PICK i \in Tools :
            \/ Guarded(i) = {} /\ o = <<i, Whole, "rate_limit">>
            \/ \E p \in Guarded(i) : \E kind \in Draws(Prop(i, p)) : o = <<i, p, kind>>
      BY OriginsAre, Zenon
    <2>2. Made(manifest, o).toolPattern = manifest[i].name
      BY <2>1, MadeForParameter, MadeForTool, Zenon
    <2> QED
      BY <2>2
  <1>2. ASSUME NEW i \in Tools
        PROVE  \E o \in Origins : Made(manifest, o).toolPattern = manifest[i].name
    <2>1. CASE Guarded(i) = {}
      <3>1. <<i, Whole, "rate_limit">> \in Origins
        BY <2>1, OriginsAre, Zenon
      <3> QED
        BY <3>1, MadeForTool, Zenon
    <2>2. CASE Guarded(i) # {}
      <3>1. PICK p \in Guarded(i) : Draws(Prop(i, p)) # {}
        BY <2>2 DEF Guarded
      <3>2. PICK kind \in Draws(Prop(i, p)) : TRUE
        BY <3>1
      <3>3. <<i, p, kind>> \in Origins
        BY OriginsAre, Zenon
      <3> QED
        BY <3>3, MadeForParameter, Zenon
    <2> QED
      BY <2>1, <2>2
  <1> QED
    BY <1>1, <1>2

Bounded(rule) ==
  rule.maxPerCall # Unset /\ rule.maxCumulative # Unset => rule.maxPerCall <= rule.maxCumulative

\* A limit on one call exceeds that on several exactly where a maximum does.
LEMMA LimitsTell ==
  ASSUME DraftInv
  PROVE  (\A o \in Origins : Bounded(Made(manifest, o))) <=> ~ExcessiveMaximum
  <1>1. ASSUME ExcessiveMaximum
        PROVE  \E o \in Origins : ~Bounded(Made(manifest, o))
    <2>1. PICK i \in Tools :
            \E p \in Guarded(i) : Numeric(Prop(i, p)) /\ PerCall(Prop(i, p)) > DefaultMaxCumulative
      BY <1>1 DEF ExcessiveMaximum
    <2>2. PICK p \in Guarded(i) : Numeric(Prop(i, p)) /\ PerCall(Prop(i, p)) > DefaultMaxCumulative
      BY <2>1
    <2>3. "numeric_limit" \in Draws(Prop(i, p))
      BY <2>2 DEF Draws
    <2>4. PICK kind \in Draws(Prop(i, p)) : kind = "numeric_limit"
      BY <2>3
    <2>5. <<i, p, kind>> \in Origins
      BY OriginsAre, Zenon
    <2> DEFINE rule == Made(manifest, <<i, p, kind>>)
    <2>6. rule.maxPerCall = PerCall(Prop(i, p)) /\ rule.maxCumulative = DefaultMaxCumulative
      BY <2>4, MadeForParameter, Zenon
    <2>7. PerCall(Prop(i, p)) \in Int
      <3>1. Prop(i, p) \in Properties
        BY ManifestTyped DEF DraftInv, Typed, Tools, Guarded, Prop
      <3> QED
        BY <3>1, DiscoveryAssumption DEF PerCall, Properties
    <2> HIDE DEF rule
    <2>8. ~Bounded(rule)
      <3>1. PICK most \in Int : most = PerCall(Prop(i, p))
        BY <2>7
      <3>2. /\ most # Unset /\ DefaultMaxCumulative # Unset /\ DefaultMaxCumulative \in Int
            /\ most > DefaultMaxCumulative
        BY <2>2, <3>1, DiscoveryAssumption
      <3>3. ~(most <= DefaultMaxCumulative)
        BY <3>2
      <3> QED
        BY <2>6, <3>1, <3>2, <3>3, Zenon DEF Bounded
    <2> QED
      BY <2>5, <2>8 DEF rule
  <1>2. ASSUME NEW o \in Origins, ~Bounded(Made(manifest, o))
        PROVE  ExcessiveMaximum
    <2> DEFINE rule == Made(manifest, o)
    <2>1. PICK i \in Tools :
            \/ Guarded(i) = {} /\ o = <<i, Whole, "rate_limit">>
            \/ \E p \in Guarded(i) : \E kind \in Draws(Prop(i, p)) : o = <<i, p, kind>>
      BY OriginsAre, Zenon
    <2>2. rule.maxPerCall # Unset /\ ~(rule.maxPerCall <= rule.maxCumulative)
      BY <1>2 DEF Bounded
    <2>3. ~(o = <<i, Whole, "rate_limit">>)
      BY <2>2, MadeForTool, Zenon
    <2>4. PICK p \in Guarded(i) : \E kind \in Draws(Prop(i, p)) : o = <<i, p, kind>>
      BY <2>1, <2>3, Zenon
    <2>5. PICK kind \in Draws(Prop(i, p)) : o = <<i, p, kind>>
      BY <2>4
    <2>6. kind = "numeric_limit"
      BY <2>2, <2>5, MadeForParameter, Zenon
    <2>7. /\ rule.maxPerCall = PerCall(Prop(i, p)) /\ rule.maxCumulative = DefaultMaxCumulative
          /\ Numeric(Prop(i, p))
      BY <2>5, <2>6, MadeForParameter, Zenon
    <2>8. PerCall(Prop(i, p)) \in Int
      <3>1. Prop(i, p) \in Properties
        BY ManifestTyped DEF DraftInv, Typed, Tools, Guarded, Prop
      <3> QED
        BY <3>1, DiscoveryAssumption DEF PerCall, Properties
    <2> HIDE DEF rule
    <2>9. PerCall(Prop(i, p)) > DefaultMaxCumulative
      <3>1. PICK most \in Int : most = PerCall(Prop(i, p))
        BY <2>8
      <3>2. DefaultMaxCumulative \in Int /\ ~(most <= DefaultMaxCumulative)
        BY <2>2, <2>7, <3>1, DiscoveryAssumption
      <3>3. most > DefaultMaxCumulative
        BY <3>2
      <3> QED
        BY <3>1, <3>3
    <2> QED
      BY <2>7, <2>9 DEF ExcessiveMaximum
  <1> QED
    BY <1>1, <1>2, Zenon

LEMMA LoadsWhenWritten == DraftInv /\ TraceInv => DraftLoads
  <1> SUFFICES ASSUME DraftInv, TraceInv, stage = "written"
               PROVE  Validate(file) <=>
                        ~Clash /\ ~ExcessiveMaximum /\ \A i \in Tools : manifest[i].name # <<>>
    BY DEF DraftLoads
  <1>1. /\ file = policy /\ tool = Len(manifest) + 1 /\ Len(manifest) \in Nat
        /\ manifest \in Manifests /\ manifest # <<>> /\ file \in Seq(DraftRules)
    BY ManifestTyped DEF DraftInv, Progress, Typed, TraceInv
  <1>2. Traced(file, manifest, Origins)
    <2>1. 1 .. tool - 1 = Tools
      BY <1>1 DEF Tools
    <2> QED
      BY <1>1, <2>1 DEF TraceInv, Origins
  <1>3. PICK org : TracedBy(org, file, manifest, Origins)
    BY <1>2 DEF Traced
  <1> DEFINE D == DOMAIN file
  <1>4. /\ \A k \in D : org[k] \in Origins /\ file[k] = Made(manifest, org[k])
        /\ \A k, l \in D : org[k] = org[l] => k = l
        /\ \A o \in Origins : \E k \in D : org[k] = o
    <2>1. DOMAIN file = 1 .. Len(file)
      BY <1>1
    <2> QED
      BY <1>3, <2>1 DEF TracedBy
  <1>5. file # <<>>
    <2>1. 1 \in Tools
      <3>1. PICK S : manifest \in Seq(S)
        BY <1>1, DiscoveryAssumption
      <3> QED
        BY <1>1, <3>1 DEF Tools
    <2>2. PICK o \in Origins : TRUE
      BY <2>1, ToolsTell, Zenon
    <2>3. Origins # {}
      BY <2>2
    <2> QED
      BY <1>1, <1>2, <2>3, TracedEmpty
  <1> HIDE DEF D
  <1> DEFINE made(o) == Made(manifest, o)
  <1> HIDE DEF made
  <1>6. \A k \in D : file[k] = made(org[k])
    BY <1>4 DEF made
  <1>7. (\A k, l \in D : file[k].ruleID = file[l].ruleID => k = l) <=> ~Clash
    <2>1. (\A k, l \in D : file[k].ruleID = file[l].ruleID => k = l) <=>
            \A o, u \in Origins : Made(manifest, o).ruleID = Made(manifest, u).ruleID => o = u
      <3>1. ASSUME \A k, l \in D : file[k].ruleID = file[l].ruleID => k = l,
                   NEW o \in Origins, NEW u \in Origins, made(o).ruleID = made(u).ruleID
            PROVE  o = u
        <4>1. PICK k \in D : org[k] = o
          BY <1>4
        <4>2. PICK l \in D : org[l] = u
          BY <1>4
        <4>3. file[k].ruleID = file[l].ruleID
          BY <1>6, <3>1, <4>1, <4>2
        <4> QED
          BY <3>1, <4>1, <4>2, <4>3
      <3>2. ASSUME \A o, u \in Origins : made(o).ruleID = made(u).ruleID => o = u,
                   NEW k \in D, NEW l \in D, file[k].ruleID = file[l].ruleID
            PROVE  k = l
        <4>1. made(org[k]).ruleID = made(org[l]).ruleID
          BY <1>6, <3>2
        <4> QED
          BY <1>4, <3>2, <4>1
      <3> QED
        BY <3>1, <3>2, Zenon DEF made
    <2> QED
      BY <2>1, IDsTell, Zenon
  <1>8. (\A k \in D : file[k].toolPattern # <<>>) <=> \A i \in Tools : manifest[i].name # <<>>
    <2>1. (\A k \in D : file[k].toolPattern # <<>>) <=>
            \A o \in Origins : Made(manifest, o).toolPattern # <<>>
      <3>1. (\A k \in D : file[k].toolPattern # <<>>) <=>
              \A o \in Origins : made(o).toolPattern # <<>>
        BY <1>4, <1>6
      <3> QED
        BY <3>1 DEF made
    <2> QED
      BY <2>1, ToolsTell, Zenon
  <1>9. (\A k \in D : Bounded(file[k])) <=> ~ExcessiveMaximum
    <2>1. (\A k \in D : Bounded(file[k])) <=> \A o \in Origins : Bounded(Made(manifest, o))
      <3>1. (\A k \in D : Bounded(file[k])) <=> \A o \in Origins : Bounded(made(o))
        BY <1>4, <1>6
      <3> QED
        BY <3>1 DEF made
    <2> QED
      BY <2>1, LimitsTell, Zenon
  <1>10. Validate(file) <=>
          /\ file # <<>>
          /\ \A k, l \in D : file[k].ruleID = file[l].ruleID => k = l
          /\ \A k \in D : file[k].toolPattern # <<>>
          /\ \A k \in D : Bounded(file[k])
    BY Zenon DEF Validate, Bounded, D
  <1> QED
    BY <1>5, <1>7, <1>8, <1>9, <1>10, Zenon

(***************************************************************************)
(* Whatever the manifest and the order of its parameters, "gatra start"    *)
(* accepts the drafted file unless a tool has no name, a maximum exceeds   *)
(* the default limit on several calls, or two ids clash; and only then.    *)
(***************************************************************************)
THEOREM DraftsAreAccepted == Spec => []DraftLoads
  BY TraceInvariant, LoadsWhenWritten, PTL
=============================================================================
