----------------------------- MODULE Discovery -----------------------------
(***************************************************************************)
(* "gatra discover": internal/discovery drafts a policy from a manifest of *)
(* MCP tools and their JSON schemas, and the command writes it to the      *)
(* policy file, which "gatra start" then loads.  The parameters of a tool  *)
(* are a Go map: they are visited in any order.                            *)
(*                                                                         *)
(* A name is a sequence of characters; those of tools hold no wildcard of  *)
(* path.Match, and those of parameters none of gjson's, no capitals where  *)
(* it matters, no reserved word of CEL and no CEL expression ("x-1").      *)
(* Numbers are counted in fractions of a millionth, Precision to one.      *)
(***************************************************************************)
EXTENDS Integers, Sequences

CONSTANTS Letters,         \* the characters of identifiers, "_" among them
          Separators,      \* the other characters of names
          Manifests,       \* the lists of tools that discover may be given
          Words,           \* what the heuristics find in names and descriptions
          Precision,       \* how many units of a number make 0.000001
          DefaultMaxPerCall, DefaultMaxCumulative,   \* of discovery.Options
          EnableInjectionGuard, EnablePathGuard,
          Texts,           \* strings: those in calls, and the members of enums
          Values,          \* the arguments of calls: [type, value]
          Patterns,        \* the regular expressions in schemas
          Accepts,         \* [Patterns -> SUBSET Texts]: the texts a pattern matches
          EnumReads,       \* what a pasted enum reads as: the arguments its condition
          PatternReads,    \* is true of, or Garbled; what a pasted pattern reads as
          Garbled,         \* a condition that does not compile
          Destructive,     \* the texts the injection guard looks for
          Climbing,        \* the texts that contain ".."
          WriteOutcomes,   \* of os.WriteFile: "written", "failed", "torn"
          Unset,           \* an absent member of a schema or rule; no argument
          Previous,        \* the policy file as it was before
          Torn             \* the content of a torn file

Names == Seq(Letters \cup Separators)
ExecutionWords == {"query", "sql", "command", "cmd", "script", "code", "exec", "eval",
                   "terminal", "bash"}
PathWords == {"path", "file", "dir", "folder", "filename", "filepath", "location"}
Types == {"number", "integer", "string", "boolean", "array", "object"}

\* MCPProperty; words: those the heuristics find in the parameter's name or description.
Properties == [type : Types, enum : SUBSET Texts, minimum : Int \cup {Unset},
               maximum : Int \cup {Unset}, pattern : Patterns \cup {Unset},
               words : SUBSET Words]

ASSUME DiscoveryAssumption ==
  /\ "_" \in Letters /\ Letters \cap Separators = {}
  /\ Precision \in Nat /\ Precision % 2 = 1   \* %f never meets a tie
  /\ DefaultMaxPerCall \in Int /\ DefaultMaxCumulative \in Int
  /\ EnableInjectionGuard \in BOOLEAN /\ EnablePathGuard \in BOOLEAN
  /\ Accepts \in [Patterns -> SUBSET Texts]
  /\ EnumReads \in [SUBSET Texts -> {Garbled} \cup SUBSET Values]
  /\ PatternReads \in [Patterns -> {Garbled} \cup SUBSET Values]
  /\ WriteOutcomes \subseteq {"written", "failed", "torn"}
  /\ Unset \notin Int \cup Patterns
  /\ \A arg \in Values : arg.type = "number" => arg.value \in Int
  /\ \A manifest \in Manifests : manifest \in Seq({manifest[i] : i \in 1 .. Len(manifest)})
  /\ \A manifest \in Manifests : \A i \in 1 .. Len(manifest) :
       /\ manifest[i].name \in Names
       /\ DOMAIN manifest[i].properties \subseteq Names
       /\ \A param \in DOMAIN manifest[i].properties :
            manifest[i].properties[param] \in Properties

VARIABLES
  stage,      \* of the command
  manifest,   \* container.Tools
  tool,       \* the tool whose schema is analyzed
  left,       \* its parameters that were not visited yet
  rules,      \* analyzeToolSchema's rules
  policy,     \* GeneratePolicyFromMCP's policy.Rules
  file        \* the policy file

vars == <<stage, manifest, tool, left, rules, policy, file>>

-----------------------------------------------------------------------------
(***************************************************************************)
(* The rules that a parameter draws.                                       *)
(***************************************************************************)
SanitizeID(name) == [i \in DOMAIN name |-> IF name[i] \in Letters THEN name[i] ELSE "_"]

\* A plausible slip of RuleID: no suffix that tells a parameter's guards apart.
RuleIDUnsuffixed(toolName, param, kind) == SanitizeID(toolName) \o <<"_">> \o SanitizeID(param)

\* The suffixes "_numeric_limit", ... are one character each: none ends another.
RuleID(toolName, param, kind) ==
  SanitizeID(toolName) \o <<"_">> \o SanitizeID(param) \o <<kind>>

Numeric(prop) == prop.type \in {"number", "integer"}
IsExecutionVector(prop) == prop.words \cap ExecutionWords # {}
IsPathVector(prop) == prop.words \cap PathWords # {}

\* %f rounds to six decimals.
Printed(number) == ((number + Precision \div 2) \div Precision) * Precision

NoCondition == [test |-> "none", operand |-> Unset]

\* A plausible slip of MinimumCondition: 0 is taken for "not specified".
MinimumUnlessZero(prop) ==
  IF prop.minimum \in {0, Unset} THEN NoCondition
  ELSE [test |-> "minimum", operand |-> Printed(prop.minimum)]

MinimumCondition(prop) ==
  IF prop.minimum = Unset THEN NoCondition
  ELSE [test |-> "minimum", operand |-> Printed(prop.minimum)]

\* A plausible slip of PerCall: a schema may lower the default limit, not raise it.
PerCallAtMostDefault(prop) ==
  IF prop.maximum # Unset /\ prop.maximum < DefaultMaxPerCall THEN prop.maximum
  ELSE DefaultMaxPerCall

\* maxPerCall of a numeric limit.
PerCall(prop) == IF prop.maximum # Unset THEN prop.maximum ELSE DefaultMaxPerCall

\* What one parameter adds to analyzeToolSchema's rules.
Draft(toolName, param, prop) ==
  LET Rule(kind, perCall, cumulative, condition) ==
        [ruleID |-> RuleID(toolName, param, kind), toolPattern |-> toolName, valuePath |-> param,
         maxPerCall |-> perCall, maxCumulative |-> cumulative, condition |-> condition]
      Guard(drawn, kind, test, operand) ==
        IF drawn THEN <<Rule(kind, Unset, Unset, [test |-> test, operand |-> operand])>> ELSE <<>>
  IN  (IF Numeric(prop)
         THEN <<Rule("numeric_limit", PerCall(prop), DefaultMaxCumulative, MinimumCondition(prop))>>
         ELSE <<>>)
      \o Guard(prop.enum # {}, "enum_guard", "enum", prop.enum)
      \o Guard(prop.pattern # Unset, "pattern_guard", "pattern", prop.pattern)
      \o Guard(EnableInjectionGuard /\ IsExecutionVector(prop), "injection_guard", "injection", Unset)
      \o Guard(EnablePathGuard /\ IsPathVector(prop), "path_traversal_guard", "climbing", Unset)

\* The value path "$" of the rule for a tool whose parameters drew none.
Whole == <<"$">>

Fallback(toolName) ==
  [ruleID |-> SanitizeID(toolName) \o <<"rate_limit">>, toolPattern |-> toolName,
   valuePath |-> Whole, maxPerCall |-> Unset, maxCumulative |-> Unset, condition |-> NoCondition]

-----------------------------------------------------------------------------
(***************************************************************************)
(* runDiscover.                                                            *)
(***************************************************************************)
Init ==
  /\ stage = "reading"
  /\ manifest = <<>> /\ tool = 1 /\ left = {}
  /\ rules = <<>> /\ policy = <<>>
  /\ file = Previous

Parameters(tools, i) == IF i <= Len(tools) THEN DOMAIN tools[i].properties ELSE {}

\* The manifest is read; one that does not parse or lists no tool ends the command.
Read(tools) ==
  /\ stage = "reading"
  /\ manifest' = tools
  /\ stage' = IF tools = <<>> THEN "failed" ELSE "drafting"
  /\ left' = Parameters(tools, 1)
  /\ UNCHANGED <<tool, rules, policy, file>>

\* One turn of the loop over the parameters.
Visit(param) ==
  /\ stage = "drafting" /\ tool <= Len(manifest)
  /\ param \in left
  /\ left' = left \ {param}
  /\ rules' = rules \o Draft(manifest[tool].name, param, manifest[tool].properties[param])
  /\ UNCHANGED <<stage, manifest, tool, policy, file>>

\* A plausible slip of NextTool: the rules of a tool stay for the next one.
NextToolKeepingRules ==
  /\ stage = "drafting" /\ tool <= Len(manifest)
  /\ left = {}
  /\ policy' = policy \o (IF rules = <<>> THEN <<Fallback(manifest[tool].name)>> ELSE rules)
  /\ tool' = tool + 1
  /\ left' = Parameters(manifest, tool + 1)
  /\ UNCHANGED <<stage, manifest, rules, file>>

NextTool ==
  /\ stage = "drafting" /\ tool <= Len(manifest)
  /\ left = {}
  /\ policy' = policy \o (IF rules = <<>> THEN <<Fallback(manifest[tool].name)>> ELSE rules)
  /\ rules' = <<>>
  /\ tool' = tool + 1
  /\ left' = Parameters(manifest, tool + 1)
  /\ UNCHANGED <<stage, manifest, file>>

\* os.WriteFile of the policy.  It is not validated, here or before.
Write(outcome) ==
  /\ stage = "drafting" /\ tool > Len(manifest)
  /\ stage' = IF outcome = "written" THEN "written" ELSE "failed"
  /\ file' = CASE outcome = "written" -> policy
               [] outcome = "torn" -> Torn
               [] outcome = "failed" -> file
  /\ UNCHANGED <<manifest, tool, left, rules, policy>>

Next ==
  \/ \E tools \in Manifests : Read(tools)
  \/ \E param \in left : Visit(param)
  \/ NextTool
  \/ \E outcome \in WriteOutcomes : Write(outcome)

Spec == Init /\ [][Next]_vars

-----------------------------------------------------------------------------
(***************************************************************************)
(* What "gatra start" makes of the drafted file, and the proxy of a call.  *)
(***************************************************************************)
\* Policy.Validate of drafted rules: the version is "v1", the accumulators are known.
Validate(drafted) ==
  /\ drafted # <<>>
  /\ \A i, j \in DOMAIN drafted : drafted[i].ruleID = drafted[j].ruleID => i = j
  /\ \A i \in DOMAIN drafted :
       /\ drafted[i].toolPattern # <<>>
       /\ drafted[i].maxPerCall # Unset /\ drafted[i].maxCumulative # Unset =>
            drafted[i].maxPerCall <= drafted[i].maxCumulative

(***************************************************************************)
(* The members of an enum are pasted between '' as they are, a pattern     *)
(* with only its quotes escaped.  CEL may read what was meant; or nothing, *)
(* as after the quote in O'Brien, or for \d; or another text altogether:   *)
(* the one member  a', 'b  is two, and \? in a pattern is ?.               *)
(***************************************************************************)
Reading(condition) ==
  IF condition.test = "enum" THEN EnumReads[condition.operand] ELSE PatternReads[condition.operand]

\* env.Compile: "payload.<param>" must be a selection, and a literal must read as one.
Compiles(rule) ==
  /\ \A i \in DOMAIN rule.valuePath : rule.valuePath[i] \in Letters
  /\ rule.condition.test \in {"enum", "pattern"} => Reading(rule.condition) # Garbled

\* The condition of a value: "false" and an error are a refusal alike.
Passes(condition, arg) ==
  CASE condition.test = "minimum" -> arg.type = "number" /\ arg.value >= condition.operand
    [] condition.test \in {"enum", "pattern"} -> arg \in Reading(condition)
    [] condition.test = "injection" -> arg.type = "string" /\ arg.value \notin Destructive
    [] condition.test = "climbing" -> arg.type = "string" /\ arg.value \notin Climbing

\* EvaluateCondition, ExtractValue and EvaluateRule of a matching rule; args is the
\* payload, a function of the parameters that are given.  Nothing is found at "$".
Admits(rule, args) ==
  /\ rule.valuePath \in DOMAIN args
  /\ LET arg == args[rule.valuePath]
     IN  /\ rule.condition # NoCondition => Compiles(rule) /\ Passes(rule.condition, arg)
         /\ arg.type \in {"number", "string", "array"}
         /\ rule.maxPerCall # Unset /\ arg.type = "number" => arg.value <= rule.maxPerCall

\* The first call of a trajectory: no limit on several calls is near.
Admitted(drafted, toolName, args) ==
  \A i \in DOMAIN drafted : drafted[i].toolPattern = toolName => Admits(drafted[i], args)

-----------------------------------------------------------------------------
(***************************************************************************)
(* Whatever the order of the parameters, the drafted file is one that      *)
(* "gatra start" accepts, except in three cases: a tool has no name; a     *)
(* maximum exceeds the default limit on several calls (then all rules are  *)
(* lost, not this one); or two names that the schema tells apart have the  *)
(* same id, be it across the border of tool and parameter.                 *)
(***************************************************************************)
Draws(prop) ==
  {kind \in {"numeric_limit", "enum_guard", "pattern_guard", "injection_guard",
             "path_traversal_guard"} :
     CASE kind = "numeric_limit" -> Numeric(prop)
       [] kind = "enum_guard" -> prop.enum # {}
       [] kind = "pattern_guard" -> prop.pattern # Unset
       [] kind = "injection_guard" -> EnableInjectionGuard /\ IsExecutionVector(prop)
       [] kind = "path_traversal_guard" -> EnablePathGuard /\ IsPathVector(prop)}

Tools == 1 .. Len(manifest)
Prop(i, param) == manifest[i].properties[param]
Guarded(i) == {param \in Parameters(manifest, i) : Draws(Prop(i, param)) # {}}
Qualified(i, param) == SanitizeID(manifest[i].name \o <<"_">> \o param)

Clash ==
  \/ \E i, j \in Tools :
       /\ i # j /\ Guarded(i) = {} /\ Guarded(j) = {}
       /\ SanitizeID(manifest[i].name) = SanitizeID(manifest[j].name)
  \/ \E i, j \in Tools : \E p \in Guarded(i), q \in Guarded(j) :
       /\ <<i, p>> # <<j, q>>
       /\ Draws(Prop(i, p)) \cap Draws(Prop(j, q)) # {}
       /\ Qualified(i, p) = Qualified(j, q)

ExcessiveMaximum ==
  \E i \in Tools : \E param \in Guarded(i) :
    Numeric(Prop(i, param)) /\ PerCall(Prop(i, param)) > DefaultMaxCumulative

DraftLoads ==
  stage = "written" =>
    (Validate(file) <=>
       ~Clash /\ ~ExcessiveMaximum /\ \A i \in Tools : manifest[i].name # <<>>)

(***************************************************************************)
(* discovery.go "Schema Enum Validation", "Schema Regex Pattern            *)
(* Validation", "min/max condition if specified in schema": a call with an *)
(* argument that breaks its schema is refused, whatever the other          *)
(* arguments and tools, and whatever the order of the parameters.  (A      *)
(* minimum is printed with six decimals; types are not checked.)           *)
(***************************************************************************)
Arguments(i) == UNION {[given -> Values] : given \in SUBSET Parameters(manifest, i)}

OutOfBounds(prop, arg) ==
  /\ Numeric(prop) /\ arg.type = "number"
  /\ \/ prop.maximum # Unset /\ arg.value > prop.maximum
     \/ prop.minimum # Unset /\ arg.value + Precision \div 2 < prop.minimum

OffEnum(prop, arg) == prop.enum # {} /\ arg.type = "string" /\ arg.value \notin prop.enum

OffPattern(prop, arg) ==
  prop.pattern # Unset /\ arg.type = "string" /\ arg.value \notin Accepts[prop.pattern]

Breaks(prop, arg) == OutOfBounds(prop, arg) \/ OffEnum(prop, arg) \/ OffPattern(prop, arg)

SchemaEnforced ==
  stage = "written" =>
    \A i \in Tools : \A args \in Arguments(i) :
      (\E param \in DOMAIN args : Breaks(Prop(i, param), args[param])) =>
        ~Admitted(file, manifest[i].name, args)

(***************************************************************************)
(* What does hold of it: the bounds of numbers are enforced, and so is an  *)
(* enum or a pattern unless its own literal reads as more than it says.    *)
(* One that does not compile lets nothing pass, and no other parameter,    *)
(* tool or order of visits makes up for a broken schema.                   *)
(***************************************************************************)
Strings(texts) == {arg \in Values : arg.type = "string" /\ arg.value \in texts}

ReadsNoWider(reading, texts) == reading = Garbled \/ reading \subseteq Strings(texts)

BreaksPlainly(prop, arg) ==
  \/ OutOfBounds(prop, arg)
  \/ OffEnum(prop, arg) /\ ReadsNoWider(EnumReads[prop.enum], prop.enum)
  \/ OffPattern(prop, arg) /\ ReadsNoWider(PatternReads[prop.pattern], Accepts[prop.pattern])

PlainSchemaEnforced ==
  stage = "written" =>
    \A i \in Tools : \A args \in Arguments(i) :
      (\E param \in DOMAIN args : BreaksPlainly(Prop(i, param), args[param])) =>
        ~Admitted(file, manifest[i].name, args)

(***************************************************************************)
(* No rule refuses more than it says: a call is admitted when every guard  *)
(* of its tool is content with its argument.  It must have a guard at all, *)
(* and give every guarded argument, optional or not: the schema's          *)
(* "required" is never read, and a tool without guards draws a "rate       *)
(* limit" whose path finds nothing, so it refuses every call.  The names   *)
(* and literals must read as no less than they say.                        *)
(***************************************************************************)
ReadsNoNarrower(reading, texts) == reading # Garbled /\ Strings(texts) \subseteq reading

Legible(i, param) ==
  LET prop == Prop(i, param)
  IN  \/ Draws(prop) = {"numeric_limit"} /\ prop.minimum = Unset
      \/ /\ \A k \in DOMAIN param : param[k] \in Letters
         /\ prop.enum # {} => ReadsNoNarrower(EnumReads[prop.enum], prop.enum)
         /\ prop.pattern # Unset =>
              ReadsNoNarrower(PatternReads[prop.pattern], Accepts[prop.pattern])

Contented(prop, arg) ==
  /\ ~Breaks(prop, arg)
  /\ IF Numeric(prop)
       THEN /\ Draws(prop) = {"numeric_limit"} /\ arg.type = "number"
            /\ prop.maximum = Unset => arg.value <= DefaultMaxPerCall
            /\ prop.minimum # Unset => arg.value >= prop.minimum + Precision \div 2
       ELSE /\ arg.type = "string"
            /\ "injection_guard" \in Draws(prop) => arg.value \notin Destructive
            /\ "path_traversal_guard" \in Draws(prop) => arg.value \notin Climbing

ContentedCallsAdmitted ==
  stage = "written" =>
    \A i \in Tools : \A args \in Arguments(i) :
      (\A j \in Tools : manifest[j].name = manifest[i].name =>
         /\ Guarded(j) # {} /\ Guarded(j) \subseteq DOMAIN args
         /\ \A param \in Guarded(j) :
              Legible(j, param) /\ Contented(Prop(j, param), args[param]))
      => Admitted(file, manifest[i].name, args)

(***************************************************************************)
(* The types of the state; the rules that wait to be added are those of    *)
(* the tool at hand, for parameters that were visited.                     *)
(***************************************************************************)
RuleShape(rule) ==
  /\ rule.ruleID # <<>>
  /\ rule.maxPerCall \in Int \cup {Unset} /\ rule.maxCumulative \in {DefaultMaxCumulative, Unset}
  /\ rule.condition.test \in {"none", "minimum", "enum", "pattern", "injection", "climbing"}

TypeOK ==
  /\ stage \in {"reading", "drafting", "written", "failed"}
  /\ manifest \in Manifests \cup {<<>>}
  /\ tool \in 1 .. Len(manifest) + 1
  /\ left \subseteq Parameters(manifest, tool)
  /\ \A i \in DOMAIN rules :
       /\ RuleShape(rules[i])
       /\ tool <= Len(manifest) /\ rules[i].toolPattern = manifest[tool].name
       /\ rules[i].valuePath \in Parameters(manifest, tool) \ left
  /\ \A i \in DOMAIN policy :
       RuleShape(policy[i]) /\ \E j \in 1 .. tool - 1 : policy[i].toolPattern = manifest[j].name
  /\ file \in {Previous, Torn, policy}
=============================================================================
