----------------------------- MODULE Extraction -----------------------------
(***************************************************************************)
(* Texts with placeholders, what they become when a request is built, and  *)
(* what is extracted from its answer (executor/variable_replacer.go,       *)
(* executor/extractor.go and the Resolve of config/variable.go).           *)
(*                                                                         *)
(* A text is a sequence of parts.  A part may be a placeholder, written    *)
(* {{.name}} or {{.api.name}} in the configuration; every other part       *)
(* stands for itself.  The parts of a value never form a placeholder.  A   *)
(* message (request or response) says what a JSON path, a pattern or a     *)
(* header name leads to in it: found is a function of pairs <<type, path>> *)
(* to texts.  Random values, times and the sequence number, which the      *)
(* templates offer too, are left out.                                      *)
(***************************************************************************)
EXTENDS Naturals, Sequences, SequencesExt, TLC

CONSTANTS
  Placeholders,       \* the placeholders
  Settings,           \* the configuration's own variables: a function of some placeholders to texts
  Malformed,          \* a part that is no placeholder and that no template may contain
  NoValue,            \* what a template prints for a name nobody set
  Compiles(_),        \* a pattern can be compiled
  Rendered(_, _),     \* what a transform's template makes of a value
  Called(_, _)        \* what a transform makes of a value by calling its function

ASSUME SettingsAssumption == DOMAIN Settings \subseteq Placeholders /\ Malformed \notin Placeholders

None == {}
NoVars == << >>   \* the empty function
NoPath == ""
NoText == << >>

-----------------------------------------------------------------------------
(* Resolving and replacing.                                                *)

IsTemplate(text) == \E i \in DOMAIN text : text[i] \in Placeholders \cup {Malformed}

\* Template execution, or no text if the template cannot be parsed.
Resolve(text) ==
  IF ~IsTemplate(text) THEN {text}
  ELSE IF \E i \in DOMAIN text : text[i] = Malformed THEN None
  ELSE {FlattenSeq([i \in DOMAIN text |->
          IF text[i] \notin Placeholders THEN <<text[i]>>
          ELSE IF text[i] \in DOMAIN Settings THEN Settings[text[i]] ELSE <<NoValue>>])}

replaceVars(text, vars) ==
  FlattenSeq([i \in DOMAIN text |-> IF text[i] \in DOMAIN vars THEN vars[text[i]] ELSE <<text[i]>>])

\* What Resolve makes of a text, or the text itself if Resolve fails.
ResolvedOr(text) == IF Resolve(text) = None THEN text ELSE CHOOSE resolved \in Resolve(text) : TRUE

\* Mutant: the dynamic variables first, as for the expectations of rules.
ResolveFirst(text, vars) == replaceVars(ResolvedOr(text), vars)

\* The URL, the header values and the body of a request.
ReplaceString(text, vars) == ResolvedOr(replaceVars(text, vars))

\* The expectation and the path of an API's own rule go the other way round: what is meant for
\* an extracted variable has become NoValue before the extracted variables are replaced.
ResolveExpectation(text, vars) == replaceVars(ResolvedOr(text), vars)

-----------------------------------------------------------------------------
(* Extractors: records [name, source, type, path, expression, transforms,  *)
(* default], where path is the JSON path, pattern or header name.          *)

TypeOf(cfg) == IF cfg.type = "" THEN "JSONPATH" ELSE cfg.type

createExtractor(cfg) ==
  CASE TypeOf(cfg) \in {"JSONPATH", "HEADER"} -> cfg.path # NoPath
    [] TypeOf(cfg) = "REGEX" -> cfg.path # NoPath /\ Compiles(cfg.path)
    [] TypeOf(cfg) = "EXPRESSION" -> cfg.expression # NoText /\ Malformed \notin ToSet(cfg.expression)
    [] OTHER -> FALSE

\* Where an extractor looks: in the request if it says so, in the response otherwise.
Source(cfg, ctx) == IF cfg.source = "request" THEN ctx.request ELSE ctx.response

Lookup(message, type, path) ==
  IF <<type, path>> \in DOMAIN message.found THEN {message.found[<<type, path>>]} ELSE None

extractJSONPath(cfg, ctx) == Lookup(Source(cfg, ctx), "JSONPATH", cfg.path)
extractRegex(cfg, ctx) == Lookup(Source(cfg, ctx), "REGEX", cfg.path)
extractHeader(cfg, ctx) == Lookup(Source(cfg, ctx), "HEADER", cfg.path)

\* An expression is a template over the variables of the pass, whose names have a dot in them:
\* {{.api.name}} leads to none of them.  {{index . "api.name"}}, a part <<"index", name>>, does,
\* or prints nothing.  Expressions call no other function of text/template here.
Indexed(part) == {name \in Placeholders : part = <<"index", name>>}

extractExpression(cfg, ctx) ==
  {FlattenSeq([i \in DOMAIN cfg.expression |->
     LET part == cfg.expression[i] IN
     IF part \in Placeholders THEN <<NoValue>>
     ELSE IF Indexed(part) = {} THEN <<part>>
     ELSE IF Indexed(part) \subseteq DOMAIN ctx.variables THEN ctx.variables[part[2]] ELSE << >>])}

Extract(cfg, ctx) ==
  CASE TypeOf(cfg) = "JSONPATH" -> extractJSONPath(cfg, ctx)
    [] TypeOf(cfg) = "REGEX" -> extractRegex(cfg, ctx)
    [] TypeOf(cfg) = "HEADER" -> extractHeader(cfg, ctx)
    [] TypeOf(cfg) = "EXPRESSION" -> extractExpression(cfg, ctx)

\* The functions a template may call, by what they take.
Signature(names, parameters) == [name \in names |-> parameters]

EnvTimeAndRandom ==
  Signature({"seq", "now", "unix", "unixTime", "unixNano", "timestamp", "randomUUID", "uuid",
             "randomBool", "randomEmail", "randomPhone", "randomIP", "randomMAC",
             "randomUserAgent", "randomName", "randomCity", "randomCountry", "randomColor",
             "randomHexColor", "randomDate", "randomTime", "randomDateTime", "randomIDCard"}, << >>)
  @@ Signature({"env", "date", "dateAdd"}, <<"text">>)
  @@ Signature({"randomString", "randomAlpha", "randomNumber"}, <<"number">>)
  @@ Signature({"randomInt", "randomFloat", "randomPrice"}, <<"number", "number">>)
  @@ Signature({"dateFormat"}, <<"time", "text">>)

TextNumberAndOther ==
  Signature({"localIP", "hostname"}, << >>)
  @@ Signature({"upper", "lower", "title", "trim", "reverse", "md5", "sha1", "sha256", "base64",
                "base64Decode", "urlEncode", "urlDecode", "hexEncode", "hexDecode", "toInt",
                "toFloat", "var"}, <<"text">>)
  @@ Signature({"trimPrefix", "trimSuffix", "split", "contains", "hasPrefix", "hasSuffix"}, <<"text", "text">>)
  @@ Signature({"replace"}, <<"text", "text", "text">>)
  @@ Signature({"join"}, <<"texts", "text">>)
  @@ Signature({"substr"}, <<"text", "number", "number">>)
  @@ Signature({"repeat"}, <<"text", "number">>)
  @@ Signature({"add", "sub", "mul", "div", "mod", "max", "min", "pow"}, <<"number", "number">>)
  @@ Signature({"abs", "sqrt", "ceil", "floor", "round"}, <<"number">>)
  @@ Signature({"ternary"}, <<"truth", "any", "any">>)
  @@ Signature({"default"}, <<"any", "any">>)
  @@ Signature({"toString"}, <<"any">>)

funcMap == EnvTimeAndRandom @@ TextNumberAndOther

\* The functions that text/template has itself take so many texts.
BuiltinTakes(function, n) ==
  CASE function \in {"and", "or", "print", "printf", "println", "html", "js", "urlquery"} -> n >= 1
    [] function \in {"not", "len", "index", "slice"} -> n = 1
    [] function \in {"ne", "lt", "le", "gt", "ge"} -> n = 2
    [] function = "eq" -> n >= 2
    [] OTHER -> FALSE

\* A template goes before a function, and knows only the functions that text/template has: calls
\* says that it calls another.  A function is given the value and its arguments as texts, so it
\* fails if it takes anything else, or another number of them.  Without either the value stays
\* as it is.
applyTransform(value, transform) ==
  IF transform.template # "" THEN IF transform.calls THEN None ELSE {Rendered(transform.template, value)}
  ELSE IF transform.function # ""
  THEN IF IF transform.function \in DOMAIN funcMap
          THEN /\ Len(funcMap[transform.function]) = 1 + Len(transform.args)
               /\ ToSet(funcMap[transform.function]) \subseteq {"text", "any"}
          ELSE BuiltinTakes(transform.function, 1 + Len(transform.args))
       THEN {Called(transform, value)} ELSE None
  ELSE {value}

\* One transform after the other, until one fails: a set of none or one value.
Apply(value, transforms) ==
  FoldLeft(LAMBDA values, transform : UNION {applyTransform(v, transform) : v \in values},
           {value}, transforms)

-----------------------------------------------------------------------------
(* All extractors of an API.  They are kept under their names in three     *)
(* maps, so of several with one name each map has the last entry written.  *)

Names(extractors) == {extractors[i].name : i \in DOMAIN extractors}
LastWith(extractors, name, Has(_)) ==
  LET places == {i \in DOMAIN extractors : extractors[i].name = name /\ Has(extractors[i])}
  IN {extractors[i] : i \in {i \in places : \A j \in places : j <= i}}

HasDefault(cfg) == cfg.default # NoText
HasTransforms(cfg) == cfg.transforms # << >>

\* The value of a name: a default only if nothing was found, a failed transform is ignored.
ValueOf(extractors, name, ctx) ==
  LET extractor == CHOOSE cfg \in LastWith(extractors, name, LAMBDA cfg : TRUE) : TRUE
      found == Extract(extractor, ctx)
      transforms == {cfg.transforms : cfg \in LastWith(extractors, name, HasTransforms)}
      transformed == UNION {Apply(value, ts) : value \in found, ts \in transforms}
  IN IF found = None THEN {cfg.default : cfg \in LastWith(extractors, name, HasDefault)}
     ELSE IF transformed = None THEN found ELSE transformed

\* The extracted variables, by name.
ExtractAll(extractors, ctx) ==
  LET has == {name \in Names(extractors) : ValueOf(extractors, name, ctx) # None}
  IN [name \in has |-> CHOOSE value \in ValueOf(extractors, name, ctx) : TRUE]

\* One extractor that cannot be created leaves the API without variables.
NewExtractorManager(extractors) == \A i \in DOMAIN extractors : createExtractor(extractors[i])

extractAndStore(extractors, ctx) ==
  IF NewExtractorManager(extractors) THEN ExtractAll(extractors, ctx) ELSE NoVars
=============================================================================
