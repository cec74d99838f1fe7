------------------------------- MODULE Verify -------------------------------
(***************************************************************************)
(* What the rules of a configuration make of a response (verify/builtin.go *)
(* and registry.go).  A rule is checked by HTTPVerifier.Verify, which      *)
(* answers whether the response passes and appends what it did to the      *)
(* response's list of verifications.                                       *)
(*                                                                         *)
(* A text is a sequence of characters.  A body is a text, which may be a   *)
(* JSON document: then some paths lead to values.  Number syntax, the      *)
(* formats, regular expressions and JSON schemas belong to libraries, and  *)
(* are parameters.  Messages are left out.                                 *)
(***************************************************************************)
EXTENDS Integers, SequencesExt, FiniteSetsExt

CONSTANTS
  Blank,             \* the white-space character
  Numeral(_),        \* strconv.Atoi: the numbers, none or one, that a text denotes
  Formatted(_),          \* fmt's %v of an expectation that is no text
  WellFormed(_, _),  \* validator: a text has a format, matches a pattern
  Conforms(_, _)     \* validator: a body satisfies a JSON schema

NoPath == ""
NoOperator == ""

\* A rule: its type, its path (a header name for HEADER), operator, regex flag, and
\* expectation, tagged with the Go type that the configuration's decoder gave it.
\* A response: whether it carries an error, its status, body and headers.
Content == {"JSONPATH", "CONTAINS", "REGEX", "JSON_SCHEMA", "JSON_VALID", "HEADER", "EMAIL", "IP",
            "URL", "UUID", "BASE64", "LENGTH", "PREFIX", "SUFFIX", "EMPTY", "NOT_EMPTY"}
Formats == {"EMAIL", "IP", "URL", "UUID", "BASE64"}

\* The types that init registers; Get refuses any other.
Registered == Content \cup {"STATUS_CODE", "RESPONSE_TIME", "RESPONSE_SIZE"}

-----------------------------------------------------------------------------
(* The validator library.                                                  *)

CompareNumbers(a, b, op) ==
  \/ op = "eq" /\ a = b
  \/ op = "ne" /\ a # b
  \/ op = "gt" /\ a > b
  \/ op = "gte" /\ a >= b
  \/ op = "lt" /\ a < b
  \/ op = "lte" /\ a <= b

ValidateString(text, other, op) ==
  \/ op = "eq" /\ text = other
  \/ op = "ne" /\ text # other
  \/ op = "contains" /\ \E i \in 0 .. Len(text) : IsPrefix(other, SubSeq(text, i + 1, Len(text)))
  \/ op = "hasPrefix" /\ IsPrefix(other, text)
  \/ op = "hasSuffix" /\ IsSuffix(other, text)
  \/ op = "empty" /\ text = << >>
  \/ op = "notEmpty" /\ text # << >>
  \/ op = "regex" /\ WellFormed(other, text)

PathExists(resp, path) == resp.json /\ path \in DOMAIN resp.fields

-----------------------------------------------------------------------------
(* The verdict: whether the response passes, and the success flags of the  *)
(* entries appended to its verifications.                                  *)

Silently(ok) == [ok |-> ok, recorded |-> << >>]
Recorded(ok) == [ok |-> ok, recorded |-> <<ok>>]

\* Mutant: redirections count as success.
Below400(resp) == resp.status >= 200 /\ resp.status < 400

\* All rules about the content fail a response outside 2xx, and say so.
Succeeded(resp) == resp.status >= 200 /\ resp.status < 300

Operator(rule, default) == IF rule.operator = NoOperator THEN default ELSE rule.operator
IsNumber(expect) == expect.kind \in {"int", "float64"}

\* The value at the path if one is configured, or the whole body.  A path that leads nowhere
\* fails the rule; Check is the test of the value.
ValueToCheck(rule, resp, Check(_)) ==
  IF rule.jsonpath = NoPath THEN Check(resp.body)
  ELSE PathExists(resp, rule.jsonpath) /\ Check(resp.fields[rule.jsonpath])

\* 200, unless a number is expected, or a text that denotes one.
ExpectedCode(expect) ==
  IF IsNumber(expect) THEN expect.number
  ELSE IF expect.kind = "string" /\ Numeral(expect.text) # {}
       THEN CHOOSE n \in Numeral(expect.text) : TRUE
  ELSE 200

verifyStatusCode(rule, resp) ==
  Recorded(CompareNumbers(resp.status, ExpectedCode(rule.expect), Operator(rule, "eq")))

\* Without an expectation the path only has to exist.
verifyJSONPath(rule, resp) ==
  LET op == IF rule.regex THEN "regex" ELSE Operator(rule, "eq")
  IN Recorded(/\ Succeeded(resp)
              /\ PathExists(resp, rule.jsonpath)
              /\ rule.expect.kind # "nil" =>
                   ValidateString(resp.fields[rule.jsonpath],
                                  IF rule.expect.kind = "string" THEN rule.expect.text
                                  ELSE Formatted(rule.expect), op))

verifyContains(rule, resp) ==
  Recorded(/\ Succeeded(resp) /\ rule.expect.kind = "string"
           /\ ValidateString(resp.body, rule.expect.text, "contains"))

verifyRegex(rule, resp) ==
  Recorded(/\ Succeeded(resp) /\ rule.expect.kind = "string"
           /\ ValidateString(resp.body, rule.expect.text, "regex"))

verifyJSONSchema(rule, resp) ==
  Recorded(Succeeded(resp) /\ rule.expect.kind = "object" /\ Conforms(resp, rule.expect))

verifyJSONValid(resp) == Recorded(Succeeded(resp) /\ resp.json)

\* A header that is missing counts as empty.
verifyHeader(rule, resp) ==
  LET actual == IF rule.jsonpath \in DOMAIN resp.headers THEN resp.headers[rule.jsonpath] ELSE << >>
      expected == IF rule.expect.kind = "string" THEN rule.expect.text ELSE Formatted(rule.expect)
  IN Recorded(/\ Succeeded(resp) /\ rule.jsonpath # NoPath
              /\ ValidateString(actual, expected, Operator(rule, "eq")))

\* The time that is compared is the constant zero, not the response's duration.
verifyResponseTime(rule) ==
  Recorded(IsNumber(rule.expect) /\ CompareNumbers(0, rule.expect.number, Operator(rule, "lte")))

verifyResponseSize(rule, resp) ==
  Recorded(/\ IsNumber(rule.expect)
           /\ CompareNumbers(Len(resp.body), rule.expect.number, Operator(rule, "eq")))

TrimSpace(text) ==
  LET solid == {i \in DOMAIN text : text[i] # Blank}
  IN IF solid = {} THEN << >> ELSE SubSeq(text, Min(solid), Max(solid))

\* The body is trimmed, a value at a path is not.
verifyFormat(rule, resp) ==
  Recorded(/\ Succeeded(resp)
           /\ IF rule.jsonpath = NoPath THEN WellFormed(rule.type, TrimSpace(resp.body))
              ELSE /\ PathExists(resp, rule.jsonpath)
                   /\ WellFormed(rule.type, resp.fields[rule.jsonpath]))

verifyEmail(rule, resp) == verifyFormat(rule, resp)
verifyIP(rule, resp) == verifyFormat(rule, resp)
verifyURL(rule, resp) == verifyFormat(rule, resp)
verifyUUID(rule, resp) == verifyFormat(rule, resp)
verifyBase64(rule, resp) == verifyFormat(rule, resp)

verifyLength(rule, resp) ==
  LET Check(text) == CompareNumbers(Len(text), rule.expect.number, Operator(rule, "eq"))
  IN Recorded(Succeeded(resp) /\ IsNumber(rule.expect) /\ ValueToCheck(rule, resp, Check))

verifyPrefix(rule, resp) ==
  LET Check(text) == ValidateString(text, rule.expect.text, "hasPrefix")
  IN Recorded(Succeeded(resp) /\ rule.expect.kind = "string" /\ ValueToCheck(rule, resp, Check))

verifySuffix(rule, resp) ==
  LET Check(text) == ValidateString(text, rule.expect.text, "hasSuffix")
  IN Recorded(Succeeded(resp) /\ rule.expect.kind = "string" /\ ValueToCheck(rule, resp, Check))

verifyEmpty(rule, resp) ==
  LET Check(text) == ValidateString(text, << >>, "empty")
  IN Recorded(Succeeded(resp) /\ ValueToCheck(rule, resp, Check))

verifyNotEmpty(rule, resp) ==
  LET Check(text) == ValidateString(text, << >>, "notEmpty")
  IN Recorded(Succeeded(resp) /\ ValueToCheck(rule, resp, Check))

\* A type without a case passes, and leaves no entry.
CheckRule(rule, resp) ==
  CASE rule.type = "STATUS_CODE" -> verifyStatusCode(rule, resp)
    [] rule.type = "JSONPATH" -> verifyJSONPath(rule, resp)
    [] rule.type = "CONTAINS" -> verifyContains(rule, resp)
    [] rule.type = "REGEX" -> verifyRegex(rule, resp)
    [] rule.type = "JSON_SCHEMA" -> verifyJSONSchema(rule, resp)
    [] rule.type = "JSON_VALID" -> verifyJSONValid(resp)
    [] rule.type = "HEADER" -> verifyHeader(rule, resp)
    [] rule.type = "RESPONSE_TIME" -> verifyResponseTime(rule)
    [] rule.type = "RESPONSE_SIZE" -> verifyResponseSize(rule, resp)
    [] rule.type = "EMAIL" -> verifyEmail(rule, resp)
    [] rule.type = "IP" -> verifyIP(rule, resp)
    [] rule.type = "URL" -> verifyURL(rule, resp)
    [] rule.type = "UUID" -> verifyUUID(rule, resp)
    [] rule.type = "BASE64" -> verifyBase64(rule, resp)
    [] rule.type = "LENGTH" -> verifyLength(rule, resp)
    [] rule.type = "PREFIX" -> verifyPrefix(rule, resp)
    [] rule.type = "SUFFIX" -> verifySuffix(rule, resp)
    [] rule.type = "EMPTY" -> verifyEmpty(rule, resp)
    [] rule.type = "NOT_EMPTY" -> verifyNotEmpty(rule, resp)
    [] OTHER -> Silently(TRUE)

\* A response that carries an error fails before any rule is looked at.
Verify(rule, resp) == IF resp.error THEN Silently(FALSE) ELSE CheckRule(rule, resp)

-----------------------------------------------------------------------------
(* Properties of the rules, over given sets of them and of responses.      *)

\* What holds of all rules together: a verdict is what was recorded, and every known type
\* records once; no rule on the content passes outside 2xx; of two opposite rules exactly one
\* passes where either applies; a prefix or suffix is contained; padding a body does not
\* change its format; and an expectation of the wrong type never passes.
RulesAgree(Rules, Responses) ==
  \A rule \in Rules, resp \in Responses :
    LET v == Verify(rule, resp)
        Other(type) == Verify([rule EXCEPT !.type = type], resp).ok
        With(op) == Verify([rule EXCEPT !.operator = op], resp).ok
    IN /\ resp.error => ~v.ok
       /\ v.recorded = IF resp.error \/ rule.type \notin Registered THEN << >> ELSE <<v.ok>>
       /\ v.ok /\ rule.type \in Content => Succeeded(resp) /\ resp.status < 300
       /\ rule.type = "EMPTY" /\ Succeeded(resp) /\ ~resp.error /\ rule.jsonpath = NoPath =>
            (v.ok <=> ~Other("NOT_EMPTY"))
       /\ rule.type = "STATUS_CODE" /\ ~resp.error =>
            /\ With("eq") <=> ~With("ne")
            /\ With("gte") <=> With("gt") \/ With("eq")
            /\ rule.expect.kind \notin {"int", "float64", "string"} => With("eq") = (resp.status = 200)
            /\ rule.expect.kind = "string" /\ Numeral(rule.expect.text) = {} =>
                 With("eq") = (resp.status = 200)
       /\ v.ok /\ rule.type \in {"PREFIX", "SUFFIX"} /\ rule.jsonpath = NoPath => Other("CONTAINS")
       /\ v.ok /\ rule.type \in {"CONTAINS", "REGEX", "PREFIX", "SUFFIX"} => rule.expect.kind = "string"
       /\ v.ok /\ rule.type \in {"RESPONSE_TIME", "RESPONSE_SIZE", "LENGTH"} => IsNumber(rule.expect)
       /\ rule.type \in Formats /\ rule.jsonpath = NoPath =>
            v.ok = Verify(rule, [resp EXCEPT !.body = <<Blank>> \o @ \o <<Blank>>]).ok
=============================================================================
