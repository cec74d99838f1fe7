------------------------------- MODULE Config -------------------------------
(***************************************************************************)
(* From a source of configuration to a configuration that is run           *)
(* (config/loader.go, config.go, curl.go; executor/runner.go: loadConfig   *)
(* and validateConfig; main.go: the flags).                                *)
(*                                                                         *)
(* A text is a sequence of parts, empty if it is << >>.  Only what is      *)
(* merged, defaulted, overridden or checked is kept of a configuration: a  *)
(* duration is its number of seconds, a list of rules a text.  A file that *)
(* was unmarshalled is the record of what it sets over DefaultConfig.      *)
(***************************************************************************)
EXTENDS Integers, SequencesExt, FiniteSetsExt, Functions

NoText == << >>
Null == << >>   \* a nil pointer
Status200 == <<"status 200">>

\* What a step of loading answers when it fails: the error, or a panic.
Failed(why) == [error |-> why]
Ok(config) == "error" \notin DOMAIN config

DefaultConfig ==
  [protocol |-> "http", concurrency |-> 1, requests |-> 1, duration |-> 0, timeout |-> 30,
   host |-> NoText, url |-> NoText, method |-> <<"GET">>, headers |-> [k \in {} |-> NoText],
   body |-> NoText, apis |-> << >>, verify |-> Status200,
   grpc |-> [reflection |-> FALSE, proto |-> NoText, service |-> NoText, method |-> NoText]]

\* What is set, over the rest: f @@ g, in a form that can be reasoned about.
Overlay(sets, rest) ==
  [k \in DOMAIN sets \cup DOMAIN rest |-> IF k \in DOMAIN sets THEN sets[k] ELSE rest[k]]

IfEmpty(text, other) == IF text = NoText THEN other ELSE text

-----------------------------------------------------------------------------
(* The loader.                                                             *)

\* The own host or the common one, then the path; the common URL only without either.
buildAPIURL(api, config) ==
  IfEmpty(IfEmpty(api.host, config.host) \o api.path, config.url)

\* Mutant: the common headers win.
CommonHeadersWin(common, specific) == Overlay(common, specific)

\* The headers of the API win.
mergeHeaders(common, specific) == Overlay(specific, common)

Merged(api, config) ==
  [api EXCEPT !.url = IfEmpty(@, buildAPIURL(api, config)),
              !.method = IfEmpty(@, IfEmpty(config.method, <<"GET">>)),
              !.body = IfEmpty(@, config.body),
              !.headers = mergeHeaders(config.headers, @),
              !.verify = IF @ = << >> THEN config.verify ELSE @,
              !.weight = IF @ = 0 THEN 1 ELSE @]

\* APIs are merged one by one: one without a URL is an error, one without rules under a
\* configuration whose verify is null dereferences nil.
mergeAPIsWithCommon(config) ==
  LET URL(i) == IfEmpty(config.apis[i].url, buildAPIURL(config.apis[i], config))
      Stops == {i \in DOMAIN config.apis :
                  URL(i) = NoText \/ (config.apis[i].verify = << >> /\ config.verify = Null)}
  IN IF Stops = {} THEN [config EXCEPT !.apis = [i \in DOMAIN @ |-> Merged(@[i], config)]]
     ELSE Failed(IF URL(Min(Stops)) = NoText THEN "api url" ELSE "panic")

\* The first problem found.
validate(config) ==
  CASE config.apis = << >> /\ config.url = NoText -> "url"
    [] config.concurrency = 0 -> "concurrency"
    [] config.requests = 0 /\ config.duration = 0 -> "requests"
    [] config.protocol = "grpc" /\ \/ config.grpc = Null
                                   \/ ~config.grpc.reflection /\ config.grpc.proto = NoText
                                   \/ NoText \in {config.grpc.service, config.grpc.method} -> "grpc"
    [] OTHER -> ""

processConfig(config) ==
  LET merged == mergeAPIsWithCommon(config)
  IN IF ~Ok(merged) THEN merged
     ELSE IF validate(merged) # "" THEN Failed(validate(merged)) ELSE merged

\* A file: [format, parses, sets], the format being its extension.
LoadFromBytes(file) ==
  IF file.format \notin {"yaml", "yml", "json"} THEN Failed("format")
  ELSE IF ~file.parses THEN Failed("parse")
  ELSE processConfig(Overlay(file.sets, DefaultConfig))

-----------------------------------------------------------------------------
(* A curl command.  It is a list of lines, each [words, continues]; a word *)
(* is [quote, text, holds]: how it is quoted, what it says, and which      *)
(* options' names occur inside its text.  Quotes are "none", "single",     *)
(* "double" and "^", a double quote escaped the way of Windows.            *)

\* More than twice as many carets as backslashes: two carets of each escaped quote, and one of
\* each line continued by "^".
detectCurlStyle(lines) ==
  LET Continued(by) == Cardinality({i \in DOMAIN lines : lines[i].continues = by})
      Escaped == FoldLeft(LAMBDA n, line : n + Cardinality({j \in DOMAIN line.words : line.words[j].quote = "^"}),
                          0, lines)
  IN IF 2 * Escaped + Continued("^") > 2 * Continued("backslash") THEN "windows" ELSE "unix"

\* The lines in one.  What ends a continued line is cut; what the other style escapes stays.
normalizeCommand(lines) ==
  LET words == FlattenSeq([i \in DOMAIN lines |-> lines[i].words])
  IN IF detectCurlStyle(lines) = "unix" THEN words
     ELSE [i \in DOMAIN words |-> [words[i] EXCEPT !.quote = IF @ = "^" THEN "double" ELSE @]]

\* The names of the options contain each other.
Mentions(word, name) ==
  \/ /\ word.quote = "none"
     /\ \/ word.text = <<name>>
        \/ word.text[1] \in {"--data-raw", "--data-binary"} /\ name = "--data"
        \/ word.text[1] \in {"--data-raw", "--data-binary", "--data"} /\ name = "-d"
  \/ name \in word.holds

Options == {"-H", "--header", "-X", "--request", "-d", "--data", "--data-raw", "--data-binary",
            "--url", "-k", "--insecure", "--compressed"}
IsOption(word) == word.quote = "none" /\ Head(word.text) \in Options
Quoted(word) == word.quote \in {"single", "double"}

\* What the patterns of an option match: the word after it.
After(words, option) ==
  {i \in 2 .. Len(words) : words[i - 1].quote = "none" /\ words[i - 1].text = <<option>>}

\* The first of the patterns that matches: the word after curl, then the one after --url.
URLIndexes(words) ==
  LET Fits(i) == Quoted(words[i]) \/ ~IsOption(words[i])
      first == {i \in After(words, "curl") : Fits(i)}
  IN IF first # {} THEN first ELSE {i \in After(words, "--url") : Fits(i)}

\* Only quoted headers are seen; of the same key, the last match of the last pattern counts,
\* single quotes before double ones and -H before --header.
parseHeaders(words) ==
  LET found == {i \in After(words, "-H") \cup After(words, "--header") :
                  Quoted(words[i]) /\ Len(words[i].text) = 2}
      Pattern(i) == (IF i \in After(words, "-H") THEN 0 ELSE 2) + IF words[i].quote = "single" THEN 0 ELSE 1
      Key(i) == words[i].text[1]
      Latest(key) == CHOOSE i \in found : /\ Key(i) = key
                                          /\ \A j \in found : Key(j) = key /\ j # i =>
                                               \/ Pattern(j) < Pattern(i)
                                               \/ Pattern(j) = Pattern(i) /\ j < i
  IN [key \in {Key(i) : i \in found} |-> <<words[Latest(key)].text[2]>>]

\* A text whose parts are replaced by what a table has for them.
Translate(text, table) ==
  [i \in DOMAIN text |-> IF text[i] \in DOMAIN table THEN table[text[i]] ELSE text[i]]

\* The parts of a method that are in small letters, and the same in capitals.
Capitals == [small \in {"post", "put", "delete"} |->
              CASE small = "post" -> "POST" [] small = "put" -> "PUT" [] OTHER -> "DELETE"]
ToUpper(text) == Translate(text, Capitals)
LeadingCapitals(text) ==
  LET small == {i \in DOMAIN text : text[i] \in DOMAIN Capitals}
  IN IF small = {} THEN text ELSE SubSeq(text, 1, Min(small) - 1)

\* What the patterns take as a method of a word: all of a quoted one, in capitals, but of a bare
\* word only the capitals it begins with, so that "-X post" is not seen.
Method(word) ==
  IF Quoted(word) THEN ToUpper(word.text)
  ELSE IF word.quote = "none" /\ ~IsOption(word) THEN LeadingCapitals(word.text) ELSE NoText

\* The first match of the first pattern, -X before --request and single quotes before double ones
\* before none; without one, POST if some word has "--data" in it.
parseMethod(words) ==
  LET found == {i \in After(words, "-X") \cup After(words, "--request") : Method(words[i]) # NoText}
      Pattern(i) == (IF i \in After(words, "-X") THEN 0 ELSE 3)
                      + CASE words[i].quote = "single" -> 0 [] words[i].quote = "double" -> 1 [] OTHER -> 2
      first == CHOOSE i \in found :
                 \A j \in found : Pattern(i) < Pattern(j) \/ (Pattern(i) = Pattern(j) /\ i <= j)
  IN IF found # {} THEN Method(words[first])
     ELSE IF \E i \in DOMAIN words : Mentions(words[i], "--data") THEN <<"POST">> ELSE <<"GET">>

\* Within double quotes an escape is a part of its own.  "escaped a:1" is a member of a JSON
\* object whose quotes are escaped.  The shell knows escapes of quotes and of backslashes.
QuoteEscapes == [part \in {"escaped quote", "escaped backslash", "escaped a:1"} |->
                  CASE part = "escaped quote" -> "quote" [] part = "escaped backslash" -> "backslash" [] OTHER -> "a:1"]
ControlEscapes == [part \in {"escaped n", "escaped t"} |-> IF part = "escaped n" THEN "newline" ELSE "tab"]
unescapeJSON(text) == Translate(text, Overlay(QuoteEscapes, ControlEscapes))

\* In single quotes as it is, in double ones unescaped; a quote that was escaped the way of
\* Windows, in a command read as one of Unix, leaves its caret.
extractQuotedContent(word) ==
  CASE word.quote = "single" -> word.text
    [] word.quote = "double" -> unescapeJSON(word.text)
    [] OTHER -> unescapeJSON(word.text) \o <<"^">>

\* A JSON object is unmarshalled and marshalled again: every member once, in the order of their
\* names, and numbers as what a float64 makes of them.
IsJSON(text) == Len(text) >= 2 /\ text[1] = "{" /\ text[Len(text)] = "}"
Members(text) == {text[i] : i \in 2 .. Len(text) - 1}
AsFloat(member) == IF member = "n:9007199254740993" THEN "n:9007199254740992" ELSE member
formatJSONIfPossible(text) ==
  IF IsJSON(text) THEN <<"{">> \o SetToSeq({AsFloat(m) : m \in Members(text)}) \o <<"}">> ELSE text

\* From the first occurrence of the first name that occurs, wherever that is, the next text
\* in quotes: within a quoted word that is what lies between its end and the next quote.
parseBody(words) ==
  LET Occurs(name) == {i \in DOMAIN words : Mentions(words[i], name)}
      name == IF Occurs("--data-raw") # {} THEN "--data-raw"
              ELSE IF Occurs("--data") # {} THEN "--data" ELSE "-d"
      from == Min(Occurs(name))
      later == {i \in from + 1 .. Len(words) : words[i].quote # "none"}
  IN IF Occurs(name) = {} THEN NoText
     ELSE IF words[from].quote # "none" THEN <<"between quotes">>
     ELSE IF later = {} THEN NoText ELSE formatJSONIfPossible(extractQuotedContent(words[Min(later)]))

\* The configuration of a command has no rules of verification, and neither workers nor
\* requests.
NewCurlParser(lines) ==
  LET words == normalizeCommand(lines)
      url == words[Min(URLIndexes(words))].text
  IN IF URLIndexes(words) = {} THEN Failed("url")
     ELSE [DefaultConfig EXCEPT
             !.url = url, !.headers = parseHeaders(words), !.method = parseMethod(words),
             !.body = parseBody(words),
             !.protocol = IF Head(url) \in {"ws://", "wss://"} THEN "websocket" ELSE "http",
             !.concurrency = 0, !.requests = 0, !.timeout = 0, !.verify = Null, !.grpc = Null]

-----------------------------------------------------------------------------
(* RunTask: the source of the configuration, and its own checks.           *)

\* What the flags are when the command line does not set them.
FlagDefaults ==
  [protocol |-> "http", concurrency |-> 1, requests |-> 1, url |-> NoText, method |-> <<"GET">>,
   timeout |-> 30, body |-> NoText, headers |-> << >>, storage |-> "memory",
   grpc |-> DefaultConfig.grpc]

\* The first colon ends the name; a header without one is dropped, the last of a name counts.
parseHeader(header, headers) ==
  IF Len(header) = 2 THEN Overlay([k \in {header[1]} |-> <<header[2]>>], headers) ELSE headers

\* The flags leave the rest of DefaultConfig as it is.
buildConfigFromFlags(flags) ==
  [DefaultConfig EXCEPT
     !.protocol = flags.protocol, !.concurrency = flags.concurrency, !.requests = flags.requests,
     !.url = flags.url, !.method = flags.method, !.timeout = flags.timeout, !.body = flags.body,
     !.headers = FoldLeft(LAMBDA all, h : parseHeader(h, all), [k \in {} |-> NoText], flags.headers),
     !.grpc = IF flags.protocol = "grpc" THEN flags.grpc ELSE @]

\* A curl file comes first, then a configuration file, then the flags.  Only the curl file's
\* configuration is overridden by the flags, whose defaults are not zero: it always is.  The
\* flags do nothing to a configuration file, against CLI_REFERENCE.md (112-122: "-config
\* config.yaml -c 100" runs 100 workers) and runner.go (36-38: they can override it).
loadConfig(opts) ==
  IF opts.curl # Null
  THEN LET parsed == NewCurlParser(opts.curl)
           Over(flag, value) == IF flag > 0 THEN flag ELSE value
       IN IF ~Ok(parsed) THEN parsed
          ELSE [parsed EXCEPT !.concurrency = Over(opts.flags.concurrency, @),
                              !.requests = Over(opts.flags.requests, @),
                              !.timeout = Over(opts.flags.timeout, @)]
  ELSE IF opts.file # Null THEN LoadFromBytes(opts.file)
  ELSE buildConfigFromFlags(opts.flags)

\* Stricter than the loader: a configuration with a duration and no requests is refused.
validateConfig(config) ==
  CASE config.apis = << >> /\ config.url = NoText -> "url"
    [] config.concurrency = 0 -> "concurrency"
    [] config.requests = 0 -> "requests"
    [] /\ config.protocol \in {"http", "grpc"} /\ config.grpc # Null
       /\ config.grpc.reflection /\ NoText \in {config.grpc.service, config.grpc.method} -> "grpc"
    [] OTHER -> ""

\* The storage mode, too, is one of three.
prepareStoragePath(mode) == mode \in {"memory", "sqlite", "badger"}

RunConfig(opts) ==
  LET config == loadConfig(opts)
  IN IF ~Ok(config) THEN config
     ELSE IF validateConfig(config) # "" THEN Failed(validateConfig(config))
     ELSE IF ~prepareStoragePath(opts.flags.storage) THEN Failed("storage") ELSE config

\* The master builds a task of a configuration it loaded; what it sends to the slaves is that
\* configuration.
buildTask(config) ==
  [target |-> config.url, totalWorkers |-> config.concurrency,
   duration |-> IF config.duration > 0 \/ config.requests = 0 THEN config.duration
                ELSE IF config.requests < config.concurrency THEN 60
                ELSE config.requests \div config.concurrency]

-----------------------------------------------------------------------------
(* Properties.                                                             *)

\* A configuration is ready to run: workers, requests, and for every request a URL, a method
\* and a weight.
Runnable(config) ==
  /\ config.concurrency > 0 /\ config.requests > 0
  /\ config.apis = << >> => config.url # NoText
  /\ \A i \in DOMAIN config.apis :
       LET api == config.apis[i]
       IN api.url # NoText /\ api.method # NoText /\ api.weight > 0 /\ api.verify # << >>

\* What an API has of its own is kept, the rest is common; loading what was loaded changes
\* nothing, as when the master's configuration is loaded again.
MergesSoundly(file) ==
  LET config == Overlay(file.sets, DefaultConfig)
      merged == LoadFromBytes(file)
  IN Ok(merged) =>
       /\ \A i \in DOMAIN config.apis :
            LET own == config.apis[i]
                api == merged.apis[i]
            IN /\ own.url # NoText => api.url = own.url
               /\ own.url = NoText /\ own.path # NoText => IsSuffix(own.path, api.url)
               /\ own.url = NoText /\ own.host # NoText => IsPrefix(own.host, api.url)
               /\ \A k \in DOMAIN own.headers : api.headers[k] = own.headers[k]
               /\ DOMAIN api.headers = DOMAIN own.headers \cup DOMAIN config.headers
               /\ own.body # NoText => api.body = own.body
       /\ processConfig(merged) = merged
       /\ buildTask(merged).duration > 0 /\ buildTask(merged).totalWorkers > 0

Values(words, options) == UNION {After(words, o) : o \in options}
DataOptions == {"-d", "--data", "--data-raw", "--data-binary"}
MethodOptions == {"-X", "--request"}
HeaderOptions == {"-H", "--header"}

\* A command that has the URL first or after --url, whose options are followed by their values,
\* in quotes unless it is a URL or a method, with at most one body and one method, the method in
\* capitals, each header once, no option's name inside a value, escapes in bodies only, of quotes
\* and backslashes, and a method where it has -d.
Simple(words) ==
  /\ \A i \in DOMAIN words :
       /\ words[i].holds = {} /\ words[i].quote # "^"
       /\ IsOption(words[i]) /\ Head(words[i].text) \notin {"-k", "--insecure", "--compressed"} =>
            /\ Len(words[i].text) = 1 /\ i < Len(words)
            /\ \/ Quoted(words[i + 1])
               \/ Head(words[i].text) \in {"-X", "--request", "--url"} /\ ~IsOption(words[i + 1])
       /\ \A k \in DOMAIN words[i].text :
            /\ words[i].text[k] \notin DOMAIN ControlEscapes
            /\ words[i].text[k] \in DOMAIN QuoteEscapes => i \in Values(words, DataOptions)
  /\ \A i, j \in Values(words, DataOptions) : i = j
  /\ \A i, j \in Values(words, MethodOptions) : i = j
  /\ \A i \in Values(words, MethodOptions) :
       \A k \in DOMAIN words[i].text : words[i].text[k] \notin DOMAIN Capitals
  /\ \A i, j \in Values(words, HeaderOptions) :
       Len(words[i].text) = 2 /\ (words[i].text[1] = words[j].text[1] => i = j)
  /\ After(words, "-d") # {} => Values(words, MethodOptions) # {}

\* The shell's and curl's own reading of such a command.
Curl(words) ==
  LET Text(indexes) == IF indexes = {} THEN NoText ELSE words[Min(indexes)].text
      first == {i \in After(words, "curl") : ~IsOption(words[i])}
      Data == Values(words, DataOptions)
      Unquoted(word) == IF word.quote = "double" THEN Translate(word.text, QuoteEscapes) ELSE word.text
      Header(key) == CHOOSE i \in Values(words, HeaderOptions) : words[i].text[1] = key
  IN [url |-> Text(IF first # {} THEN first ELSE After(words, "--url")),
      body |-> IF Data = {} THEN NoText ELSE Unquoted(words[Min(Data)]),
      headers |-> [key \in {words[i].text[1] : i \in Values(words, HeaderOptions)} |-> <<words[Header(key)].text[2]>>],
      method |-> IF Values(words, MethodOptions) # {} THEN Text(Values(words, MethodOptions))
                 ELSE IF Data # {} THEN <<"POST">> ELSE <<"GET">>]

\* The body is sent as it was given, unless it is a JSON object: that is sent with the members it
\* was given, in any order, but with numbers as a float64 holds them.
SameBody(sent, given) ==
  IF IsJSON(given) THEN IsJSON(sent) /\ Members(sent) = {AsFloat(m) : m \in Members(given)}
  ELSE sent = given

ReadsLikeCurl(lines) ==
  LET config == NewCurlParser(lines)
      words == normalizeCommand(lines)
      curl == Curl(words)
  IN Ok(config) /\ Simple(words) =>
       /\ config.url = curl.url /\ config.method = curl.method
       /\ config.headers = curl.headers /\ SameBody(config.body, curl.body)

\* A curl command with a URL, or a URL alone, runs one worker's one request within 30 seconds.
DefaultsSuffice(lines) ==
  LET parsed == NewCurlParser(lines)
      Sources == {[curl |-> lines, file |-> Null, flags |-> FlagDefaults],
                  [curl |-> Null, file |-> Null, flags |-> [FlagDefaults EXCEPT !.url = parsed.url]]}
  IN Ok(parsed) =>
       \A config \in {RunConfig(opts) : opts \in Sources} :
         Ok(config) /\ config.concurrency = 1 /\ config.requests = 1 /\ config.timeout = 30

\* Whatever the source, RunTask runs a runnable configuration or returns an error (only a
\* null verify makes it panic).  APIs keep what is their own, and the defaults of the flags
\* suffice.  Commands that are Simple have the URL, method and headers curl would read, and its
\* body up to SameBody; of others, such as "-X post", nothing is said.  Nor are the flags said
\* to override a file, as the documents have it: see loadConfig.
ConfigResolves(Sources, Files, Commands) ==
  /\ \A run \in {[file |-> opts.file, config |-> RunConfig(opts)] : opts \in Sources} :
       /\ Ok(run.config) => Runnable(run.config)
       /\ ~Ok(run.config) /\ run.config.error = "panic" =>
            run.file # Null /\ "verify" \in DOMAIN run.file.sets /\ run.file.sets.verify = Null
  /\ \A file \in Files : MergesSoundly(file)
  /\ \A lines \in Commands : ReadsLikeCurl(lines) /\ DefaultsSuffice(lines)
=============================================================================
