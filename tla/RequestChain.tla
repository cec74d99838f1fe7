---------------------------- MODULE RequestChain ----------------------------
(***************************************************************************)
(* How workers carry out the APIs of a configuration (executor/worker.go,  *)
(* middleware.go, request_source.go, builder.go): each pass over the chain *)
(* starts with empty variables and failures; an API is skipped if one it   *)
(* depends on has failed in the pass, or else its texts get the values     *)
(* extracted so far, it is sent through the middlewares, values are        *)
(* extracted from the answer and its own rules are checked.                *)
(*                                                                         *)
(* The workers share the selector's counter and the circuit breaker.  All  *)
(* after the last attempt is local to the worker and part of that step.    *)
(* Pause, stop and cancellation are in Engine.tla; what a rule demands is  *)
(* in Verify.tla, here a response is good for the middleware or not.       *)
(***************************************************************************)
EXTENDS Extraction, Integers, FiniteSets, TLC

CONSTANTS
  Workers,        \* the IDs of the workers
  ReqCount,       \* requests, or passes over the chain, of each worker
  Configurations, \* what CreateAPISelector may have made of the APIs, and the options
  MaxFailures,    \* failures in a row that open the breaker
  MaxAttempts,    \* bound on the attempts of one request
  Stride,         \* 100000: the distance between the group IDs of two workers
  Offset          \* 100: that between two repetitions of an API

\* A selector: its mode, the API of each name, and the order of the names.  An API: dependsOn,
\* repeat, body (which stands for URL, headers and body), extractors, and its own rules.
Repeats(api) == IF api.repeat = 0 THEN 1 ELSE api.repeat

ASSUME RequestChainAssumption ==
  /\ Workers \subseteq Nat /\ ReqCount \in Nat \ {0} /\ MaxFailures \in Nat \ {0}
  /\ MaxAttempts \in Nat \ {0} /\ Stride \in Nat /\ Offset \in Nat
  /\ \A c \in Configurations :
       /\ c.selector.mode \in {"dependency", "roundRobin", "weighted"}
       /\ c.selector.order \in Seq(DOMAIN c.selector.apis) \ {<< >>}
       /\ \A name \in DOMAIN c.selector.apis : c.selector.apis[name].repeat \in Nat
       /\ c.options \in [breaker : BOOLEAN, retry : BOOLEAN]

\* In the order that the resolver finds, every API has one place, after all it depends on.
Ordered ==
  \A c \in Configurations : c.selector.mode = "dependency" =>
    LET order == c.selector.order IN
    \A i \in DOMAIN order :
      /\ ToSet(c.selector.apis[order[i]].dependsOn) \subseteq {order[j] : j \in 1 .. i - 1}
      /\ \A j \in DOMAIN order : order[j] = order[i] => j = i

VARIABLES
  config,      \* [selector, options]: fixed
  turn,        \* the counter of the round-robin selector
  circuit,     \* the breaker: [state, failures, successes]
  worker,      \* each worker's place in its loops, depContext, and request under way
  results,     \* what each worker collected in this pass
  groups,      \* history: the sequences of requests and their group IDs
  streak       \* history: failures in a row that the breaker saw, up to MaxFailures, and for good then

vars == <<config, turn, circuit, worker, results, groups, streak>>

Selector == config.selector
Chain == Selector.mode = "dependency"
Closed == [state |-> "closed", failures |-> 0, successes |-> 0]

\* NewWorker, and NewWorkerDependencyContext at the start of each pass.
Start(pass) == [pc |-> "ready", pass |-> pass, at |-> 1, repetition |-> 0,
                vars |-> NoVars, failed |-> {}, name |-> NoPath, body |-> NoText, attempts |-> 0]

Init ==
  /\ config \in Configurations
  /\ turn = 0 /\ circuit = Closed
  /\ worker = [w \in Workers |-> Start(0)]
  /\ results = [w \in Workers |-> {}]
  /\ groups = {} /\ streak = 0

-----------------------------------------------------------------------------
(* Where a worker is.                                                      *)

\* Mutant: repetitions count on from the group ID of the pass.
GroupIDNext(w, pass, repetition) == (w + 1) * Stride + pass + 1 + repetition

\* The offset of a repetition is counted from the group ID of the pass.
GroupID(w, pass, repetition) == (w + 1) * Stride + pass + 1 + repetition * Offset

\* NewRequestContext: the chain's sources give the API at the worker's place, others what the
\* selector's Next answers, with group 0.
NextRequest(w) ==
  CASE Chain -> {Selector.order[worker[w].at]}
    [] Selector.mode = "roundRobin" -> {Selector.order[(turn % Len(Selector.order)) + 1]}
    [] Selector.mode = "weighted" -> ToSet(Selector.order)

\* Mutant: a new pass keeps what the last one extracted and which APIs failed.
AdvanceAndKeep(w, state) ==
  LET api == Selector.apis[state.name] IN
  IF Chain /\ state.repetition + 1 < Repeats(api)
  THEN [state EXCEPT !.pc = "ready", !.repetition = @ + 1]
  ELSE IF Chain /\ state.at < Len(Selector.order)
  THEN [state EXCEPT !.pc = "ready", !.at = @ + 1, !.repetition = 0]
  ELSE [Start(state.pass + 1) EXCEPT !.pc = IF state.pass + 1 < ReqCount THEN "ready" ELSE "done",
                                     !.vars = state.vars, !.failed = state.failed]

\* The three loops of Run: repetitions, APIs of the chain, passes.
Advance(w, state) ==
  LET api == Selector.apis[state.name] IN
  IF Chain /\ state.repetition + 1 < Repeats(api)
  THEN [state EXCEPT !.pc = "ready", !.repetition = @ + 1]
  ELSE IF Chain /\ state.at < Len(Selector.order)
  THEN [state EXCEPT !.pc = "ready", !.at = @ + 1, !.repetition = 0]
  ELSE [Start(state.pass + 1) EXCEPT !.pc = IF state.pass + 1 < ReqCount THEN "ready" ELSE "done"]

\* The results are kept until the next pass has one, the group IDs for ever.
Collect(w, state, result) ==
  LET placed == [pass |-> state.pass, at |-> state.at, name |-> state.name, repetition |-> state.repetition,
                 skipped |-> result.skipped, success |-> result.success, refused |-> result.refused,
                 marked |-> result.marked, body |-> result.body, extracted |-> result.extracted,
                 attempts |-> result.attempts, cause |-> result.cause]
  IN /\ worker' = [worker EXCEPT ![w] = Advance(w, state)]
     /\ results' = [results EXCEPT ![w] = {r \in @ : r.pass = state.pass} \cup {placed}]
     /\ groups' = IF Chain
                  THEN groups \cup {[worker |-> w, pass |-> state.pass, repetition |-> state.repetition,
                                     id |-> GroupID(w, state.pass, state.repetition)]}
                  ELSE groups

-----------------------------------------------------------------------------
(* The breaker, of an external library: it opens after MaxFailures         *)
(* failures in a row, tries again some time later, and two successes then  *)
(* close it.                                                               *)

Counted(c, failed) ==
  CASE c.state = "closed" /\ ~failed -> Closed
    [] c.state = "closed" /\ failed ->
         IF c.failures + 1 < MaxFailures THEN [c EXCEPT !.failures = @ + 1] ELSE [Closed EXCEPT !.state = "open"]
    [] c.state = "half" /\ ~failed ->
         IF c.successes + 1 < 2 THEN [c EXCEPT !.successes = @ + 1] ELSE Closed
    [] c.state = "half" /\ failed -> [Closed EXCEPT !.state = "open"]
    [] c.state = "open" -> c

ResetTimeout ==
  /\ circuit.state = "open"
  /\ circuit' = [Closed EXCEPT !.state = "half"]
  /\ UNCHANGED <<config, turn, worker, results, groups, streak>>

-----------------------------------------------------------------------------
(* The end of a request: from the answer of the middlewares on.            *)

\* What the worker stores of a response, under the API's name.
Stored(state, extracted) ==
  LET own == {<<state.name, v>> : v \in DOMAIN extracted}
  IN [key \in own \cup DOMAIN state.vars |-> IF key \in own THEN extracted[key[2]] ELSE state.vars[key]]

\* A rule of the API's own: its path is there, with the value expected, if one is.
RuleHolds(rule, message, vs) ==
  /\ <<"JSONPATH", rule.path>> \in DOMAIN message.found
  /\ rule.expect # NoText => message.found[<<"JSONPATH", rule.path>>] = ResolveExpectation(rule.expect, vs)

executeVerifications(api, message, vs) == \A i \in DOMAIN api.verify : RuleHolds(api.verify[i], message, vs)

\* Whether APIs that depend on this one are skipped from now on.  One rule that does not say
\* continue_on_failure is enough, even if another one broke.
MarksFailed(api, messages, failed, vs) ==
  \/ failed
  \/ /\ \E message \in messages : ~executeVerifications(api, message, vs)
     /\ \E i \in DOMAIN api.verify : ~api.verify[i].continueOnFailure

\* executeRequestUnified after the handler: the response, if there is one, is a message.
Complete(w, state, failed, messages, refused) ==
  LET api == Selector.apis[state.name]
      extracted == IF messages = None THEN NoVars
                   ELSE extractAndStore(api.extractors, [request |-> [found |-> NoVars],
                                                         response |-> CHOOSE m \in messages : TRUE,
                                                         variables |-> state.vars])
      stored == Stored(state, extracted)
      marked == MarksFailed(api, messages, failed, stored)
  IN Collect(w, [state EXCEPT !.vars = stored, !.failed = IF marked THEN @ \cup {state.name} ELSE @],
             [skipped |-> FALSE, success |-> ~failed, refused |-> refused, marked |-> marked,
              body |-> state.body, extracted |-> extracted, attempts |-> state.attempts, cause |-> {}])

-----------------------------------------------------------------------------
(* The steps of a worker.                                                  *)

getFailedDependencies(w, name) ==
  IF Chain THEN ToSet(Selector.apis[name].dependsOn) \cap worker[w].failed ELSE {}

shouldSkipAPI(w, name) == getFailedDependencies(w, name) # {}

TakeTurn == turn' = IF Selector.mode = "roundRobin" THEN turn + 1 ELSE turn

\* The result of a skipped API: it is not a failure to those that depend on it.
Skip(w) ==
  /\ worker[w].pc = "ready"
  /\ \E name \in NextRequest(w) :
       /\ shouldSkipAPI(w, name)
       /\ Collect(w, [worker[w] EXCEPT !.name = name],
                  [skipped |-> TRUE, success |-> FALSE, refused |-> FALSE, marked |-> FALSE,
                   body |-> ReplaceString(Selector.apis[name].body, worker[w].vars),
                   extracted |-> NoVars, attempts |-> 0, cause |-> getFailedDependencies(w, name)])
  /\ TakeTurn
  /\ UNCHANGED <<config, circuit, streak>>

BuildRequest(w, name) ==
  [worker[w] EXCEPT !.pc = "sending", !.name = name, !.attempts = 0,
                    !.body = ReplaceString(Selector.apis[name].body, worker[w].vars)]

Refuses == config.options.breaker /\ circuit.state = "open"

\* The breaker lets the request through to the retries, the verification and the client ...
Begin(w) ==
  /\ worker[w].pc = "ready" /\ ~Refuses
  /\ \E name \in NextRequest(w) :
       /\ ~shouldSkipAPI(w, name)
       /\ worker' = [worker EXCEPT ![w] = BuildRequest(w, name)]
  /\ TakeTurn
  /\ UNCHANGED <<config, circuit, results, groups, streak>>

\* ... or refuses it, with no response.
Refuse(w) ==
  /\ worker[w].pc = "ready" /\ Refuses
  /\ \E name \in NextRequest(w) :
       ~shouldSkipAPI(w, name) /\ Complete(w, BuildRequest(w, name), TRUE, None, TRUE)
  /\ TakeTurn
  /\ UNCHANGED <<config, circuit, streak>>

\* What may become of an attempt: an error without a response (websocket.go:113, 135, 174 and
\* grpc.go:157), an error with a response without content, one that the verification rejects,
\* one without the data to extract, one with everything.  Data is the attempt's own, the rest
\* is echoed.
Kinds == {"none", "lost", "bad", "thin", "full"}
Failing == {"none", "lost", "bad"}

Message(w, state, kind) ==
  LET data == <<w, state.pass, state.name, state.repetition, state.attempts>>
      has == CASE kind \in {"none", "lost"} -> {} [] kind = "thin" -> {"echo"} [] kind \in {"bad", "full"} -> {"data", "echo"}
  IN [found |-> [key \in {"JSONPATH"} \X has |-> IF key[2] = "data" THEN <<data>> ELSE state.body]]

\* RetryMiddleware: a failed attempt may be followed by another one.
Retry(w, kind) ==
  /\ worker[w].pc = "sending" /\ config.options.retry /\ kind \in Failing
  /\ worker[w].attempts + 1 < MaxAttempts
  /\ worker' = [worker EXCEPT ![w].attempts = @ + 1]
  /\ UNCHANGED <<config, turn, circuit, results, groups, streak>>

\* The response, if there is one.  With an error BreakerMiddleware withholds it.
Answer(w, state, kind) ==
  IF kind = "none" \/ (config.options.breaker /\ kind \in Failing) THEN None ELSE {Message(w, state, kind)}

Send(w, kind) ==
  LET state == [worker[w] EXCEPT !.attempts = @ + 1]
      failed == kind \in Failing
  IN /\ worker[w].pc = "sending"
     /\ circuit' = IF config.options.breaker THEN Counted(circuit, failed) ELSE circuit
     /\ streak' = IF ~config.options.breaker \/ streak = MaxFailures THEN streak
                  ELSE IF failed THEN streak + 1 ELSE 0
     /\ Complete(w, state, failed, Answer(w, state, kind), FALSE)
     /\ UNCHANGED <<config, turn>>

Done == (\A w \in Workers : worker[w].pc = "done") /\ UNCHANGED vars

Next ==
  \/ ResetTimeout
  \/ \E w \in Workers : Skip(w) \/ Begin(w) \/ Refuse(w)
  \/ \E w \in Workers, kind \in Kinds : Retry(w, kind) \/ Send(w, kind)
  \/ Done

Spec == Init /\ [][Next]_vars

-----------------------------------------------------------------------------
(* Properties.                                                             *)

\* A request that is not sent has a cause.  A skipped API names the dependencies that failed
\* before in the same pass of the same worker, and an API is sent only after everything it
\* depends on was tried or skipped in that pass, and none of it failed (worker.go,
\* shouldSkipAPI and depContext).  A request is refused only if, at some time, MaxFailures
\* requests in a row had failed: the breaker is outside the retries, whose attempts it does
\* not see (executor.go:154).
UnsentHasCause ==
  \A w \in Workers : \A r \in results[w] :
    /\ r.refused => streak = MaxFailures
    /\ Chain =>
         LET deps == ToSet(Selector.apis[r.name].dependsOn)
             Failures == {f \in results[w] : f.name \in deps /\ f.marked}
         IN /\ r.skipped <=> Failures # {}
            /\ r.skipped => r.cause = {f.name : f \in Failures}
            /\ \A dep \in deps : \E f \in results[w] : f.name = dep

\* The order of the results of a pass, and what was extracted in some of them: for each name
\* the last value.
Precedes(f, g) == f.at < g.at \/ (f.at = g.at /\ f.repetition < g.repetition)
Before(R, r) == {f \in R : Precedes(f, r)}

Values(R) ==
  LET With(key) == {f \in R : f.name = key[1] /\ key[2] \in DOMAIN f.extracted}
  IN [key \in UNION {{<<f.name, v>> : v \in DOMAIN f.extracted} : f \in R} |->
        (CHOOSE f \in With(key) : \A g \in With(key) : ~Precedes(f, g)).extracted[key[2]]]

\* A request is made of its API's text and of the values that the same worker extracted before
\* in the same pass, the last of each name: never of a value of another worker, an earlier
\* pass or an overwritten one.  Under a breaker nothing is extracted of a request that failed
\* (worker.go, depContext; middleware.go).
VarsAreFresh ==
  \A w \in Workers : \A r \in results[w] :
    /\ r.body = ReplaceString(Selector.apis[r.name].body, Values(Before(results[w], r)))
    /\ config.options.breaker /\ ~r.success => r.extracted = NoVars

\* What is extracted is of the attempt that decided the request, or a default, and arrives in
\* the place of its name in every later request of the pass, where a name nobody has set
\* stands for no value.  (The values have one part.)
ValuesArrive ==
  \A w \in Workers : \A r \in results[w] :
    LET api == Selector.apis[r.name]
        values == Values(Before(results[w], r))
    IN /\ \A v \in DOMAIN r.extracted :
            \/ r.extracted[v] = << <<w, r.pass, r.name, r.repetition, r.attempts>> >>
            \/ \E i \in DOMAIN api.extractors : r.extracted[v] = api.extractors[i].default
       /\ \A i \in DOMAIN api.body : api.body[i] \in Placeholders \ DOMAIN Settings =>
            IF api.body[i] \in DOMAIN values THEN r.body[i] = values[api.body[i]][1]
            ELSE r.body[i] \in {NoValue, api.body[i]}

\* Two sequences of requests get one group ID, and are one to the reports, only if a
\* repetition reaches as far as a sequence of the same worker Offset passes or more away, or
\* if a worker reaches its neighbour's first ID, Stride sequences on: the "globally unique" of
\* worker.go:125 holds short of that, and not beyond.
Reach(g) == g.pass + g.repetition * Offset

GroupsTellApart ==
  \A g, h \in groups : g.id = h.id /\ g # h =>
    IF g.worker = h.worker
    THEN g.repetition # h.repetition /\ (g.pass >= h.pass + Offset \/ h.pass >= g.pass + Offset)
    ELSE Reach(g) >= Stride \/ Reach(h) >= Stride
=============================================================================
