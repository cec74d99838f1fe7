----------------------------- MODULE MCRequests -----------------------------
(* Two workers, a chain with repetition, a chain that cannot be resolved and a weighted list. *)
EXTENDS RequestRules

Call(function, args) == [template |-> "", calls |-> FALSE, function |-> function, args |-> args]
Data(name, default) == [name |-> name, source |-> "", type |-> "", path |-> "data", expression |-> << >>,
                        transforms |-> <<Call("trim", << >>), Call("substr", <<0, 2>>)>>, default |-> default]
API(name, deps, repeat, body, extractors, verify) ==
  [name |-> name, dependsOn |-> deps, repeat |-> repeat, weight |-> 1, body |-> body,
   extractors |-> extractors, verify |-> verify]
Exists == [path |-> "data", expect |-> << >>, continueOnFailure |-> FALSE]
Echoed(text) == [path |-> "echo", expect |-> text, continueOnFailure |-> TRUE]

Login == API("login", << >>, 0, << <<"plain">> >>, <<Data("token", << >>)>>, << >>)
Fetch(deps, repeat) == API("fetch", deps, repeat, << <<"login", "token">> >>, <<Data("id", << <<"none">> >>)>>, <<Exists>>)
Drop == API("drop", <<"fetch">>, 0, << <<"fetch", "id">>, <<"user", "name">> >>, << >>, <<Echoed(<< <<"plain">> >>)>>)

\* What becomes of a list of APIs, in whatever order Go visits the map of their names.
NamesOf(apis) == [i \in DOMAIN apis |-> apis[i].name]
Settle(apis) ==
  {LET s == D!CreateAPISelector(apis, keys)
   IN [mode |-> s.mode, apis |-> D!apiMap(apis), order |-> IF s.mode = "dependency" THEN s.order ELSE NamesOf(apis)] :
     keys \in SetToSeqs(DOMAIN D!apiMap(apis))}

Plain == [breaker |-> FALSE, retry |-> FALSE]
Guarded == [breaker |-> TRUE, retry |-> TRUE]
MCConfigurations ==
  [selector : Settle(<<Fetch(<<"login">>, 2), Login>>) \cup Settle(<<Drop, Fetch(<<"login">>, 1), Login>>),
   options : {Plain}]
  \cup [selector : Settle(<<Fetch(<<"login">>, 1), Login>>) \cup Settle(<<Drop, Fetch(<<"drop">>, 2)>>)
                   \cup Settle(<<[Drop EXCEPT !.weight = 2, !.dependsOn = << >>],
                                 [Login EXCEPT !.extractors = << >>]>>),
        options : {Guarded}]

MCPlaceholders == {<<"login", "token">>, <<"fetch", "id">>, <<"drop", "x">>, <<"user", "name">>}
MCSettings == (<<"user", "name">> :> << <<"somebody">> >>)
MCCompiles(pattern) == TRUE
MCRendered(template, value) == value
MCCalled(transform, value) == Tail(value)

-----------------------------------------------------------------------------
(* The rules of verification: every type with every kind of expectation.   *)

MCNumeral(text) == IF text = <<"2", "0", "0">> THEN {200} ELSE IF text = <<"1">> THEN {1} ELSE {}
MCFormatted(expect) == <<"1">>
MCWellFormed(format, text) == text = <<"e">>
MCConforms(resp, expect) == resp.fields # << >>

Expect(kind, number, text) == [kind |-> kind, number |-> number, text |-> text]
MCRules ==
  [type : V!Registered \cup {"CUSTOM"}, jsonpath : {"", "p", "q"},
   operator : {"", "eq", "ne", "gt", "gte", "lt", "lte"}, regex : BOOLEAN,
   expect : {Expect("nil", 0, << >>), Expect("int", 200, << >>), Expect("float64", 1, << >>),
             Expect("string", 0, <<"2", "0", "0">>), Expect("string", 0, <<"e">>),
             Expect("object", 0, << >>)}]
Response(error, status, body, fields) ==
  [error |-> error, status |-> status, body |-> body, json |-> fields # << >>, fields |-> fields,
   headers |-> [h \in {"p"} |-> <<"e">>]]
MCResponses ==
  {Response(FALSE, status, body, fields) : status \in {0, 199, 200, 299, 300, 404},
     body \in {<< >>, <<"e">>, <<" ", "e">>, <<"1">>},
     fields \in {<< >>, [p \in {"p"} |-> <<"2", "0", "0">>], [p \in {"p"} |-> <<"e">>]}}
  \cup {Response(TRUE, 200, <<"e">>, << >>)}

-----------------------------------------------------------------------------
(* Selection: three APIs, of which one may be nameless or share a name,    *)
(* with every way to depend on each other, on themselves or on nothing.    *)

Deps == {<< >>, <<"a">>, <<"b">>, <<"c">>, <<"b", "c">>, <<"missing">>, <<"api_2">>}
Named(name, deps, weight) == [API(name, deps, 0, << >>, << >>, << >>) EXCEPT !.weight = weight]
MCLists == {<< >>} \cup {<<Named("a", da, 1), Named(second, db, 2), Named("c", dc, weight)>> :
                         da \in Deps, db \in Deps, dc \in Deps, second \in {"b", "", "a"}, weight \in {0, 3}}
=============================================================================
