------------------------------ MODULE MCEngine ------------------------------
(* Small instance of Engine: two workers, two passes of two requests.      *)
EXTENDS EngineConfig, TLC

-----------------------------------------------------------------------------
(* Configurations: flags, files and curl commands.                         *)

None == << >>
Grpc(reflection, proto, method) ==
  [reflection |-> reflection, proto |-> proto, service |-> <<"service">>, method |-> method]
Flags == [protocol : {"http", "grpc"}, concurrency : {0, 2}, requests : {0, 3}, url : {None, <<"/flag">>},
          method : {<<"PUT">>}, timeout : {30}, body : {None}, storage : {"memory", "other"},
          headers : {<< <<"k", "v">>, <<"no colon">>, <<"k", "w">> >>},
          grpc : {Grpc(TRUE, None, None), Grpc(TRUE, None, <<"call">>)}]

API(url, host, path, headers, verify) ==
  [url |-> url, host |-> host, path |-> path, method |-> None, body |-> None, weight |-> 0,
   headers |-> headers, verify |-> verify]
APIs == {API(url, host, path, headers, verify) :
           url \in {None, <<"http://", "u">>}, host \in {None, <<"http://", "h">>}, path \in {None, <<"/p">>},
           headers \in {[k \in {} |-> None], [k \in {"k"} |-> <<"own">>]}, verify \in {None, <<"exists">>}}
Lists == {<< >>} \cup {<<api>> : api \in APIs}
          \cup {<<api, API(None, None, <<"/q">>, [k \in {} |-> None], None)>> : api \in APIs}
Common == [url : {None, <<"http://", "c">>}, host : {None, <<"http://", "common">>}, apis : Lists,
           headers : {[k \in {"k", "l"} |-> <<"common">>]}, verify : {None, C!Status200}]
Basic == [url : {<<"/f">>}, concurrency : {0, 2}, requests : {0, 3}, duration : {0, 5}, protocol : {"http", "grpc"},
          grpc : {None, Grpc(FALSE, None, <<"call">>), Grpc(FALSE, <<"file">>, <<"call">>)}]
MCFiles == [format : {"yaml"}, parses : {TRUE}, sets : Common \cup Basic]
          \cup [format : {"json", "toml"}, parses : BOOLEAN, sets : {[url |-> <<"/f">>]}]

Word(quote, text) == [quote |-> quote, text |-> text, holds |-> {}]
Plain(text) == Word("none", <<text>>)
Broken(words) == {<<[words |-> SubSeq(words, 1, 2), continues |-> by],
                    [words |-> SubSeq(words, 3, Len(words)), continues |-> ""]>> : by \in {"^", "backslash"}}
URLs(quote) == {<<Word(quote, <<"ws://", "u">>)>>, <<Plain("--url"), Word(quote, <<"http://", "u">>)>>,
                <<Plain("-k"), Word(quote, <<"http://", "u">>)>>,
                <<[Word(quote, <<"http://", "u-data">>) EXCEPT !.holds = {"-d"}]>>}
Headers(quote) == {None, <<Plain("-H"), Word(quote, <<"k", "v">>), Plain("--header"), Word(quote, <<"l", "w">>)>>}
Methods(quote) == {None, <<Plain("-X"), Plain("PUT")>>, <<Plain("-X"), Plain("post")>>,
                   <<Plain("-X"), Plain("put"), Plain("--request"), Word(quote, <<"DELETE">>)>>,
                   <<Plain("--request"), Word(quote, <<"delete">>)>>}
Bodies(quote) == {None, <<Plain("-d"), Word(quote, <<"body">>)>>, <<Plain("--data-binary"), Word(quote, <<"body">>)>>,
                  <<Plain("--data-raw"), Word(quote, <<"{", "b:2", "n:9007199254740993", "b:2", "}">>)>>,
                  <<Plain("-d"), Word("double", <<"{", "b:2", "escaped a:1", "}">>)>>,
                  <<Plain("--data"), Word("double", <<"escaped quote", "escaped n">>)>>,
                  <<Plain("--data"), Word("none", <<"bare">>)>>}
Words(methods, headers) == {<<Plain("curl")>> \o url \o method \o header \o body :
                              url \in UNION {URLs(q) : q \in {"single", "double", "^"}}, method \in methods,
                              header \in headers, body \in Bodies("single") \cup Bodies("^")}
MCCommands == {<<[words |-> words, continues |-> ""]>> :
               words \in Words(Methods("single"), Headers("^") \cup Headers("double"))}
            \cup UNION {Broken(words) : words \in Words({<<Plain("-X"), Plain("PUT")>>}, {None})}

MCCommandLines ==
  [curl : {None}, file : MCFiles \cup {None}, flags : {f \in Flags : f.storage = "memory" /\ f.requests = 0}]
  \cup [curl : {None}, file : {None}, flags : Flags]
  \cup [curl : MCCommands, file : {None},
        flags : {f \in Flags : f.protocol = "http" /\ f.url = None /\ f.grpc.method = None /\ f.storage = "memory"}]
=============================================================================
