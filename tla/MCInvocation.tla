----------------------------- MODULE MCInvocation ------------------------------
(* Two callers and sinks that call back once; settings with each value of one *)
(* field in every source, while the other field has its usual value.          *)
EXTENDS Invocation, TLC

MCText == {"text"}
MCApiKeys == {"constructor", "CUNA", "RUNA", "file"}
Canonical == Default.base_url
Urls == {Canonical, [Canonical EXCEPT !.host = "api.runacode.io"],
         [Canonical EXCEPT !.scheme = "http"], [Canonical EXCEPT !.host = "example.org"]}

Field(name, values) == {<<>>} \cup {[f \in {name} |-> v] : v \in values}

Keys ==
  {[constructor |-> a, CUNA |-> b, RUNA |-> c, file |-> d] :
     a \in Field("api_key", {"constructor", "bad"}), b \in Field("api_key", {"CUNA", "bad"}),
     c \in Field("api_key", {"RUNA", "bad"}), d \in Field("api_key", {"file", "bad", None})}

\* The key from the constructor, which may also name the URL.
Origins ==
  {[constructor |-> [f \in {"api_key"} \cup DOMAIN a |-> IF f = "api_key" THEN "constructor" ELSE a[f]],
    CUNA |-> b, RUNA |-> c, file |-> d] :
     a \in Field("base_url", Urls), b \in Field("base_url", Urls),
     c \in Field("base_url", Urls), d \in Field("base_url", Urls)}

Files == {[constructor |-> [api_key |-> "constructor"], CUNA |-> <<>>, RUNA |-> <<>>, file |-> file] :
            file \in {None, [unknown |-> "text"]}}

Found(found, class, sinks) ==
  [constructor |-> found.constructor, CUNA |-> found.CUNA, RUNA |-> found.RUNA, file |-> found.file,
   kind |-> class, hooks |-> sinks]

Usual == [constructor |-> [api_key |-> "constructor"], CUNA |-> <<>>, RUNA |-> <<>>, file |-> <<>>]

\* Every configuration, and every client with sinks.
MCSettings ==
  {Found(found, "sync", {}) : found \in Keys \cup Origins \cup Files}
  \cup {Found(Usual, class, sinks) : class \in {"sync", "async"}, sinks \in SUBSET {"diagnostic", "trace"}}

CONSTANTS one, two
MCUses == [c \in {one, two} |-> IF c = one THEN {"read", "write"} ELSE {}]

Ask(key, body, raw) == [key |-> key, body |-> body, raw_body |-> raw]
MCArguments == {Ask("key", "text", None), Ask(None, None, "text"), Ask("bad", None, None),
                Ask(None, "text", "text")}

MCSuccess == [read |-> 200, write |-> 204]

AProblem == [type |-> <<"problems", "code">>, title |-> "text", status |-> 409, code |-> "code",
            request_id |-> "u1", retryable |-> TRUE]

\* One of a workspace, which speaks of no protocol or of one and what it can do.
ASyncProblem(protocol) ==
  [AProblem EXCEPT !.type = <<"problems", "sync">>, !.code = "sync"] @@
    [detail |-> "text", action |-> "retry", selected_protocol |-> protocol, capabilities |-> <<>>]

Sized(status, bytes, type, body) == [status |-> status, bytes |-> bytes, type |-> type, body |-> body]

Good == [data |-> "value"]
MCDecodable == {Good}

MCResponses ==
  {Sized(200, 1, "application/json", Good), Sized(204, 1, "application/json", Good),
   Sized(200, 2, "application/json", Good), Sized(200, 1, "application/json", [data |-> "odd"]),
   Sized(409, 1, "application/problem+json", AProblem),
   Sized(409, 1, "application/problem+json", ASyncProblem(None)),
   Sized(409, 1, "application/problem+json", ASyncProblem(2)), Sized(500, 1, "application/json", AProblem)}
=============================================================================
