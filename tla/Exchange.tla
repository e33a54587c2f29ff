------------------------------- MODULE Exchange --------------------------------
(***************************************************************************)
(* What a client is configured with, the request it prepares and what it   *)
(* makes of the response.                                                  *)
(*                                                                         *)
(* Settings are functions whose domain is what is there: a present value   *)
(* may be in no grammar.  A URL is the record of its parts.  The body of a *)
(* response is None when it is no JSON, an object is a function.           *)
(***************************************************************************)
EXTENDS Integers, Sequences, SequencesExt

CONSTANTS
  None,              \* null, or no value
  ApiKeys,           \* texts with one of the two prefixes and something after it
  Uuid, Text,
  ProblemCode,       \* codes in the grammar of problems
  WorkspaceSyncCode, \* those of workspace problems
  IdempotencyKey,    \* 8 to 128 printable characters
  MaxResponseBytes

-----------------------------------------------------------------------------
(* Configuration                                                            *)

AllowedOrigins == [host \in {"api.getcuna.com", "api.runacode.io"} |->
  IF host = "api.getcuna.com" THEN "https://api.getcuna.com" ELSE "https://api.runacode.io"]

Default == [base_url |-> [scheme |-> "https", host |-> "api.getcuna.com", port |-> None, rest |-> None]]

Failure(category) == [category |-> category]
Failed(config) == DOMAIN config = {"category"}

\* A path that cannot be read (None), or a file with a member it should not have.
FileRefused(file) ==
  \/ file = None
  \/ ~(DOMAIN file \subseteq {"api_key", "base_url"})
  \/ \E name \in DOMAIN file : file[name] = None

ValidKey(value) == value \in ApiKeys

\* One of the two hosts, over TLS, without a port or anything else; or None.
NormalizeOrigin(url) ==
  IF /\ url # None /\ url.scheme = "https" /\ url.rest = None
     /\ url.host \in DOMAIN AllowedOrigins /\ url.port = None
    THEN AllowedOrigins[url.host] ELSE None

\* The constructor, the two names of the environment, the file.
Sources(settings) ==
  <<settings.constructor, settings.CUNA, settings.RUNA, settings.file, Default>>

Having(settings, field) ==
  {i \in 1 .. 5 : field \in DOMAIN Sources(settings)[i]}

\* Slip: the first value that passes, wherever a worse one stands before it.
ResolveFirstValid(settings) ==
  LET sources == Sources(settings)
      keys == {i \in Having(settings, "api_key") : ValidKey(sources[i].api_key)}
      urls == {i \in Having(settings, "base_url") : NormalizeOrigin(sources[i].base_url) # None}
  IN  IF FileRefused(settings.file) THEN Failure("invalid_config_file")
      ELSE IF keys = {} THEN Failure("missing_api_key")
      ELSE [api_key |-> sources[Min(keys)].api_key,
            base_url |-> NormalizeOrigin(sources[Min(urls)].base_url)]

\* Precedence is by presence: the first source that has a field decides on it.
ResolveConfig(settings) ==
  LET sources == Sources(settings)
      keys == Having(settings, "api_key")
      key == sources[Min(keys)].api_key
      url == NormalizeOrigin(sources[Min(Having(settings, "base_url"))].base_url)
  IN  IF FileRefused(settings.file) THEN Failure("invalid_config_file")
      ELSE IF keys = {} THEN Failure("missing_api_key")
      ELSE IF ~ValidKey(key) THEN Failure("invalid_api_key")
      ELSE IF url = None THEN Failure("invalid_or_prohibited_base_url")
      ELSE [api_key |-> key, base_url |-> url]

-----------------------------------------------------------------------------
(* The request                                                              *)

\* One media type, a body that JSON has a form for, a key in its grammar.
Admissible(args) ==
  /\ args.key \in IdempotencyKey \cup {None}
  /\ args.body = None \/ args.raw_body = None
  /\ args.body \in Text \cup {None}

-----------------------------------------------------------------------------
(* The response                                                             *)

ProblemAction == {"retry", "sign_in", "open_web", "contact_support", "none"}

SyncCapabilities ==
  {"atomic_generation_commit", "bounded_manifest_pages", "content_digest_verification",
   "explicit_reconciliation", "ordered_generation_changes", "policy_bound_admission"}

GenericKeys == {"type", "title", "status", "code", "request_id", "retryable", "detail", "action"}
SyncKeys == GenericKeys \cup {"selected_protocol", "capabilities"}

\* No protocol and no capabilities, or a protocol and all of them.
SyncProblem(value) ==
  /\ value.code \in WorkspaceSyncCode
  /\ value.action \in {"retry", "none"} /\ value.detail \in Text
  /\ value.selected_protocol \in {1, 2, None}
  /\ IsInjective(value.capabilities)
  /\ IF value.selected_protocol = None THEN value.capabilities = <<>>
     ELSE ToSet(value.capabilities) = SyncCapabilities

\* The problem is the one of this response: its status and its code agree.
IsProblem(response) ==
  LET value == response.body
  IN  /\ response.bytes <= MaxResponseBytes
      /\ response.type \in {"application/json", "application/problem+json"}
      /\ value # None
      /\ DOMAIN value = SyncKeys
           \/ \E less \in SUBSET {"detail", "action"} : DOMAIN value = GenericKeys \ less
      /\ value.code \in ProblemCode /\ value.type = <<"problems", value.code>>
      /\ value.status = response.status /\ value.status \in 400 .. 599
      /\ value.title \in Text /\ value.request_id \in Uuid /\ value.retryable \in BOOLEAN
      /\ "detail" \in DOMAIN value => value.detail \in Text
      /\ "action" \in DOMAIN value => value.action \in ProblemAction
      /\ DOMAIN value = SyncKeys => SyncProblem(value)

Answer(value) == [tag |-> "success", value |-> value]
ApiError(status, code, problem) ==
  [tag |-> "error", status |-> status, code |-> code, problem |-> problem]

\* The expected status, small enough, JSON; or an error of the response.
Disposition(response, success) ==
  IF response.status # success
    THEN IF response.status \in 200 .. 399
           THEN ApiError(response.status, "malformed_response", None)
           ELSE ApiError(response.status, "api_error",
                         IF IsProblem(response) THEN response.body ELSE None)
    ELSE IF \/ response.bytes > MaxResponseBytes
            \/ response.type # "application/json" \/ response.body = None
      THEN ApiError(response.status, "malformed_response", None)
      ELSE Answer(response.body)
=============================================================================
