-------------------------------- MODULE Errors --------------------------------
(***************************************************************************)
(* The error hierarchy and its mapping to RFC 7807 answers                 *)
(* (src/ipa/core/errors.py).  Of a text only its origin is kept: "title"   *)
(* and "fixed" are constants of the code, "given" was written for the      *)
(* caller, "driver" quotes an exception of a driver, "request" is input of *)
(* the request with what its validators say of it, and "internal" is the   *)
(* text of an exception nobody expected.                                   *)
(***************************************************************************)
EXTENDS Naturals

CONSTANTS HttpCodes     \* status codes that HTTPExceptions are raised with

Class(code, http_status) == [code |-> code, http_status |-> http_status]

\* The subclasses of IpaError with their class attributes.
Classes ==
    [IpaError |-> Class("internal_error", 500),
     NotFoundError |-> Class("not_found", 404),
     ConflictError |-> Class("conflict", 409),
     ValidationError |-> Class("validation_error", 422),
     UnsupportedMediaError |-> Class("unsupported_media", 415),
     QuarantineError |-> Class("quarantined", 422),
     ProviderError |-> Class("provider_error", 502),
     RetryableProviderError |-> Class("provider_unavailable", 503),
     StepFailedError |-> Class("step_failed", 500),
     ConfigurationError |-> Class("configuration_error", 500)]

\* IpaError.__init__: what is not given comes from the class.
New(class, detail, code, http_status) ==
    [detail |-> IF detail = "" THEN "title" ELSE detail,
     code |-> IF code = "" THEN Classes[class].code ELSE code,
     http_status |-> IF http_status = 0 THEN Classes[class].http_status ELSE http_status]

\* to_problem.  extra, here the texts in it, is added to the members; it
\* replaces none of those below.
to_problem(error, extra) ==
    [status |-> error.http_status, code |-> error.code, detail |-> error.detail,
     extra |-> extra]

\* What a request handler may raise: an error written for the caller; the one
\* that a store makes of a driver's exception (_content_error, _blob_error);
\* FastAPI's own two; anything else.
Exceptions ==
         [type : {"ipa"}, class : DOMAIN Classes, code : {""}, status : {0},
          text : {"", "given"}]
    \cup [type : {"ipa"}, class : {"IpaError"},
          code : {"content_store_error", "blob_store_error"}, status : {0}, text : {"driver"}]
    \cup [type : {"http"}, class : {""}, code : {""}, status : HttpCodes, text : {"given"}]
    \cup [type : {"validation"}, class : {""}, code : {""}, status : {0}, text : {"request"}]
    \cup [type : {"unexpected"}, class : {""}, code : {""}, status : {0}, text : {"internal"}]

\* problem_from_exception for an exception that is no IpaError: whatever it
\* says, the answer does not.
problem_from_exception(exc) == to_problem(New("IpaError", "fixed", "", 0), {})

\* HTTPStatus of the standard library: the codes with a phrase.
HTTPStatus == {400, 401, 403, 404, 405, 409, 413, 415, 422, 429, 500, 502, 503}

\* Mutant: the ValueError of an unknown code is not caught.
phrase_or_raise(status) == IF status \in HTTPStatus THEN {"phrase"} ELSE {}

\* The title of an HTTPException; no title means that looking it up raised.
http_title(status) == IF status \in HTTPStatus THEN {"phrase"} ELSE {"HTTP code"}

\* _handle_http_exception.  An exception in a handler is handled as
\* unexpected, by the outermost middleware.
handle_http_exception(exc) ==
    IF http_title(exc.status) = {}
       THEN problem_from_exception(exc)
       ELSE to_problem(New("IpaError", exc.text, "http_code", exc.status), {})

\* exc.errors() goes to the client in extra.
handle_validation_error(exc) == to_problem(New("ValidationError", "fixed", "", 0), {exc.text})

handle_ipa_error(exc) == to_problem(New(exc.class, exc.text, exc.code, 0), {})

\* install_exception_handlers: which handler gets which exception.
Handled(exc) ==
    CASE exc.type = "ipa" -> handle_ipa_error(exc)
      [] exc.type = "http" -> handle_http_exception(exc)
      [] exc.type = "validation" -> handle_validation_error(exc)
      [] exc.type = "unexpected" -> problem_from_exception(exc)
=============================================================================
