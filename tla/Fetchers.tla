------------------------------- MODULE Fetchers -------------------------------
(***************************************************************************)
(* One request as a source sees it: UreqFetcher dispatches on the URL's    *)
(* scheme to ureq or to the filesystem, and turns what happened there (an  *)
(* "event") into a Response or a FetchError.                               *)
(*                                                                         *)
(* A URL is its scheme here: "" is a bare path, "c" a drive letter.        *)
(***************************************************************************)
EXTENDS Integers

CONSTANTS
  Statuses,   \* statuses a server answers with
  Cut         \* what is read of a body whose connection breaks

\* What ureq 2 reports apart from a status.  The first may be gone in a moment.
TransientErrors == {"Dns", "ConnectionFailed", "Io", "ProxyConnect"}
PermanentErrors ==
  {"InvalidUrl", "UnknownScheme", "TooManyRedirects", "BadStatus", "BadHeader",
   "InsecureRequestHttpsOnly", "InvalidProxyUrl", "ProxyUnauthorized"}

------------------------------------------------------------------------------
(* The world: what may happen to a request whose body would be in Bodies.    *)
NoStatus == 0

HttpEvents(Bodies) ==
  [happened : {"response"}, status : Statuses, body : Bodies \cup {Cut}]
    \cup [happened : TransientErrors \cup PermanentErrors, status : {NoStatus},
          body : {Cut}]

FileEvents(Bodies) ==
  [happened : {"read"}, status : {NoStatus}, body : Bodies]
    \cup [happened : {"absent", "unreadable"}, status : {NoStatus}, body : {Cut}]

------------------------------------------------------------------------------
(* The answer: Ok(Response) or Err(FetchError).                              *)
Response(status, body) == [ok |-> TRUE, status |-> status, body |-> body]
FetchError(kind) == [ok |-> FALSE, error |-> kind]

\* url_scheme: one letter before the colon is a Windows drive, not a scheme.
UrlScheme(url) == IF url = "c" THEN "" ELSE url

\* What a request URL points at.
Target(url) ==
  IF UrlScheme(url) \in {"http", "https"} THEN "Http"
  ELSE IF UrlScheme(url) \in {"file", ""} THEN "File" ELSE "Unsupported"

\* Mutant of TransportError: every failure of ureq is worth another attempt.
TransportErrorBlind(kind) == "Transport"

\* transport_error: only what may change in a moment is a Transport error.
TransportError(kind) == IF kind \in TransientErrors THEN "Transport" ELSE "Other"

\* fetch_http and response_from: a status is no error, a body cut short is.
FetchHttp(event) ==
  IF event.happened # "response" THEN FetchError(TransportError(event.happened))
  ELSE IF event.body = Cut THEN FetchError("Transport")
  ELSE Response(event.status, event.body)

\* fetch_file: no such file reads like HTTP's 404, everything else is permanent.
FetchFile(event) ==
  IF event.happened = "read" THEN Response(200, event.body)
  ELSE IF event.happened = "absent" THEN Response(404, Cut) ELSE FetchError("Other")

\* The events a request for `url` may meet, and fetch_blocking's answer to one.
Events(url, Bodies) ==
  IF Target(url) = "Http" THEN HttpEvents(Bodies)
  ELSE IF Target(url) = "File" THEN FileEvents(Bodies)
  ELSE [happened : {"unsupported"}, status : {NoStatus}, body : {Cut}]

Fetched(url, event) ==
  IF Target(url) = "Http" THEN FetchHttp(event)
  ELSE IF Target(url) = "File" THEN FetchFile(event) ELSE FetchError("Other")

IsSuccess(answer) == answer.ok /\ answer.status \in 200..299

\* FetchError::is_retryable, and is_retryable_status for a surfaced status.
RetryableStatuses == {429, 500, 502, 503, 504}
IsRetryable(answer) ==
  IF answer.ok THEN answer.status \in RetryableStatuses
  ELSE answer.error = "Transport"
==============================================================================
