----------------------------- MODULE ApiRequests -----------------------------
(***************************************************************************)
(* How the validators of the web API answer a request                      *)
(* (api-request-validator.ts, request-validators/). A request is the       *)
(* operation it calls and the flaws it has; a validator checks for them    *)
(* in a fixed order, and the first flaw found gives the code of the error. *)
(* A well-formed id that has no document is found by the controller, after *)
(* all these checks.                                                       *)
(***************************************************************************)
EXTENDS Naturals, Sequences

\* The codes of errors and their HTTP status. A release id that is missing is an error
\* of the server's configuration.
StatusCode ==
    [ resourceNotFound |-> 404, invalidResourceId |-> 400, invalidURL |-> 400,
      invalidJsonDocument |-> 400, missingApiVersionQueryParameter |-> 400,
      unsupportedApiVersion |-> 400, missingContentTypeHeader |-> 400,
      unsupportedContentType |-> 415, requestBodyTooLarge |-> 413,
      outOfRangePriority |-> 400, malformedRequest |-> 400,
      invalidFrequencyExpression |-> 400, invalidScanType |-> 400, unauthorized |-> 401,
      internalError |-> 500, missingReleaseId |-> 500 ]

NoContent == 204

\* The answer of a controller that handles a request is not described here.
Handled == 200

ErrorCodes == DOMAIN StatusCode

\* getErrorResponse()
ErrorResponse(code) == StatusCode[code]

Check(flaw, code) == [flaw |-> flaw, response |-> ErrorResponse(code)]

-------------------------------------------------------------------------------
\* validateApiVersion(): every operation has the version 1.0.
ApiVersionChecks ==
    << Check("noVersion", "missingApiVersionQueryParameter"),
       Check("otherVersion", "unsupportedApiVersion") >>

\* validateContentType(), of POST requests only: a body that is not JSON leaves its error
\* in the response, an empty one leaves none.
ContentTypeChecks ==
    << Check("notJson", "invalidJsonDocument"),
       [flaw |-> "empty", response |-> NoContent],
       Check("noContentType", "missingContentTypeHeader"),
       Check("otherContentType", "unsupportedContentType") >>

PostChecks == ApiVersionChecks \o ContentTypeChecks

GetWebsiteChecks == ApiVersionChecks \o << Check("badId", "invalidResourceId") >>

\* Mutant: any text is taken for the id of a scan.
AnyScanIdChecks ==
    ApiVersionChecks \o
    << Check("badId", "invalidResourceId"), Check("badScanType", "invalidScanType") >>

GetWebsiteScanChecks ==
    ApiVersionChecks \o
    << Check("badId", "invalidResourceId"),
       Check("badScanId", "invalidResourceId"),
       Check("badScanType", "invalidScanType") >>

PostPageChecks ==
    PostChecks \o
    << Check("malformed", "malformedRequest"),
       Check("noId", "invalidResourceId"),
       Check("badId", "invalidResourceId") >>

\* An id is optional: a website without one is created.
PostWebsiteChecks ==
    PostChecks \o
    << Check("malformed", "malformedRequest"),
       Check("pages", "malformedRequest"),
       Check("badId", "invalidResourceId") >>

\* isInvalidScanPriority(): the bounds of restApiConfig.
MinPriority == 0 - 1000

MaxPriority == 1000

PriorityFlaws(priority) ==
    IF priority < MinPriority \/ priority > MaxPriority THEN {"badPriority"} ELSE {}

PostWebsiteScanChecks ==
    PostChecks \o
    << Check("malformed", "malformedRequest"),
       Check("noId", "malformedRequest"),
       Check("badId", "invalidResourceId"),
       Check("badFrequency", "invalidFrequencyExpression"),
       Check("badPriority", "outOfRangePriority") >>

\* The operation GET health without a target is checked for the version only.
GetHealthReportChecks ==
    ApiVersionChecks \o
    << Check("otherTarget", "resourceNotFound"), Check("noRelease", "missingReleaseId") >>

\* What the controllers find themselves.
NotFoundCheck == << Check("unknownId", "resourceNotFound") >>

Checks ==
    [ getWebsite      |-> GetWebsiteChecks \o NotFoundCheck,
      getWebsiteScan  |-> GetWebsiteScanChecks \o NotFoundCheck,
      postPage        |-> PostPageChecks \o NotFoundCheck,
      postWebsite     |-> PostWebsiteChecks,
      postWebsiteScan |-> PostWebsiteScanChecks \o NotFoundCheck,
      getHealthReport |-> GetHealthReportChecks ]

\* The status of the answer to a request: the first check that fails gives it.
Answer(request) ==
    LET checks == Checks[request.api]
        failing == {i \in DOMAIN checks : checks[i].flaw \in request.flaws}
        first == CHOOSE i \in failing : \A j \in failing : i <= j
    IN  IF failing = {} THEN Handled ELSE checks[first].response
=============================================================================
