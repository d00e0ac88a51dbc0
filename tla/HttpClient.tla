----------------------------- MODULE HttpClient -----------------------------
(***************************************************************************)
(* One call on HttpClient: request() follows redirects, deciding at each   *)
(* hop whether the body may go along; then the caller's reader consumes    *)
(* the response body; the whole runs under --timeout when it is not zero.  *)
(* A URL is reduced to what the decisions look at: its scheme, its host    *)
(* and its effective port.                                                 *)
(***************************************************************************)
EXTENDS Naturals, Sequences

CONSTANTS
    Urls,           \* the URLs a call may start from or be redirected to
    MaxRedirects,   \* MAX_REDIRECTS
    Limit,          \* MAX_BUFFERED_RESPONSE, PROBE_BODY_PEEK and the like
    MaxFrame        \* bound: the size of a data frame

ASSUME HttpAssumption ==
    /\ \A u \in Urls : u.scheme \in {"http", "https", "other"}
    /\ MaxRedirects \in Nat \ {0}
    /\ Limit \in Nat \ {0}
    /\ MaxFrame \in Nat \ {0}

\* What the program asks of the client: get_bytes, get_drained, get_prefix,
\* post_bytes, and send_streaming for either direction of a transfer.
Calls ==
    [reader : {"collect", "drain", "prefix", "caller"}, body : {"empty"}]
        \cup {[reader |-> "collect", body |-> "bytes"],
              [reader |-> "caller", body |-> "stream"]}

VARIABLES
    call,           \* the call, fixed
    timed,          \* it runs under a timeout, fixed
    stage,          \* "send", "wait", "read", then "ok" or "error"
    url,            \* where the next request goes
    method,         \* and how
    body,           \* what is left to send; "dropped" after a 301, 302 or 303
    sent,           \* responses received
    log,            \* the requests that went out
    kept            \* response bytes held in memory

request == <<url, method, body, sent, log>>
vars == <<call, timed, stage, request, kept>>

Init ==
    /\ call \in Calls
    /\ timed \in BOOLEAN
    /\ stage = "send"
    /\ url \in Urls
    /\ method = IF call.body = "empty" THEN "GET" ELSE "POST"
    /\ body = call.body
    /\ sent = 0
    /\ log = <<>>
    /\ kept = 0

Finished == {"ok", "error"}

End(result) ==
    /\ stage' = result
    /\ UNCHANGED <<call, timed, request, kept>>

-----------------------------------------------------------------------------
(* request(): the redirect loop. *)

RefuseScheme ==
    /\ stage = "send"
    /\ url.scheme \notin {"http", "https"}
    /\ End("error")

\* A stream is taken out and an empty body left in its place.
Send ==
    /\ stage = "send"
    /\ url.scheme \in {"http", "https"}
    /\ stage' = "wait"
    /\ log' = Append(log, [url |-> url, method |-> method,
                           body |-> IF body \in {"bytes", "stream"} THEN body ELSE "empty"])
    /\ body' = IF body = "stream" THEN "taken" ELSE body
    /\ UNCHANGED <<call, timed, url, method, sent, kept>>

ConnectionFails ==
    /\ stage = "wait"
    /\ End("error")

\* Bug: ports are left out of the comparison.
SameHost(a, b) == a.scheme = b.scheme /\ a.host = b.host

SameOrigin(a, b) == a.scheme = b.scheme /\ a.host = b.host /\ a.port = b.port

\* 301, 302 and 303 drop the body; 307 and 308 keep it, unless it is a stream.
Redirects(status) ==
    \/ status = "drop"
    \/ status = "keep" /\ call.body # "stream"

\* Bug: the downgrade check looks at the URL the call began with.
RefusedFromStart(status, next) ==
    \/ log[1].url.scheme = "https" /\ next.scheme = "http"
    \/ sent + 1 = MaxRedirects
    \/ status = "keep" /\ body = "bytes" /\ ~SameOrigin(url, next)

\* Bug: one redirect too many.
RefusedLate(status, next) ==
    \/ url.scheme = "https" /\ next.scheme = "http"
    \/ sent = MaxRedirects
    \/ status = "keep" /\ body = "bytes" /\ ~SameOrigin(url, next)

Refused(status, next) ==
    \/ url.scheme = "https" /\ next.scheme = "http"
    \/ sent + 1 = MaxRedirects
    \/ status = "keep" /\ body = "bytes" /\ ~SameOrigin(url, next)

Answer == stage = "wait" /\ sent' = sent + 1

\* Not a redirect, or one without a Location: the response is the result.
Return ==
    /\ Answer
    /\ stage' = IF call.reader = "caller" THEN "ok" ELSE "read"
    /\ UNCHANGED <<call, timed, url, method, body, log, kept>>

\* A redirect to a target that is malformed, or refused.
RedirectFails ==
    /\ Answer
    /\ \/ \E status \in {"drop", "keep"} : Redirects(status)      \* malformed
       \/ \E status \in {"drop", "keep"}, next \in Urls :
             Redirects(status) /\ Refused(status, next)
    /\ stage' = "error"
    /\ UNCHANGED <<call, timed, url, method, body, log, kept>>

\* Bug: a 307 after a 303 picks the method and the body of the call up again.
FollowReviving(status, next) ==
    /\ Answer
    /\ Redirects(status)
    /\ ~Refused(status, next)
    /\ stage' = "send"
    /\ url' = next
    /\ method' = IF status = "drop" \/ call.body = "empty" THEN "GET" ELSE "POST"
    /\ body' = IF status = "drop" THEN "dropped" ELSE call.body
    /\ UNCHANGED <<call, timed, log, kept>>

Follow(status, next) ==
    /\ Answer
    /\ Redirects(status)
    /\ ~Refused(status, next)
    /\ stage' = "send"
    /\ url' = next
    /\ method' = IF status = "drop" THEN "GET" ELSE method
    /\ body' = IF status = "drop" THEN "dropped" ELSE body
    /\ UNCHANGED <<call, timed, log, kept>>

-----------------------------------------------------------------------------
(* Reading the response: collect_limited, drain_body and body_prefix. *)

Lesser(a, b) == IF a <= b THEN a ELSE b

\* Bug: the limit is checked before the frame is added, not after.
CollectThenCheck(n) ==
    /\ call.reader = "collect"
    /\ \/ /\ kept > Limit
          /\ stage' = "error"
          /\ UNCHANGED kept
       \/ /\ kept <= Limit
          /\ kept' = kept + n
          /\ UNCHANGED stage

Collect(n) ==
    /\ call.reader = "collect"
    /\ \/ /\ kept + n > Limit
          /\ stage' = "error"
          /\ UNCHANGED kept
       \/ /\ kept + n <= Limit
          /\ kept' = kept + n
          /\ UNCHANGED stage

Drain(n) ==
    /\ call.reader = "drain"
    /\ UNCHANGED <<stage, kept>>

\* Bug: the surplus is dropped, and the reading goes on.
PrefixToTheEnd(n) ==
    /\ call.reader = "prefix"
    /\ kept' = Lesser(Limit, kept + n)
    /\ UNCHANGED stage

Prefix(n) ==
    /\ call.reader = "prefix"
    /\ kept' = Lesser(Limit, kept + n)
    /\ stage' = IF kept' = Limit THEN "ok" ELSE "read"

Frame ==
    /\ stage = "read"
    /\ \E n \in 1..MaxFrame : Collect(n) \/ Drain(n) \/ Prefix(n)
    /\ UNCHANGED <<call, timed, request>>

BodyEnds ==
    /\ stage = "read"
    /\ End("ok")

BodyFails ==
    /\ stage = "read"
    /\ End("error")

\* Bug: the timeout covers the request and not the body.
TimeOutRequest ==
    /\ timed
    /\ stage \in {"send", "wait"}
    /\ End("error")

\* with_timeout (for send_streaming, the caller's within): the call is dropped
\* wherever it is.
TimeOut ==
    /\ timed
    /\ stage \notin Finished
    /\ End("error")

Terminating ==
    /\ stage \in Finished
    /\ UNCHANGED vars

Next ==
    \/ RefuseScheme
    \/ Send
    \/ ConnectionFails
    \/ Return
    \/ RedirectFails
    \/ \E status \in {"drop", "keep"}, next \in Urls : Follow(status, next)
    \/ Frame
    \/ BodyEnds
    \/ BodyFails
    \/ TimeOut
    \/ Terminating

Spec == Init /\ [][Next]_vars

\* The client runs, and a timeout that was set fires in the end.  Servers are
\* not asked to answer.
Fairness == WF_vars(RefuseScheme \/ Send) /\ WF_vars(TimeOut)
FairSpec == Spec /\ Fairness

-----------------------------------------------------------------------------
Request == [url : Urls, method : {"GET", "POST"}, body : {"empty", "bytes", "stream"}]

\* Every variable has its type, and no reader holds more than Limit bytes.
TypeOK ==
    /\ call \in Calls
    /\ timed \in BOOLEAN
    /\ stage \in {"send", "wait", "read"} \cup Finished
    /\ url \in Urls
    /\ method \in {"GET", "POST"}
    /\ body \in {"empty", "bytes", "stream", "taken", "dropped"}
    /\ sent \in Nat
    /\ log \in Seq(Request)
    /\ kept \in 0..Limit

Origin(u) == <<u.scheme, u.host, u.port>>

\* The telemetry POST "must not go wherever a redirect points": over a whole
\* chain of redirects the results reach no origin but the one asked for.
BodyStaysHome ==
    \A i \in 1..Len(log) : log[i].body = "bytes" => Origin(log[i].url) = Origin(log[1].url)

\* Once one request of a chain went over https, no later one goes out in clear
\* and none leaves the two schemes, whatever the hops in between.
NeverDowngraded ==
    \A i, j \in 1..Len(log) :
        /\ log[j].url.scheme # "other"
        /\ i < j /\ log[i].url.scheme = "https" => log[j].url.scheme = "https"

\* A body dropped by a hop stays dropped, with the method, for the rest of the
\* chain; a stream goes out once; no request claims a body under GET.
BodyNeverRevived ==
    \A i, j \in 1..Len(log) :
        /\ i < j => /\ log[j].body # "stream"
                    /\ log[j].body = "bytes" => log[i].body = "bytes"
                    /\ log[i].method = "GET" => log[j].method = "GET"
        /\ log[i].body # "empty" => log[i].method = "POST"

\* A redirect loop costs at most MaxRedirects requests.
ChainBounded == Len(log) <= MaxRedirects

\* A call with a timeout ends, whatever the servers do or fail to do.
TimedCallEnds == timed ~> stage \in Finished

\* Without a timeout a body that never ends still cannot keep collect_limited
\* or body_prefix reading: they stop at their limit.
EndlessBodyEnds ==
    WF_vars(Frame) =>
        (stage = "read" /\ call.reader \in {"collect", "prefix"} ~> stage \in Finished)
=============================================================================
