-------------------------- MODULE HttpClientProofs --------------------------
(***************************************************************************)
(* Theorems about HttpClient, for every set of URLs and every limit.       *)
(***************************************************************************)
EXTENDS HttpClient, TLAPS

\* The fields of a URL are opaque; only its membership is known.
LEMMA TypeInit == Init => TypeOK
BY HttpAssumption DEF Init, TypeOK, Calls, Finished, Request

LEMMA TypeStep == TypeOK /\ [Next]_vars => TypeOK'
<1> SUFFICES ASSUME TypeOK, [Next]_vars PROVE TypeOK'
  OBVIOUS
<1> USE HttpAssumption DEF TypeOK, Finished, request
<1>1. CASE RefuseScheme \/ ConnectionFails \/ BodyEnds \/ BodyFails \/ TimeOut
  BY <1>1 DEF RefuseScheme, ConnectionFails, BodyEnds, BodyFails, TimeOut, End
<1>2. CASE Send
  <2>1. [url |-> url, method |-> method,
         body |-> IF body \in {"bytes", "stream"} THEN body ELSE "empty"] \in Request
    BY DEF Request
  <2>2. log' \in Seq(Request)
    BY <1>2, <2>1 DEF Send
  <2>3. body' \in {"empty", "bytes", "stream", "taken", "dropped"}
    BY <1>2 DEF Send
  <2>4. QED
    BY <1>2, <2>2, <2>3 DEF Send
<1>3. CASE Return \/ RedirectFails
  BY <1>3 DEF Return, RedirectFails, Answer
<1>4. ASSUME NEW status \in {"drop", "keep"}, NEW next \in Urls, Follow(status, next)
      PROVE  TypeOK'
  BY <1>4 DEF Follow, Answer
<1>5. CASE Frame
  <2>1. PICK n \in 1..MaxFrame : Collect(n) \/ Drain(n) \/ Prefix(n)
    BY <1>5 DEF Frame
  <2>2. kept' \in 0..Limit /\ stage' \in {"send", "wait", "read", "ok", "error"}
    BY <1>5, <2>1 DEF Frame, Collect, Drain, Prefix, Lesser
  <2>3. QED
    BY <1>5, <2>2 DEF Frame
<1>6. CASE UNCHANGED vars
  BY <1>6 DEF vars
<1>7. QED
  BY <1>1, <1>2, <1>3, <1>4, <1>5, <1>6 DEF Next, Terminating

\* Every variable keeps its type, and no reader holds more than its limit.
THEOREM TypeCorrect == Spec => []TypeOK
BY TypeInit, TypeStep, PTL DEF Spec

-----------------------------------------------------------------------------
(* The inductive invariant: what the next hop may still do, given the log. *)

Hopping == stage \in {"send", "wait"}

\* The log is as long as the responses received, and one longer while waiting.
LogCounted ==
    /\ stage = "send" => Len(log) = sent /\ sent < MaxRedirects
    /\ stage = "wait" => Len(log) = sent + 1 /\ sent < MaxRedirects
                         /\ url.scheme \in {"http", "https"}

\* A body still to be sent has not left home.
AtHome ==
    Hopping /\ body = "bytes" /\ log # <<>> => SameOrigin(log[1].url, url)

\* An exchange that used https is still on it, or about to be refused.
StillSecure ==
    Hopping => \A i \in 1..Len(log) :
                   log[i].url.scheme = "https" => url.scheme \in {"https", "other"}

\* What is left to send was sent by every earlier hop, or by none of them.
BodyFollows ==
    /\ body = "stream" => log = <<>>
    /\ Hopping /\ body = "bytes" => \A i \in 1..Len(log) : log[i].body = "bytes"
    /\ Hopping /\ method = "POST" => \A i \in 1..Len(log) : log[i].method = "POST"
    /\ body \in {"bytes", "stream"} => method = "POST"

IInv ==
    /\ TypeOK
    /\ LogCounted
    /\ AtHome
    /\ StillSecure
    /\ BodyFollows
    /\ BodyStaysHome
    /\ NeverDowngraded
    /\ BodyNeverRevived
    /\ ChainBounded

LEMMA InvInit == Init => IInv
<1> SUFFICES ASSUME Init PROVE IInv
  OBVIOUS
<1>1. TypeOK
  BY TypeInit
<1>2. QED
  BY <1>1, HttpAssumption DEF Init, IInv, LogCounted, AtHome, StillSecure, BodyFollows,
     BodyStaysHome, NeverDowngraded, BodyNeverRevived, ChainBounded, Hopping, Calls

\* A hop that only moves the stage out of the loop touches nothing.
LEMMA InvLeave ==
    ASSUME IInv, TypeOK', UNCHANGED <<url, method, body, log>>, ~Hopping'
    PROVE  IInv'
BY DEF IInv, LogCounted, AtHome, StillSecure, BodyFollows, BodyStaysHome,
   NeverDowngraded, BodyNeverRevived, ChainBounded, Hopping

\* The request that goes out fits the log before it.
LEMMA InvSend ==
    ASSUME IInv, TypeOK', Send
    PROVE  IInv'
<1> DEFINE r == [url |-> url, method |-> method,
                 body |-> IF body \in {"bytes", "stream"} THEN body ELSE "empty"]
<1>t. /\ log \in Seq(Request) /\ sent \in Nat /\ method \in {"GET", "POST"}
      /\ body \in {"empty", "bytes", "stream", "taken", "dropped"}
  BY DEF IInv, TypeOK
<1>1. /\ stage = "send" /\ stage' = "wait" /\ log' = Append(log, r)
      /\ url.scheme \in {"http", "https"}
      /\ UNCHANGED <<url, method, sent>>
      /\ body' = IF body = "stream" THEN "taken" ELSE body
  BY DEF Send
<1>2. /\ Len(log') = Len(log) + 1
      /\ log'[Len(log) + 1] = r
      /\ \A i \in 1..Len(log) : log'[i] = log[i]
  BY <1>t, <1>1
<1>l. Len(log) \in Nat /\ (log = <<>> <=> Len(log) = 0)
  BY <1>t
<1>3. LogCounted' /\ ChainBounded'
  BY <1>t, <1>1, <1>2, HttpAssumption DEF IInv, LogCounted, ChainBounded
<1>4. AtHome' /\ BodyStaysHome'
  <2>1. body = "bytes" => SameOrigin(log'[1].url, url)
    <3>1. CASE log = <<>>
      BY <1>2, <1>l, <3>1 DEF SameOrigin
    <3>2. CASE log # <<>>
      BY <1>1, <1>2, <1>l, <3>2 DEF IInv, AtHome, Hopping
    <3>3. QED BY <3>1, <3>2
  <2>2. AtHome'
    BY <1>1, <2>1 DEF AtHome, Hopping, SameOrigin
  <2>3. ASSUME NEW i \in 1..Len(log'), log'[i].body = "bytes"
        PROVE  Origin(log'[i].url) = Origin(log'[1].url)
    <3>1. CASE i = Len(log) + 1
      BY <1>2, <2>1, <2>3, <3>1 DEF SameOrigin, Origin
    <3>2. CASE i \in 1..Len(log)
      BY <1>2, <1>l, <2>3, <3>2 DEF IInv, BodyStaysHome, Origin
    <3>3. QED BY <1>2, <1>l, <3>1, <3>2
  <2>4. QED
    BY <2>2, <2>3 DEF BodyStaysHome, Origin
<1>5. StillSecure' /\ NeverDowngraded'
  <2>1. \A i \in 1..Len(log) : log[i].url.scheme = "https" => url.scheme = "https"
    BY <1>1 DEF IInv, StillSecure, Hopping
  <2>2. \A i \in 1..Len(log') : log'[i].url.scheme = "https" => url.scheme = "https"
    BY <1>2, <1>l, <2>1
  <2>3. StillSecure'
    BY <1>1, <2>2 DEF StillSecure
  <2>4. \A j \in 1..Len(log') : log'[j].url.scheme # "other"
    BY <1>1, <1>2, <1>l DEF IInv, NeverDowngraded
  <2>5. ASSUME NEW i \in 1..Len(log'), NEW j \in 1..Len(log'), i < j,
               log'[i].url.scheme = "https"
        PROVE  log'[j].url.scheme = "https"
    <3>1. CASE j = Len(log) + 1
      BY <1>2, <2>2, <2>5, <3>1
    <3>2. CASE j \in 1..Len(log)
      BY <1>2, <1>l, <2>5, <3>2 DEF IInv, NeverDowngraded
    <3>3. QED BY <1>2, <1>l, <3>1, <3>2
  <2>6. QED
    BY <2>3, <2>4, <2>5 DEF NeverDowngraded
<1>6. BodyFollows' /\ BodyNeverRevived'
  <2>0. /\ body = "stream" => log = <<>>
        /\ body = "bytes" => \A i \in 1..Len(log) : log[i].body = "bytes"
        /\ method = "POST" => \A i \in 1..Len(log) : log[i].method = "POST"
        /\ body \in {"bytes", "stream"} => method = "POST"
    BY <1>1 DEF IInv, BodyFollows, Hopping
  <2>1. BodyFollows'
    <3>1. body' = "bytes" => body = "bytes" /\ r.body = "bytes"
      BY <1>1
    <3>2. body' # "stream"
      BY <1>1
    <3>3. body' = "bytes" => \A i \in 1..Len(log') : log'[i].body = "bytes"
      BY <1>2, <1>l, <2>0, <3>1
    <3>4. method' = "POST" => \A i \in 1..Len(log') : log'[i].method = "POST"
      BY <1>1, <1>2, <1>l, <2>0
    <3>5. QED
      BY <1>1, <2>0, <3>1, <3>2, <3>3, <3>4 DEF BodyFollows
  <2>2. ASSUME NEW i \in 1..Len(log'), NEW j \in 1..Len(log')
        PROVE  /\ i < j => /\ log'[j].body # "stream"
                           /\ log'[j].body = "bytes" => log'[i].body = "bytes"
                           /\ log'[i].method = "GET" => log'[j].method = "GET"
               /\ log'[i].body # "empty" => log'[i].method = "POST"
    <3>1. CASE i \in 1..Len(log) /\ j \in 1..Len(log)
      BY <1>2, <3>1 DEF IInv, BodyNeverRevived
    <3>2. CASE j = Len(log) + 1 /\ i \in 1..Len(log)
      <4>1. log'[j] = r /\ log'[i] = log[i] /\ log # <<>>
        BY <1>2, <1>l, <3>2
      <4>2. r.body # "stream"
        BY <2>0, <4>1
      <4>3. r.body = "bytes" => log[i].body = "bytes"
        BY <2>0, <3>2
      <4>4. log[i].method = "GET" => r.method = "GET"
        BY <1>t, <2>0, <3>2
      <4>5. log[i].body # "empty" => log[i].method = "POST"
        BY <3>2 DEF IInv, BodyNeverRevived
      <4>6. QED BY <4>1, <4>2, <4>3, <4>4, <4>5
    <3>3. CASE i = Len(log) + 1
      <4>1. ~(i < j)
        BY <1>2, <1>l, <3>3
      <4>2. r.body # "empty" => r.method = "POST"
        BY <2>0
      <4>3. QED BY <1>2, <3>3, <4>1, <4>2
    <3>4. QED BY <1>2, <1>l, <3>1, <3>2, <3>3
  <2>3. QED
    BY <2>1, <2>2 DEF BodyNeverRevived
<1>7. QED
  BY <1>3, <1>4, <1>5, <1>6 DEF IInv

\* A redirect that is followed leads where the log allows.
LEMMA InvFollow ==
    ASSUME IInv, TypeOK', NEW status \in {"drop", "keep"}, NEW next \in Urls,
           Follow(status, next)
    PROVE  IInv'
<1>1. /\ stage = "wait" /\ stage' = "send" /\ sent' = sent + 1 /\ log' = log /\ url' = next
      /\ ~Refused(status, next)
      /\ method' = IF status = "drop" THEN "GET" ELSE method
      /\ body' = IF status = "drop" THEN "dropped" ELSE body
  BY DEF Follow, Answer
<1>2. LogCounted'
  BY <1>1, HttpAssumption DEF IInv, LogCounted, Refused, TypeOK
<1>3. AtHome'
  BY <1>1 DEF IInv, AtHome, Hopping, Refused, SameOrigin
<1>4. StillSecure'
  <2>1. next.scheme \in {"http", "https", "other"}
    BY HttpAssumption
  <2>2. url.scheme = "https" => next.scheme # "http"
    BY <1>1 DEF Refused
  <2>3. \A i \in 1..Len(log) : log[i].url.scheme = "https" => url.scheme = "https"
    BY <1>1 DEF IInv, StillSecure, LogCounted, Hopping
  <2>4. QED
    BY <1>1, <2>1, <2>2, <2>3 DEF StillSecure
<1>5. BodyFollows'
  BY <1>1 DEF IInv, BodyFollows, Hopping
<1>6. QED
  BY <1>1, <1>2, <1>3, <1>4, <1>5 DEF IInv, BodyStaysHome, NeverDowngraded,
     BodyNeverRevived, ChainBounded

LEMMA InvStep == IInv /\ [Next]_vars => IInv'
<1> SUFFICES ASSUME IInv, [Next]_vars PROVE IInv'
  OBVIOUS
<1>1. TypeOK'
  BY TypeStep DEF IInv
<1>2. CASE RefuseScheme \/ ConnectionFails \/ BodyEnds \/ BodyFails \/ TimeOut
  BY <1>1, <1>2, InvLeave DEF RefuseScheme, ConnectionFails, BodyEnds, BodyFails, TimeOut,
     End, request, Hopping
<1>3. CASE Send
  BY <1>1, <1>3, InvSend
<1>4. CASE Return \/ RedirectFails
  BY <1>1, <1>4, InvLeave DEF Return, RedirectFails, Answer, Hopping
<1>5. ASSUME NEW status \in {"drop", "keep"}, NEW next \in Urls, Follow(status, next)
      PROVE  IInv'
  BY <1>1, <1>5, InvFollow
<1>6. CASE Frame
  BY <1>1, <1>6, InvLeave DEF Frame, Collect, Drain, Prefix, request, Hopping
<1>7. CASE UNCHANGED vars
  BY <1>1, <1>7 DEF vars, request, IInv, LogCounted, AtHome, StillSecure, BodyFollows,
     BodyStaysHome, NeverDowngraded, BodyNeverRevived, ChainBounded, Hopping
<1>8. QED
  BY <1>2, <1>3, <1>4, <1>5, <1>6, <1>7 DEF Next, Terminating

LEMMA Inductive == Spec => []IInv
BY InvInit, InvStep, PTL DEF Spec

-----------------------------------------------------------------------------
\* The telemetry body reaches no origin but the one it was posted to.
THEOREM BodyNeverLeaves == Spec => []BodyStaysHome
<1>1. IInv => BodyStaysHome
  BY DEF IInv
<1>2. QED
  BY Inductive, <1>1, PTL

\* No request of a chain goes out in clear after one that did not.
THEOREM NoDowngrade == Spec => []NeverDowngraded
<1>1. IInv => NeverDowngraded
  BY DEF IInv
<1>2. QED
  BY Inductive, <1>1, PTL

\* A dropped body stays dropped, and a stream is sent at most once.
THEOREM NoRevival == Spec => []BodyNeverRevived
<1>1. IInv => BodyNeverRevived
  BY DEF IInv
<1>2. QED
  BY Inductive, <1>1, PTL

\* A redirect loop ends after MaxRedirects requests.
THEOREM ChainIsBounded == Spec => []ChainBounded
<1>1. IInv => ChainBounded
  BY DEF IInv
<1>2. QED
  BY Inductive, <1>1, PTL
=============================================================================
