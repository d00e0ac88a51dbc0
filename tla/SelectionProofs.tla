-------------------------- MODULE SelectionProofs --------------------------
(***************************************************************************)
(* The choice of the fastest server, for any list of servers, any number   *)
(* of ping workers and every order the pings end in.                       *)
(***************************************************************************)
EXTENDS Selection, SequenceTheorems, FiniteSetTheorems, WellFoundedInduction, TLAPS

-----------------------------------------------------------------------------
(* min_by *)

\* Of a set of naturals with a member one is the least.
LEMMA Least ==
    ASSUME NEW S \in SUBSET Nat, S # {}
    PROVE  \E m \in S : \A n \in S : m <= n
<1> DEFINE Less == OpToRel(<, Nat)
<1>1. Less = {ss \in Nat \X Nat : ss[1] < ss[2]}
  BY DEF OpToRel
<1>2. PICK m \in S : \A n \in S : <<n, m>> \notin Less
  <2>1. IsWellFoundedOn(Less, Nat)
    BY NatLessThanWellFounded
  <2> HIDE DEF Less
  <2>2. QED
    BY <2>1, WFMin
<1> HIDE DEF Less
<1>3. \A n \in S : ~(n < m)
  BY <1>1, <1>2
<1>4. QED
  BY <1>3

Answered == [server : Jobs, ping : 0..MaxPing]

\* Best names an answer, and where one measured anything the fastest of those.
LEMMA BestIsFastest ==
    ASSUME pings \in Seq(Answered), pings # <<>>
    PROVE  /\ Best \in DOMAIN pings
           /\ \A l \in DOMAIN pings :
                 pings[l].ping > 0 => pings[Best].ping \in 1..pings[l].ping
<1>0. /\ DOMAIN pings = 1..Len(pings) /\ Len(pings) \in Nat \ {0}
      /\ \A k \in DOMAIN pings : pings[k].ping \in Nat
  <2>1. MaxPing \in Nat /\ \A k \in 1..Len(pings) : pings[k] \in Answered
    BY SelectionAssumption
  <2>2. QED
    BY <2>1 DEF Answered
<1>1. CASE Positive = {}
  <2>1. Best = 1
    BY <1>1 DEF Best
  <2>2. QED
    BY <1>0, <1>1, <2>1 DEF Positive
<1>2. CASE Positive # {}
  <2> DEFINE Times == {pings[k].ping : k \in Positive}
  <2>1. PICK t \in Times : \A u \in Times : t <= u
    <3>1. Times \in SUBSET Nat /\ Times # {}
      BY <1>0, <1>2 DEF Positive
    <3>2. QED
      BY <3>1, Least
  <2> DEFINE Firsts == {k \in Positive : pings[k].ping = t}
  <2>2. PICK k \in Firsts : \A l \in Firsts : k <= l
    <3>1. Firsts \in SUBSET Nat /\ Firsts # {}
      BY <1>0, <2>1 DEF Positive
    <3>2. QED
      BY <3>1, Least
  <2>3. /\ k \in Positive
        /\ \A l \in Positive : \/ pings[k].ping < pings[l].ping
                               \/ pings[k].ping = pings[l].ping /\ k <= l
    <3>1. k \in Positive /\ pings[k].ping = t
      BY <2>2
    <3>2. ASSUME NEW l \in Positive
          PROVE  \/ t < pings[l].ping
                 \/ t = pings[l].ping /\ k <= l
      <4>1. t <= pings[l].ping /\ t \in Nat /\ pings[l].ping \in Nat
        BY <1>0, <2>1 DEF Positive
      <4>2. pings[l].ping = t => k <= l
        BY <2>2
      <4>3. QED
        BY <4>1, <4>2
    <3>3. QED
      BY <3>1, <3>2
  <2>4. /\ Best \in Positive
        /\ \A l \in Positive : \/ pings[Best].ping < pings[l].ping
                               \/ pings[Best].ping = pings[l].ping /\ Best <= l
    BY <1>2, <2>3 DEF Best
  <2>5. QED
    BY <1>0, <2>4 DEF Positive
<1>3. QED
  BY <1>1, <1>2

-----------------------------------------------------------------------------
(* The pings. *)

States == {"queued"} \cup InFlight \cup Over

\* While the pings are taken, and when a choice has been made from them, every
\* server of the list has a job; one that answered is among the answers.
Choosing ==
    /\ pings \in Seq(Answered)
    /\ pc \in {"load", "loaded"} => pings = <<>>
    /\ pc = "pinging" \/ (pc = "test" /\ opts.server = {}) => job \in [Jobs -> States]
    /\ pc = "pinging" =>
          \A i \in Jobs : job[i] = "answered" => \E k \in DOMAIN pings : pings[k].server = i

ChoiceInv == Choosing /\ FastestTested

LEMMA AppendTyped ==
    ASSUME NEW S, NEW s \in Seq(S), NEW x \in S
    PROVE  /\ Append(s, x) \in Seq(S) /\ DOMAIN Append(s, x) = 1..(Len(s) + 1)
           /\ DOMAIN s = 1..Len(s) /\ Len(s) \in Nat
           /\ Append(s, x)[Len(s) + 1] = x
           /\ \A i \in DOMAIN s : Append(s, x)[i] = s[i]
OBVIOUS

\* A job that goes on or ends without an answer.
LEMMA Unanswered ==
    ASSUME Choosing, pc = "pinging", UNCHANGED <<pc, load, pings>>,
           NEW i \in Jobs, NEW state \in States \ {"answered"}, Becomes(i, state)
    PROVE  Choosing'
<1>1. Jobs' = Jobs /\ Answered' = Answered
  BY DEF load, Jobs, Answered
<1>2. job \in [Jobs -> States]
  BY DEF Choosing
<1>3. job' \in [Jobs -> States] /\ \A j \in Jobs : job'[j] = "answered" => job[j] = "answered"
  BY <1>2 DEF Becomes
<1> HIDE DEF Jobs
<1>4. QED
  BY <1>1, <1>3 DEF Choosing

LEMMA AnswerRecorded ==
    ASSUME Choosing, pc = "pinging", UNCHANGED <<pc, load>>, NEW i \in Jobs, Answers(i)
    PROVE  Choosing'
<1>1. Jobs' = Jobs /\ Answered' = Answered
  BY DEF load, Jobs, Answered
<1>2. job \in [Jobs -> States] /\ pings \in Seq(Answered)
  BY DEF Choosing
<1>3. PICK ping \in 0..MaxPing : pings' = Append(pings, [server |-> i, ping |-> ping])
  BY DEF Answers
<1>4. [server |-> i, ping |-> ping] \in Answered
  BY DEF Answered
<1>5. /\ pings' \in Seq(Answered) /\ DOMAIN pings' = 1..(Len(pings) + 1)
      /\ DOMAIN pings = 1..Len(pings) /\ Len(pings) \in Nat
      /\ pings'[Len(pings) + 1].server = i
      /\ \A k \in DOMAIN pings : pings'[k] = pings[k]
  BY <1>2, <1>3, <1>4, AppendTyped
<1>6. /\ job' \in [Jobs -> States]
      /\ \A j \in Jobs : job'[j] = "answered" => job[j] = "answered" \/ j = i
  BY <1>2 DEF Answers, Becomes, States, Over
<1>7. ASSUME NEW j \in Jobs, job'[j] = "answered"
      PROVE  \E k \in DOMAIN pings' : pings'[k].server = j
  <2>1. CASE j = i
    BY <1>5, <2>1
  <2>2. CASE job[j] = "answered"
    <3>1. PICK k \in DOMAIN pings : pings[k].server = j
      BY <2>2 DEF Choosing
    <3>2. k \in DOMAIN pings'
      BY <1>5
    <3>3. QED
      BY <1>5, <3>1, <3>2
  <2>3. QED
    BY <1>6, <1>7, <2>1, <2>2
<1>8. QED
  BY <1>1, <1>5, <1>6, <1>7 DEF Choosing

LEMMA ChoiceStep == ChoiceInv /\ [Next]_vars => ChoiceInv'
<1> SUFFICES ASSUME ChoiceInv, [Next]_vars PROVE ChoiceInv'
  OBVIOUS
<1>0. Choosing /\ FastestTested
  BY DEF ChoiceInv
<1>1. CASE UNCHANGED vars
  BY <1>0, <1>1 DEF ChoiceInv, Choosing, FastestTested, Answered, Jobs, vars, load, select
<1>2. CASE Load
  <2>1. /\ pc = "load" /\ pc' \in {"load", "loaded", "failed"}
        /\ pings = <<>> /\ pings' = <<>>
    BY <1>0, <1>2 DEF Load, ReadLocal, Fetch, FetchDiscovery, Accept, LoadFails, select, Choosing
  <2>2. QED
    BY <2>1 DEF ChoiceInv, Choosing, FastestTested
<1>3. CASE Loaded
  <2>1. /\ pings = <<>> /\ pings' = <<>> /\ Jobs' = Jobs
        /\ \/ pc' = "listed"
           \/ pc' = "test" /\ opts'.server # {}
           \/ pc' = "pinging" /\ job' = [i \in Jobs |-> "queued"]
    BY <1>0, <1>3 DEF Loaded, Choosing, load, Jobs
  <2>2. FastestTested'
    BY <2>1 DEF FastestTested
  <2> HIDE DEF Jobs
  <2>3. Choosing'
    BY <2>1 DEF Choosing, States
  <2>4. QED
    BY <2>2, <2>3 DEF ChoiceInv
<1>4. ASSUME NEW i \in Jobs, Job(i) PROVE ChoiceInv'
  <2>1. pc = "pinging" /\ UNCHANGED <<pc, load>>
    BY <1>4 DEF Job, Launch, Probe, PingIcmp, PingHttp
  <2>2. Answers(i) \/ (UNCHANGED pings /\ \E state \in States \ {"answered"} : Becomes(i, state))
    <3>1. {"probe", "icmp", "http", "silent"} \subseteq States \ {"answered"}
      BY DEF States, InFlight, Over
    <3>2. QED
      BY <1>4, <3>1 DEF Job, Launch, Probe, PingIcmp, PingHttp
  <2>3. Choosing'
    BY <1>0, <2>1, <2>2, Unanswered, AnswerRecorded
  <2>4. QED
    BY <2>1, <2>3 DEF ChoiceInv, FastestTested
<1>5. CASE Choose
  <2>1. /\ pc = "pinging" /\ AllOver /\ UNCHANGED <<opts, servers, job, pings>>
        /\ \/ pc' = "failed"
           \/ pings # <<>> /\ pc' = "test" /\ tested' = <<servers[pings[Best].server]>>
    BY <1>5 DEF Choose, load
  <2>2. Jobs' = Jobs /\ Answered' = Answered
    BY <2>1 DEF Jobs, Answered
  <2>3. Choosing'
    BY <1>0, <2>1, <2>2 DEF Choosing
  <2>4. CASE pc' = "failed"
    BY <2>3, <2>4 DEF ChoiceInv, FastestTested
  <2>5. CASE pings # <<>> /\ pc' = "test" /\ tested' = <<servers[pings[Best].server]>>
    <3>1. /\ Best \in DOMAIN pings
          /\ \A l \in DOMAIN pings :
                pings[l].ping > 0 => pings[Best].ping \in 1..pings[l].ping
      BY <1>0, <2>5, BestIsFastest DEF Choosing
    <3>2. \A i \in Jobs : job[i] \in Over
      BY <2>1 DEF AllOver
    <3>3. FastestTested'
      BY <2>1, <2>2, <2>5, <3>1, <3>2 DEF FastestTested
    <3>4. QED
      BY <2>3, <3>3 DEF ChoiceInv
  <2>6. QED
    BY <2>1, <2>4, <2>5
<1>6. QED
  BY <1>1, <1>2, <1>3, <1>4, <1>5 DEF Next, Terminating

LEMMA ChoiceInitially == Init => ChoiceInv
BY DEF Init, LoadInit, ChoiceInv, Choosing, FastestTested

\* The server tested is the fastest of those that answered, and is chosen when
\* every server has been asked, whatever order the pings end in.
THEOREM Fastest == Spec => []FastestTested
<1>1. ChoiceInv => FastestTested
  BY DEF ChoiceInv
<1>2. QED
  BY ChoiceInitially, ChoiceStep, <1>1, PTL DEF Spec

\* A run that pings ends for want of a server only when all stayed silent.
THEOREM Fatal == Spec => FatalOnlyIfSilent
<1>1. ChoiceInv /\ [Next]_vars =>
        [pc = "pinging" /\ pc' = "failed" => \A i \in Jobs : job[i] = "silent"]_vars
  <2> SUFFICES ASSUME ChoiceInv, Next, pc = "pinging", pc' = "failed", NEW i \in Jobs
               PROVE  job[i] = "silent"
    OBVIOUS
  <2>1. Choose
    BY DEF Next, Load, ReadLocal, Fetch, FetchDiscovery, Loaded, Job, Launch, Probe,
       PingIcmp, PingHttp, Terminating, vars
  <2>2. job[i] \in Over /\ pings = <<>>
    BY <2>1 DEF Choose, AllOver
  <2>3. job[i] # "answered"
    BY <2>2 DEF ChoiceInv, Choosing
  <2>4. QED
    BY <2>2, <2>3 DEF Over
<1>2. QED
  BY ChoiceInitially, ChoiceStep, <1>1, PTL DEF Spec, FatalOnlyIfSilent

-----------------------------------------------------------------------------
(* The list. *)

LEMMA Induction ==
    ASSUME NEW n \in Nat, NEW G, 0 \in G, \A i \in 1..n : i - 1 \in G => i \in G
    PROVE  \A i \in 0..n : i \in G
<1> DEFINE Bad == {i \in 0..n : i \notin G}
<1>1. SUFFICES ASSUME Bad # {} PROVE FALSE
  OBVIOUS
<1>2. PICK m \in Bad : \A i \in Bad : m <= i
  <2>1. Bad \in SUBSET Nat
    OBVIOUS
  <2>2. QED
    BY <1>1, <2>1, Least
<1>3. m \in 1..n /\ m - 1 \in 0..n
  BY <1>2
<1>4. m - 1 \notin Bad
  BY <1>2, <1>3
<1>5. QED
  BY <1>2, <1>3, <1>4

\* Flattened up to its n-th element.
Upto(f, s, n) == \A i \in 1..n : f[i] = IF i = 1 THEN s[i] ELSE f[i - 1] \o s[i]

LEMMA FlattenExists ==
    ASSUME NEW T, NEW s \in Seq(Seq(T))
    PROVE  \E f \in [1..Len(s) -> Seq(T)] : Upto(f, s, Len(s))
<1>0. PICK S : S = Seq(T) /\ \A a, b \in S : a \o b \in S
  BY ConcatProperties
<1>1. s \in Seq(S) /\ Len(s) \in Nat /\ \A i \in 1..Len(s) : s[i] \in S
  BY <1>0, LenProperties, ElementOfSeq
<1> DEFINE G == {n \in 0..Len(s) : \E f \in [1..n -> S] : Upto(f, s, n)}
<1>2. 0 \in G
  <2>1. PICK none : none \in [1..0 -> S] /\ Upto(none, s, 0)
    <3>1. [i \in 1..0 |-> s[i]] \in [1..0 -> S] /\ Upto([i \in 1..0 |-> s[i]], s, 0)
      BY DEF Upto
    <3>2. QED
      BY <3>1, Zenon
  <2>2. 0 \in 0..Len(s)
    BY <1>1
  <2>3. QED
    BY <2>1, <2>2
<1>3. ASSUME NEW n \in 1..Len(s), n - 1 \in G PROVE n \in G
  <2>1. PICK f \in [1..(n - 1) -> S] : Upto(f, s, n - 1)
    BY <1>3
  <2>2. PICK last \in S : last = IF n = 1 THEN s[n] ELSE f[n - 1] \o s[n]
    <3>1. CASE n = 1
      BY <1>1, <3>1
    <3>2. CASE n # 1
      <4>1. n - 1 \in 1..(n - 1)
        BY <1>1, <3>2
      <4>2. f[n - 1] \in S /\ s[n] \in S
        BY <1>1, <2>1, <4>1
      <4>3. QED
        BY <1>0, <3>2, <4>2
    <3>3. QED
      BY <3>1, <3>2
  <2> DEFINE g == [i \in 1..n |-> IF i = n THEN last ELSE f[i]]
  <2>3. g \in [1..n -> S]
    <3>1. \A i \in 1..n : i # n => i \in 1..(n - 1)
      BY <1>1
    <3>2. QED
      BY <2>1, <2>2, <3>1
  <2>4. ASSUME NEW i \in 1..n PROVE g[i] = IF i = 1 THEN s[i] ELSE g[i - 1] \o s[i]
    <3>1. i # 1 => i - 1 \in 1..n /\ i - 1 # n
      BY <1>1
    <3>2. i # 1 => g[i - 1] = f[i - 1]
      BY <3>1
    <3>3. CASE i = n
      BY <2>2, <3>2, <3>3
    <3>4. CASE i # n
      <4>1. i \in 1..(n - 1) /\ g[i] = f[i]
        BY <1>1, <3>4
      <4>2. f[i] = IF i = 1 THEN s[i] ELSE f[i - 1] \o s[i]
        BY <2>1, <4>1 DEF Upto
      <4>3. QED
        BY <3>2, <4>1, <4>2
    <3>5. QED
      BY <3>3, <3>4
  <2>5. n \in 0..Len(s)
    BY <1>1
  <2> HIDE DEF g
  <2>6. Upto(g, s, n)
    BY <2>4 DEF Upto
  <2>7. QED
    BY <2>3, <2>5, <2>6
<1>4. Len(s) \in G
  <2> HIDE DEF G
  <2>1. \A n \in 0..Len(s) : n \in G
    BY <1>1, <1>2, <1>3, Induction
  <2>2. Len(s) \in 0..Len(s)
    BY <1>1
  <2>3. QED
    BY <2>1, <2>2
<1>5. QED
  BY <1>0, <1>4

\* Texts one after the other, of one set, are of that set.
LEMMA FlattenTyped ==
    ASSUME NEW T, NEW s \in Seq(Seq(T))
    PROVE  FlattenSeq(s) \in Seq(T)
<1> DEFINE flat == CHOOSE f : f = [i \in 1..Len(s) |-> IF i = 1 THEN s[i] ELSE f[i - 1] \o s[i]]
<1>0. PICK S : S = Seq(T) /\ <<>> \in S /\ \A a, b \in S : a \o b \in S
  BY ConcatProperties, EmptySeq
<1>1. /\ s \in Seq(S) /\ Len(s) \in Nat /\ \A i \in 1..Len(s) : s[i] \in S
      /\ Len(s) = 0 => s = <<>>
  BY <1>0, LenProperties, ElementOfSeq, EmptySeq
<1>2. PICK f \in [1..Len(s) -> S] : Upto(f, s, Len(s))
  BY <1>0, FlattenExists
<1>3. f = [i \in 1..Len(s) |-> IF i = 1 THEN s[i] ELSE f[i - 1] \o s[i]]
  <2>1. f = [i \in 1..Len(s) |-> f[i]]
    BY <1>2
  <2>2. \A i \in 1..Len(s) : f[i] = IF i = 1 THEN s[i] ELSE f[i - 1] \o s[i]
    BY <1>2 DEF Upto
  <2>3. QED
    BY <2>1, <2>2, Zenon
<1>4. flat = [i \in 1..Len(s) |-> IF i = 1 THEN s[i] ELSE flat[i - 1] \o s[i]]
  BY <1>3, Zenon
<1>5. FlattenSeq(s) = IF Len(s) = 0 THEN s ELSE flat[Len(s)]
  BY Zenon DEF FlattenSeq
<1> HIDE DEF flat
<1>6. \A i \in 1..Len(s) : flat[i] = IF i = 1 THEN s[i] ELSE flat[i - 1] \o s[i]
  BY <1>4
<1> DEFINE G == {n \in 0..Len(s) : n # 0 => flat[n] \in S}
<1>7. 0 \in G
  BY <1>1
<1>8. ASSUME NEW n \in 1..Len(s), n - 1 \in G PROVE n \in G
  <2>1. n \in 0..Len(s) /\ s[n] \in S /\ (n # 1 => n - 1 # 0)
    BY <1>1
  <2>2. n # 1 => flat[n - 1] \in S
    BY <1>8, <2>1
  <2>3. flat[n] \in S
    BY <1>0, <1>6, <2>1, <2>2
  <2>4. QED
    BY <2>1, <2>3
<1>9. \A n \in 0..Len(s) : n \in G
  <2> HIDE DEF G
  <2>1. QED
    BY <1>1, <1>7, <1>8, Induction
<1>10. Len(s) # 0 => flat[Len(s)] \in S
  <2>1. Len(s) \in 0..Len(s)
    BY <1>1
  <2>2. QED
    BY <1>9, <2>1
<1>11. QED
  BY <1>0, <1>1, <1>5, <1>10

\* The servers that the command line leaves, as it has them asked.
Allowed ==
    {s \in ServerRecords :
        /\ s.scheme # "none"
        /\ opts.force # "nothing" => s.scheme = opts.force
        /\ ~opts.list => /\ s.id \notin opts.exclude
                         /\ opts.server # {} => opts.server \cap {Every, s.id} # {}}

LEMMA ProcessedAllowed ==
    ASSUME opts \in Options, NEW raw \in Lists
    PROVE  Processed(raw) \in Seq(Allowed)
<1> DEFINE kept(s) == IF Kept(s.id) THEN <<[s EXCEPT !.scheme = Scheme(@)]>> ELSE <<>>
           each == [i \in 1..Len(raw) |-> kept(raw[i])]
<1>1. raw \in Seq(ServerRecords)
  BY ServerListAssumption DEF ServerRecords
<1>2. Len(raw) \in Nat /\ \A i \in 1..Len(raw) : raw[i] \in ServerRecords
  BY <1>1, LenProperties, ElementOfSeq
<1>3. ASSUME NEW s \in ServerRecords PROVE kept(s) \in Seq(Allowed)
  <2>1. CASE ~Kept(s.id)
    BY <2>1, EmptySeq
  <2>2. CASE Kept(s.id)
    <3> DEFINE t == [s EXCEPT !.scheme = Scheme(@)]
    <3>1. s.id \in Ids /\ s.scheme \in Schemes
      BY DEF ServerRecords
    <3>2. opts.force \in {"https", "http", "nothing"}
      BY DEF Options
    <3>3. /\ Scheme(s.scheme) \in Schemes /\ Scheme(s.scheme) # "none"
          /\ opts.force # "nothing" => Scheme(s.scheme) = opts.force
      BY <3>1, <3>2 DEF Scheme, Schemes
    <3>4. t \in ServerRecords /\ t.id = s.id /\ t.scheme = Scheme(s.scheme)
      BY <3>1, <3>3 DEF ServerRecords
    <3>5. ~opts.list => /\ s.id \notin opts.exclude
                        /\ opts.server # {} => opts.server \cap {Every, s.id} # {}
      BY <2>2 DEF Kept
    <3> HIDE DEF t
    <3>6. t \in Allowed
      BY <3>3, <3>4, <3>5 DEF Allowed
    <3>7. <<t>> \in Seq(Allowed)
      BY <3>6
    <3>8. QED
      BY <2>2, <3>7 DEF t
  <2>3. QED
    BY <2>1, <2>2
<1>4. each \in Seq(Seq(Allowed))
  <2>1. PICK S : S = Seq(Allowed)
    OBVIOUS
  <2>2. \A i \in 1..Len(raw) : kept(raw[i]) \in S
    BY <1>2, <1>3, <2>1
  <2> HIDE DEF kept
  <2>3. each \in Seq(S)
    BY <1>2, <2>2
  <2>4. QED
    BY <2>1, <2>3
<1>5. Processed(raw) = FlattenSeq(each)
  BY Zenon DEF Processed
<1> HIDE DEF each
<1>6. QED
  BY <1>4, <1>5, FlattenTyped

-----------------------------------------------------------------------------
(* What is tested. *)

\* Every server of the list, and every one tested, is one the command line
\* leaves; --list ends before any is tested; as many jobs run as there are slots.
Asked ==
    /\ opts \in Options /\ retried \in BOOLEAN
    /\ pc \in {"load", "loaded", "pinging"} \cup Terminal
    /\ servers \in Seq(Allowed)
    /\ tested \in Seq(Allowed)
    /\ opts.list => tested = <<>> /\ pc \in {"load", "loaded", "listed", "failed"}
    /\ job \in Seq(States)
    /\ pc = "pinging" => IsFiniteSet(Busy) /\ Cardinality(Busy) <= PingWorkers

LEMMA AskedInitially == Init => Asked
BY EmptySeq DEF Init, LoadInit, Asked, Terminal

\* A job that moves on keeps its slot, or gives it back; one that begins takes
\* one that is free.
LEMMA SlotsKept ==
    ASSUME pc = "pinging", job \in [Jobs -> States], UNCHANGED load,
           IsFiniteSet(Busy), Cardinality(Busy) <= PingWorkers, NEW i \in Jobs, Job(i)
    PROVE  /\ job' \in [Jobs -> States]
           /\ IsFiniteSet(Busy') /\ Cardinality(Busy') <= PingWorkers
<1>0. PICK state \in States : job' = [job EXCEPT ![i] = state]
  BY DEF Job, Launch, Probe, PingIcmp, PingHttp, Answers, Becomes, States, InFlight, Over
<1>1. job' \in [Jobs -> States] /\ Jobs' = Jobs
  BY <1>0 DEF load, Jobs
<1>2. \A j \in Jobs : j # i => job'[j] = job[j]
  BY <1>0
<1>3. Busy' \subseteq Busy \cup {i}
  BY <1>1, <1>2 DEF Busy
<1>4. Busy' \subseteq Busy \/ Cardinality(Busy) < PingWorkers
  <2>1. CASE Launch(i)
    BY <2>1 DEF Launch
  <2>2. CASE Probe(i) \/ PingIcmp(i) \/ PingHttp(i)
    <3>1. job[i] \in InFlight
      BY <2>2 DEF Probe, PingIcmp, PingHttp, InFlight
    <3>2. i \in Busy
      BY <3>1 DEF Busy
    <3>3. QED
      BY <1>3, <3>2
  <2>3. QED
    BY <2>1, <2>2 DEF Job
<1>5. IsFiniteSet(Busy') /\ Cardinality(Busy') <= PingWorkers
  <2>1. CASE Busy' \subseteq Busy
    <3>1. IsFiniteSet(Busy') /\ Cardinality(Busy') <= Cardinality(Busy)
      BY <2>1, FS_Subset
    <3>2. Cardinality(Busy) \in Nat /\ Cardinality(Busy') \in Nat /\ PingWorkers \in Nat
      BY <3>1, FS_CardinalityType, SelectionAssumption
    <3>3. QED
      BY <3>1, <3>2
  <2>2. CASE Cardinality(Busy) < PingWorkers
    <3>1. /\ IsFiniteSet(Busy \cup {i})
          /\ Cardinality(Busy \cup {i}) =
                IF i \in Busy THEN Cardinality(Busy) ELSE Cardinality(Busy) + 1
      BY FS_AddElement
    <3>2. IsFiniteSet(Busy') /\ Cardinality(Busy') <= Cardinality(Busy \cup {i})
      BY <1>3, <3>1, FS_Subset
    <3>3. /\ Cardinality(Busy) \in Nat /\ Cardinality(Busy') \in Nat /\ PingWorkers \in Nat
          /\ Cardinality(Busy \cup {i}) \in Nat
      BY <3>1, <3>2, FS_CardinalityType, SelectionAssumption
    <3>4. QED
      BY <2>2, <3>1, <3>2, <3>3
  <2>3. QED
    BY <1>4, <2>1, <2>2
<1>6. QED
  BY <1>1, <1>5

LEMMA AskedStep == Choosing /\ Asked /\ [Next]_vars => Asked'
<1> SUFFICES ASSUME Choosing, Asked, [Next]_vars PROVE Asked'
  OBVIOUS
<1>0. opts' = opts
  BY DEF Next, Load, ReadLocal, Fetch, FetchDiscovery, Loaded, Job, Launch, Probe, PingIcmp,
     PingHttp, Choose, Terminating, load, vars
<1>1. Allowed' = Allowed
  BY <1>0 DEF Allowed
<1>2. CASE UNCHANGED vars
  <2>1. Busy' = Busy
    BY <1>2 DEF Busy, Jobs, vars, load, select
  <2>2. QED
    BY <1>0, <1>1, <1>2, <2>1 DEF Asked, vars, load, select
<1>3. CASE Load
  <2>1. /\ pc = "load" /\ pc' \in {"load", "loaded", "failed"} /\ UNCHANGED select
        /\ retried' \in BOOLEAN
    BY <1>3 DEF Load, ReadLocal, Fetch, FetchDiscovery, Accept, LoadFails, Asked
  <2>2. servers' = servers \/ \E raw \in Lists : servers' = Processed(raw)
    BY <1>3 DEF Load, ReadLocal, Fetch, FetchDiscovery, Accept, LoadFails
  <2>3. servers' \in Seq(Allowed)
    BY <2>2, ProcessedAllowed DEF Asked
  <2>4. QED
    BY <1>0, <1>1, <2>1, <2>3 DEF Asked, select, Terminal
<1>4. CASE Loaded
  <2>1. pc = "loaded" /\ UNCHANGED <<retried, servers>>
    BY <1>4 DEF Loaded, load
  <2>2. CASE opts.list /\ pc' = "listed" /\ UNCHANGED <<job, tested>>
    BY <1>0, <1>1, <2>1, <2>2 DEF Asked, Terminal
  <2>3. CASE ~opts.list /\ pc' = "test" /\ tested' = servers /\ UNCHANGED job
    BY <1>0, <1>1, <2>1, <2>3 DEF Asked, Terminal
  <2>4. CASE ~opts.list /\ pc' = "pinging" /\ job' = [i \in Jobs |-> "queued"] /\ UNCHANGED tested
    <3>1. Jobs' = Jobs /\ Jobs = 1..Len(servers) /\ Len(servers) \in Nat
      BY <2>1, LenProperties DEF Jobs, Asked
    <3>2. job' \in Seq(States)
      BY <2>4, <3>1 DEF States
    <3>3. Busy' = {}
      BY <2>4, <3>1 DEF Busy, InFlight
    <3>4. IsFiniteSet(Busy') /\ Cardinality(Busy') <= PingWorkers
      BY <3>3, FS_EmptySet, SelectionAssumption
    <3>5. QED
      BY <1>0, <1>1, <2>1, <2>4, <3>2, <3>4 DEF Asked
  <2>5. QED
    BY <1>4, <2>2, <2>3, <2>4 DEF Loaded
<1>5. ASSUME NEW i \in Jobs, Job(i) PROVE Asked'
  <2>1. pc = "pinging" /\ UNCHANGED <<pc, load, tested>>
    BY <1>5 DEF Job, Launch, Probe, PingIcmp, PingHttp
  <2>2. job \in [Jobs -> States]
    BY <2>1 DEF Choosing
  <2>3. job' \in [Jobs -> States] /\ IsFiniteSet(Busy') /\ Cardinality(Busy') <= PingWorkers
    BY <1>5, <2>1, <2>2, SlotsKept DEF Asked
  <2>4. job' \in Seq(States)
    <3>1. Jobs = 1..Len(servers) /\ Len(servers) \in Nat
      BY LenProperties DEF Jobs, Asked
    <3>2. QED
      BY <2>3, <3>1
  <2>5. QED
    BY <1>0, <1>1, <2>1, <2>3, <2>4 DEF Asked, load
<1>6. CASE Choose
  <2>1. /\ pc = "pinging" /\ pc' \in {"failed", "test"} /\ UNCHANGED <<retried, servers, job>>
    BY <1>6 DEF Choose, load
  <2>2. tested' \in Seq(Allowed)
    <3>1. CASE pings = <<>>
      BY <1>6, <3>1 DEF Choose, Asked
    <3>2. CASE pings # <<>>
      <4>1. Best \in DOMAIN pings
        BY <3>2, BestIsFastest DEF Choosing
      <4>2. pings[Best] \in Answered
        BY <4>1, ElementOfSeq DEF Choosing
      <4>3. pings[Best].server \in 1..Len(servers)
        BY <4>2 DEF Answered, Jobs
      <4>4. PICK s \in Allowed : s = servers[pings[Best].server]
        BY <4>3, ElementOfSeq DEF Asked
      <4>5. tested' = <<s>>
        BY <1>6, <3>2, <4>4 DEF Choose
      <4>6. QED
        BY <4>4, <4>5
    <3>3. QED
      BY <3>1, <3>2
  <2>3. QED
    BY <1>0, <1>1, <2>1, <2>2 DEF Asked, Terminal
<1>7. QED
  BY <1>2, <1>3, <1>4, <1>5, <1>6 DEF Next, Terminating

LEMMA AskedAlways == Spec => [](ChoiceInv /\ Asked)
<1>1. Init => ChoiceInv /\ Asked
  BY ChoiceInitially, AskedInitially
<1>2. ChoiceInv /\ Asked /\ [Next]_vars => (ChoiceInv /\ Asked)'
  BY ChoiceStep, AskedStep DEF ChoiceInv
<1>3. QED
  BY <1>1, <1>2, PTL DEF Spec

\* Whatever the source of the list and however a server is chosen from it, it is
\* one the command line leaves, with the scheme it forces.
THEOREM AsAsked == Spec => []TestedAsAsked
<1>1. Asked => TestedAsAsked
  <2> SUFFICES ASSUME Asked, NEW k \in 1..Len(tested)
               PROVE  /\ tested[k].id \notin opts.exclude
                      /\ opts.server # {} => opts.server \cap {Every, tested[k].id} # {}
                      /\ tested[k].scheme # "none"
                      /\ opts.force # "nothing" => tested[k].scheme = opts.force
    BY DEF TestedAsAsked
  <2>1. ~opts.list
    BY EmptySeq DEF Asked
  <2>2. tested[k] \in Allowed
    BY ElementOfSeq DEF Asked
  <2>3. QED
    BY <2>1, <2>2 DEF Allowed
<1>2. QED
  BY <1>1, AskedAlways, PTL

\* Every variable keeps its type, and no more pings run than there are workers.
THEOREM Typed == Spec => []TypeOK
<1>1. ChoiceInv /\ Asked => TypeOK
  <2> SUFFICES ASSUME Choosing, Asked PROVE TypeOK
    BY DEF ChoiceInv
  <2>1. Allowed \subseteq ServerRecords
    BY DEF Allowed
  <2>2. servers \in Seq(ServerRecords) /\ tested \in Seq(ServerRecords)
    BY <2>1 DEF Asked
  <2>3. job \in Seq({"queued"} \cup InFlight \cup Over)
    BY DEF Asked, States
  <2>4. pings \in Seq([server : Jobs, ping : 0..MaxPing])
    BY DEF Choosing, Answered
  <2>5. QED
    BY <2>2, <2>3, <2>4 DEF Asked, TypeOK
<1>2. QED
  BY <1>1, AskedAlways, PTL
=============================================================================
