------------------------------- MODULE Paths -------------------------------
(***************************************************************************)
(* util.rs's port of Go's path.Clean and path.Join, and the URLs built     *)
(* with it.  A string is the sequence of its segments between slashes: ""  *)
(* is <<"">>, "/" is <<"", "">> and "/a" is <<"", "a">>.                   *)
(***************************************************************************)
EXTENDS Folding, SequencesExt

Gap == ""           \* what is in front of a leading slash
Here == "."
Up == ".."

Empty == <<Gap>>
Root == <<Gap, Gap>>

IsRooted(p) == Len(p) > 1 /\ p[1] = Gap

\* Bug: a ".." that has nothing to undo takes the one before it away.
StepUpAlways(rooted, out) ==
    IF out # <<>> THEN Front(out)
    ELSE IF rooted THEN out
    ELSE Append(out, Up)

\* What ".." does to the segments kept so far.
StepUp(rooted, out) ==
    IF out # <<>> /\ Last(out) # Up THEN Front(out)
    ELSE IF rooted THEN out
    ELSE Append(out, Up)

Keep(rooted, out, s) ==
    IF s \in {Gap, Here} THEN out
    ELSE IF s = Up THEN StepUp(rooted, out)
    ELSE Append(out, s)

Kept(rooted, p) == Fold(LAMBDA out, s : Keep(rooted, out, s), <<>>, p)

\* path_clean
Clean(p) ==
    LET kept == Kept(IsRooted(p), p) IN
    IF IsRooted(p) THEN (IF kept = <<>> THEN Root ELSE <<Gap>> \o kept)
    ELSE IF kept = <<>> THEN <<Here>> ELSE kept

\* path_join; "{a}/{b}" is one sequence after the other.
Join(a, b) ==
    IF a = Empty /\ b = Empty THEN Empty
    ELSE Clean(IF a = Empty THEN b ELSE IF b = Empty THEN a ELSE a \o b)

FromRoot(p) == IF IsRooted(p) THEN p ELSE <<Gap>> \o p

\* url_join_path, on the path of a base
UrlPath(base, sub) ==
    LET joined == Join(base, sub) IN IF joined = Empty THEN Empty ELSE FromRoot(joined)

\* TelemetryServer::get_share: the same, and a slash at the end
SharePath(base, share) == Append(FromRoot(Join(base, share)), Gap)

-----------------------------------------------------------------------------
(* What a path means: where it leads from a directory far enough down, or    *)
(* from the root, above which there is nothing.                              *)

Go(dir, s) ==
    IF s \in {Gap, Here} THEN dir
    ELSE IF s # Up THEN Append(dir, s)
    ELSE IF dir = <<>> THEN dir ELSE Front(dir)

WalkFrom(start, p) == Fold(Go, start, p)

Walk(start, p) == WalkFrom(IF IsRooted(p) THEN <<>> ELSE start, p)

\* The shortest spelling: no segment that could be left out.
Shortest(p) ==
    \/ p \in {Root, <<Here>>}
    \/ LET body == IF IsRooted(p) THEN Tail(p) ELSE p IN
       \A i \in 1..Len(body) :
          /\ body[i] \notin {Gap, Here}
          /\ body[i] = Up => ~IsRooted(p) /\ \A k \in 1..i : body[k] = Up
=============================================================================
