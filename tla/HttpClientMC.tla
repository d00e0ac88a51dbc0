---------------------------- MODULE HttpClientMC ----------------------------
(* Instance of HttpClient for TLC: origins that differ in one part at a time. *)
EXTENDS HttpClient

At(s, h, p) == [scheme |-> s, host |-> h, port |-> p]

MCUrls == {At("http", "a", 1), At("https", "a", 1), At("https", "a", 2),
           At("https", "b", 1), At("http", "b", 1), At("other", "a", 1)}
=============================================================================
