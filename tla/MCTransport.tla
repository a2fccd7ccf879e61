----------------------------- MODULE MCTransport -----------------------------
(***************************************************************************)
(* Transport over a repository with sources, tests that are not scanned,   *)
(* secrets that are excluded, a name that begins with two dots, and one    *)
(* that agents may make a link of: to the tests, to the secrets, out of    *)
(* the repository, or to a secret there is not.  The process runs in the   *)
(* directory of the sources.                                               *)
(***************************************************************************)
EXTENDS Transport

Repo == <<"repo">>
Src == <<"repo", "src">>
Tests == <<"repo", "test">>
Secrets == <<"repo", "secrets">>
Home == <<"home">>

A == Append(Src, "a")
Link == Append(Src, "link")
Through == Append(Link, "k")
T == Append(Tests, "t")
K == Append(Secrets, "k")
O == Append(Home, "k")

Dotted == Append(Repo, "..data")
Relative == <<Here, "a">>

MCPlaces == {<<>>, Repo, Src, Tests, Secrets, Home, A, T, K, O}
MCExcluded == {<<"secrets">>}
MCScanExcluded == {<<"test">>}
MCLinkNames == {Link}
MCConfigured == {Src, Tests, Secrets}
MCLinkTargets == {Tests, Secrets, Home, Append(Secrets, "new")}

Reads == [method : {"read"}, path : {Through, Relative}]
Writes == [method : {"write"}, path : {Through, Link, T, Dotted}]
Tools ==
  {[method |-> "permission", kind |-> "edit", paths |-> {A},
    options |-> {"allow_once", "allow_always", "reject_once"}],
   [method |-> "permission", kind |-> "execute", paths |-> {},
    options |-> {"allow_always"}],
   [method |-> "permission", kind |-> "search", paths |-> {A, K},
    options |-> {"allow_once"}]}
MCNoise == [method |-> "none"]
MCRequests == Reads \cup Writes \cup Tools
=============================================================================
