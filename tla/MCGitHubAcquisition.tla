------------------------ MODULE MCGitHubAcquisition ------------------------
(* Bounds for TLC: six paths, five blobs, batches of two, room for four     *)
(* files, five bytes and three blob requests.                               *)
EXTENDS GitHubAcquisition

MCPath == {"root", "conf", "extra", "a", "b", "c"}
MCSha == {"s0", "s1", "s2", "s3", "s4"}
MCContent ==
    [s \in MCSha |-> CASE s = "s0" -> [kind |-> "text", size |-> 1]
                       [] s = "s1" -> [kind |-> "text", size |-> 2]
                       [] s = "s2" -> [kind |-> "lfs", size |-> 1]
                       [] s = "s4" -> [kind |-> "text", size |-> 1]
                       [] OTHER    -> [kind |-> "binary", size |-> 3]]

Base ==
    [sha |-> [p \in MCPath |-> CASE p = "c" -> "s2" [] p \in {"a", "b"} -> "s1" [] OTHER -> "s0"],
     size |-> [p \in MCPath |-> CASE p = "a" -> Unknown [] p = "b" -> 2 [] OTHER -> 1],
     class |-> [p \in MCPath |-> CASE p = "root" -> "manifest" [] p = "conf" -> "config"
                                   [] p = "extra" -> "extra" [] OTHER -> "source"],
     scripts |-> {"conf", "a", "b", "c"},
     truncated |-> FALSE,
     order |-> <<"root", "conf", "a", "b", "c">>]

\* Aliased blobs and one candidate too many; a small repository; one whose declared
\* sizes are not those of its blobs; one with an ignored file and an oversized one.
Small == [Base EXCEPT !.class = [p \in MCPath |->
                IF p \in {"b", "c"} THEN "extra" ELSE Base.class[p]],
              !.scripts = {"conf", "a"}, !.order = <<"root", "conf", "a">>]
Misdeclared == [Base EXCEPT !.size["a"] = 1, !.sha["b"] = "s3", !.class["c"] = "extra",
                            !.scripts = {"conf", "a", "b"}, !.order = <<"root", "conf", "a", "b">>]
Hiding == [Base EXCEPT !.class["b"] = "ignored", !.sha["a"] = "s3", !.size["c"] = 3,
                       !.order = <<"root", "conf", "a", "c">>]
\* A lockfile, and two candidates beyond a limit that all others fit.
Distinct == [Base EXCEPT
    !.sha = [p \in MCPath |-> CASE p \in {"root", "extra"} -> "s0" [] p = "conf" -> "s4" [] p = "a" -> "s1"
                               [] p = "b" -> "s2" [] OTHER -> "s3"],
    !.size = [p \in MCPath |-> CASE p \in {"root", "b"} -> 1 [] p = "a" -> 2 [] OTHER -> Unknown],
    !.class["extra"] = "lockfile", !.order = <<"root", "extra", "conf", "a", "b", "c">>]
\* The same with a blob of its own for each file: one more than requests are left.
Scattered == [Distinct EXCEPT !.sha["extra"] = "s3"]
MCTrees == {Base, Small, Misdeclared, Hiding, Distinct, Scattered}
=============================================================================
