--------------------------- MODULE MCManifestTree ---------------------------
(* Small instances of ManifestTree: every tree over a few directories.     *)
EXTENDS ManifestTree

(* The directories a, a/b, a/b/a, a/.git and c, and the root, with the     *)
(* kustomization.yaml of each.                                             *)
DirSeq  == <<<<>>, <<"c">>, <<"a">>, <<"a", ".git">>, <<"a", "b">>, <<"a", "b", "a">>>>
FileSeq == [k \in DOMAIN DirSeq |-> Append(DirSeq[k], FileName)]
MCDirs  == Range(DirSeq)
MCPaths == Range(DirSeq \o FileSeq)

MayBe(p) ==
    CASE p = <<>>                                 -> {"dir"}
      [] p \in {<<"c">>, <<"a", ".git">>}         -> {"absent", "dir"}
      [] p = <<"a", "b">>                          -> Kinds
      [] p \in MCDirs \ {<<>>}                     -> {"absent", "dir", "link"}
      [] p \in {<<FileName>>, <<"c", FileName>>, <<"a", ".git", FileName>>}
                                                  -> {"absent", "file"}
      [] OTHER                                    -> {"absent", "file", "link"}
(* Only directories have something below them.                             *)
MCTrees ==
    LET Grow(ts, p) == UNION {{[q \in DOMAIN t \cup {p} |-> IF q = p THEN k ELSE t[q]] :
                                 k \in IF p # <<>> /\ t[Parent(p)] # "dir"
                                       THEN {"absent"} ELSE MayBe(p)} : t \in ts}
    IN  FoldLeft(Grow, {<<>>}, DirSeq \o FileSeq)

MCPatterns ==
    {<<"**">>, <<"a", "**">>, <<"**", "b">>, <<"a", "**", "a">>, <<"a", "b", "**">>, <<"a", "b", "a">>,
     <<"a", ".git", "**">>}
Source(p, s) == [pattern |-> p, settings |-> s]
MCSources ==
    {<<Source(p, "dev")>> : p \in MCPatterns \cup {<<"c">>}}
    \cup {<<Source(p, "dev"), Source(q, s)>> :
             p \in {<<"**", "b">>, <<"a", "b", "a">>}, q \in {<<"a", "**", "a">>, <<"a", "**">>},
             s \in {"dev", "prod"}}
=============================================================================
