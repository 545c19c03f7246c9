----------------------------- MODULE MCProposal -----------------------------
(* Small instances of Proposal and RulePlan.                               *)
EXTENDS Proposal, TLC

MCVariables == {"$1", "$2"}
MCUnsafe    == {"..", ".", "**", "a*"}
(* org and Org are one owner.                                              *)
MCFold      == ("org" :> 1 @@ "Org" :> 1 @@ "team" :> 2 @@ "shop" :> 3 @@ "pay" :> 4
                 @@ "deploy" :> 5 @@ "api" :> 6 @@ "v1" :> 7 @@ "app" :> 8)

Rule(host, segments, pieces, url, env) ==
    [host |-> host, segments |-> segments, tagPieces |-> pieces, url |-> url, env |-> env,
     allow |-> {}, deny |-> {}, block |-> TRUE,
     site |-> "github", patterns |-> "valid", legacyEnv |-> FALSE]

generic  == Rule("ecr", <<"$1", "$2">>, <<>>, <<"org", "deploy", "$1", "$2">>, "dev")
literal  == Rule("ecr", <<"shop", "api">>, <<>>, <<"Org", "deploy", "shop", "api">>, "dev")
other    == Rule("ecr", <<"shop", "api">>, <<>>, <<"team", "deploy", "**">>, "prod")
noLatest == [literal EXCEPT !.url = <<"org", "deploy", "app">>, !.deny = {<<"latest">>}]
onlyV1   == [literal EXCEPT !.allow = {<<"v1">>}, !.block = FALSE]
half     == Rule("ecr", <<"*", "api">>, <<>>, <<"org", "$1", "app">>, "dev")
byTag    == Rule("gcr", <<"shop", "api">>, <<"$1", "*">>, <<"org", "deploy", "$1", "app">>, "ref")
mirror   == [literal EXCEPT !.host = "gcr"]
refused  == [other EXCEPT !.env = "ref"]
twoLines == [other EXCEPT !.env = "a\nb"]
ruled    == {generic, literal, other, noLatest, onlyV1, half, byTag, mirror, refused, twoLines}

(* Rules that a file may hold and no process runs with.                    *)
faulty ==
    {[literal EXCEPT !.host = ""], [literal EXCEPT !.segments = <<>>],
     [literal EXCEPT !.url = <<>>], [literal EXCEPT !.url = <<"org">>],
     [literal EXCEPT !.url = <<"org", "deploy", "a*">>],
     [literal EXCEPT !.url = <<"org", "deploy", "**", "**">>],
     [literal EXCEPT !.site = "other"], [literal EXCEPT !.patterns = "invalid"],
     [literal EXCEPT !.env = ""], [literal EXCEPT !.legacyEnv = TRUE]}
MCRules == ruled \cup faulty

Push(host, repository, tag) == [host |-> host, repository |-> repository, tag |-> tag]
MCEvents ==
    {Push("ecr", <<"shop", "api">>, <<"v1">>), Push("ecr", <<"shop", "api">>, <<"latest">>),
     Push("ecr", <<"pay", "api">>, <<"v1">>), Push("ecr", <<"pay", "..">>, <<"v1">>),
     Push("gcr", <<"shop", "api">>, <<"v1">>), Push("gcr", <<"shop", "api">>, <<"v1", "", "x">>),
     Push("gcr", <<"api">>, <<"v1">>), Push("ecr", <<"shop", "long">>, <<"v1">>),
     Push("", <<"shop", "api">>, <<"v1">>), Push("ecr", <<>>, <<"v1">>)}

names == {"ecr", "gcr", "shop", "api", "pay", "..", "v1", "latest", "x",
          "dev", "prod", "ref"}
MCChars ==
    [s \in names |-> Text(4, 0)] @@ "" :> Empty @@ "long" :> Text(230, 3) @@ "a\nb" :> [Text(3, 0) EXCEPT !.breaks = TRUE]

-----------------------------------------------------------------------------
Label(form, size, runes, meta) == [form |-> form, size |-> size, text |-> Text(runes, meta)]
absent == [k \in LabelKeys |-> NoLabel]
(* The longest values that are kept: URLs that grow when they are printed. *)
longest ==
    [k \in LabelKeys |->
        CASE k \in {"source", "build.url"} -> Label("url", 2048, 6100, 0)
          [] k = "pr.author" -> Label("handle", 39, 39, 0)
          [] k = "pr.number" -> Label("number", 256, 256, 0)
          [] k = "pr.title"  -> Label("other", 90000, 40000, 40000)
          [] k = "uri"       -> Label("other", 400, 400, 0)
          [] k = "size"      -> Label("other", 10, 10, 0)
          [] OTHER           -> Label("token", 256, 256, 0)]
usual ==
    [longest EXCEPT !["source"] = Label("url", 30, 30, 0), !["build.url"] = Label("url", 2049, 2049, 0),
                    !["pr.title"] = Label("other", 9, 9, 1), !["revision"] = Label("token", 40, 40, 0),
                    !["pr.author"] = Label("token", 8, 8, 0), !["build.ref"] = Label("other", 60000, 60000, 9)]

Node(k) == [k |-> k]
unset == [p \in {} |-> Template(0, <<>>)]
MCMessages ==
    {unset,
     "title" :> Template(40, <<Plain(200), Field("Environment"), Field("ImageTag")>>)
        @@ "commit" :> Template(20, <<Field("Image")>>),
     "title" :> Template(16, <<Field("DefaultBody")>>),
     "commit" :> Template(5, <<Node("dot")>>),
     "body" :> Template(19000, <<Field("DefaultBody"), Plain(18900), Node("dot")>>),
     "body" :> Template(20, <<Field("Secret")>>),
     "body" :> Template(70000, <<Plain(70000)>>),
     "body" :> Template(20, <<Node("refused")>>),
     "body" :> Template(20, <<Node("failing")>>),
     "title" :> [Template(3, <<Plain(3)>>) EXCEPT !.source.blank = TRUE],
     "title" :> Template(2, <<[k |-> "text", text |-> [Lines(1) EXCEPT !.blank = TRUE]]>>)}

Pushed  == [json |-> TRUE, action |-> "PUSH", result |-> "SUCCESS"]
Notices == {Pushed, [Pushed EXCEPT !.json = FALSE], [Pushed EXCEPT !.action = "DELETE"],
            [Pushed EXCEPT !.action = ""], [Pushed EXCEPT !.result = "FAILURE"]}

Setup(root, messages, notice, labels) ==
    [root |-> root, messages |-> messages, notice |-> notice, labels |-> labels]
MCPlain  == Setup("mapping", unset, Pushed, absent)
MCSetups ==
    {Setup("mapping", m, Pushed, l) : m \in MCMessages, l \in {absent, longest, usual}}
      \cup {Setup(r, "body" :> Template(20, <<Field("Secret")>>), Pushed, absent) :
               r \in {"unreadable", "invalid", "empty", "scalar", "sequence"}}
      \cup {Setup("mapping", unset, n, absent) : n \in Notices}
=============================================================================
