---------------------------- MODULE MCKustomize -----------------------------
(* Small instances of Kustomize.                                           *)
EXTENDS Kustomize

Images1  == [k |-> "images"]
Name(i)  == [k |-> "name", image |-> i]
Field    == [k |-> "field"]
Flow(i, t, q) == [k |-> "flow", image |-> i, tag |-> t, quoted |-> q]
Comment(c)    == [k |-> "comment", text |-> c]
Other(c)      == [k |-> "other", text |-> c]
Garbled  == [k |-> "garbled"]
FixedTag(t) == [TagLine(t) EXCEPT !.fixed = TRUE]

(* One repository path under two registries, and another path.             *)
api  == <<1, 1>>
copy == <<2, 1>>
web  == <<1, 2>>

Plain == <<"v1">>
Newer == <<"v2">>
DevA1 == <<"dev-a", "1">>
DevA2 == <<"dev-a", "2">>
DevB1 == <<"dev-b", "1">>

(* Entries with and without newTag, before and after other fields, under   *)
(* several kinds of comments and managed blocks.                           *)
Heads == {<<>>, <<Comment("a"), Begin, Meta(web, "x"), End, Comment("b")>>,
          <<Begin, Comment("open")>>, <<Begin, Garbled, End>>,
          <<Begin, Meta(api, "x"), End, Other("gap")>>}
Bodies == {<<Name(api), Name(copy), Comment("c"), Name(web), Field>>,
           <<Name(api), TagLine(DevA1), Field, Name(copy), TagLine(DevB1), Name(api)>>,
           <<Name(web), TagLine(Plain), Name(api), Field, TagLine(<<"dev-a">>)>>,
           <<Name(copy), Name(api), FixedTag(Plain), Name(web), Field, FixedTag(DevA1), Name(api)>>}
MCFiles == {<<Other("kind")>> \o h \o <<Images1>> \o b \o <<Other("end")>> : h \in Heads, b \in Bodies}
           \cup {<<Other("kind")>>}
MCUpdates == {[image |-> i, tag |-> t, meta |-> m] :
                 i \in {api, web}, t \in {Plain, Newer, DevA1, DevA2}, m \in {"y"}}
             \cup {[image |-> api, tag |-> Newer, meta |-> m] : m \in {"none", "marker", "z"}}

(* flow: items written as {name: ..., newTag: ...}.                        *)
FlowFiles == {<<Images1, Flow(api, Plain, q), Name(web), TagLine(Plain)>> : q \in BOOLEAN}
             \cup {<<Images1, Flow(api, NoTag, FALSE)>>}
=============================================================================
