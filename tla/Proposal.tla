------------------------------ MODULE Proposal ------------------------------
(***************************************************************************)
(* From the configuration file and a notification to the pull requests     *)
(* that are proposed: LoadFile, NewMessageRenderer, Decode, plan, and the  *)
(* rendering at the start of apply.  The first two happen once, when the   *)
(* process starts; what they accept, every event has to live with.         *)
(*                                                                         *)
(* This module adds these steps to RulePlan, whose steps are those of      *)
(* plan: its rules are the ones the file declares, and its event is what   *)
(* the notification names, with empty fields where it names nothing.       *)
(***************************************************************************)
EXTENDS RulePlan, Messages

CONSTANTS
    Setups,     \* records [root, messages, notice, labels], see below
    PlainSetup, \* the setup that is combined with every list of rules
    MaxVaried,  \* bound: the number of rules that go with the other setups
    Chars       \* Chars[s]: the text of the name, environment or tag piece s

(* Names of hosts, repositories and tags are lists of printable names;     *)
(* only a tag can have empty ones between its dots.  Environments are any  *)
(* text; one of nothing but space is an empty one, which toModel refuses.  *)
ASSUME ProposalConstants ==
    /\ PlainSetup \in Setups /\ MaxVaried \in Nat
    /\ \A e \in EventPool :
          /\ e.repository \in Seq(STRING) /\ e.tag \in Seq(STRING)
          /\ \A s \in {e.host} \cup Range(e.repository) \cup Range(e.tag) :
                OneLine(Chars[s]) /\ (Chars[s].blank <=> s = NoName)
          /\ NoName \notin Range(e.repository) /\ e.tag # <<NoName>>
    /\ \A r \in RulePool :
          /\ IsText(Chars[r.env]) /\ (Chars[r.env].blank => r.env = NoName)
          /\ r.tagPieces \in Seq(STRING) /\ r.url \in Seq(STRING) /\ NoName \notin Range(r.url)
    /\ \A s \in Setups :
          /\ \A key \in LabelKeys : IsLabel(s.labels[key])
          /\ \A part \in DOMAIN s.messages : IsTemplate(s.messages[part])

VARIABLES
    setup,     \* the rest of the input
    step,      \* load, templates, decode, plan, render, end
    outcome,   \* why the process or the handling of the event ended
    j          \* the repository apply renders

own     == <<setup, step, outcome, j>>
allVars == <<vars, own>>

(* A setup is                                                              *)
(*   root      what the root of the YAML document is, or why there is none *)
(*   messages  the templates the file sets, by part                        *)
(*   notice    [json, action, result] of the notification                  *)
(*   labels    the raw labels, URI and size the registry has for the image,*)
(*             none if it is not asked or cannot be read (imageLabels)     *)

ProposalInit ==
    /\ Init
    /\ setup \in Setups
    /\ ~annotateFromLabels => \A key \in LabelKeys : setup.labels[key] = NoLabel
    /\ setup # PlainSetup => Len(rules) <= MaxVaried
    /\ step = "load"
    /\ outcome = "none"
    /\ j = 1

End(o) == step' = "end" /\ outcome' = o /\ UNCHANGED <<setup, j>>
Go(s)  == step' = s /\ UNCHANGED <<setup, outcome, j>>

-----------------------------------------------------------------------------
(* Startup *)

toModel(r) == ~r.legacyEnv /\ r.env # NoName

compileRule(r) ==
    /\ r.host # NoName /\ r.segments # <<>>
    /\ r.url # <<>> /\ parseManifestURL(r.site, r.url)
    /\ r.patterns = "valid"

ParseFile ==
    /\ setup.root \in {"mapping", "sequence"}
    /\ rules # <<>>
    /\ \A k \in DOMAIN rules : toModel(rules[k]) /\ compileRule(rules[k])

LoadFile ==
    /\ step = "load"
    /\ \/ ParseFile /\ Go("templates")
       \/ ~ParseFile /\ End("startup")
    /\ UNCHANGED vars

(* A rule sequence, the older form of the file, sets no templates.         *)
templates ==
    [part \in DOMAIN defaultTemplates |->
        IF setup.root = "mapping" /\ part \in DOMAIN setup.messages
        THEN setup.messages[part] ELSE defaultTemplates[part]]

provideMessageRenderer ==
    /\ step = "templates"
    /\ \/ NewMessageRenderer(templates) /\ Go("decode")
       \/ ~NewMessageRenderer(templates) /\ End("startup")
    /\ UNCHANGED vars

-----------------------------------------------------------------------------
(* One event *)

isArrival(action) == action \in {"PUSH", "REPLICATE"}

(* A field that is absent does not reject the notification.                *)
Ignored ==
    \/ setup.notice.action # NoName /\ ~isArrival(setup.notice.action)
    \/ setup.notice.result \notin {NoName, "SUCCESS"}
    \/ event.repository = <<>> \/ event.tag = <<>>

Decode ==
    /\ step = "decode"
    /\ \/ ~setup.notice.json /\ End("undecodable")
       \/ setup.notice.json /\ Ignored /\ End("ignored")
       \/ setup.notice.json /\ ~Ignored /\ event.host = NoName /\ End("undecodable")
       \/ setup.notice.json /\ ~Ignored /\ event.host # NoName /\ Go("plan")
    /\ UNCHANGED vars

Plan == step = "plan" /\ Next /\ UNCHANGED own

PlanEnds ==
    /\ step = "plan" /\ pc = "done"
    /\ \/ err = "none" /\ Go("render")
       \/ err # "none" /\ End("unplanned")
    /\ UNCHANGED vars

(* What the templates are executed with: the environments of a repository  *)
(* are joined by commas, the segments of the image by slashes.             *)
Joined(n, texts) == Text(n - 1, 0) ++ texts
Path(p) == Joined(Len(p), JoinAll([k \in DOMAIN p |-> Chars[p[k]]]))
imageName(p) == IF Len(p) > 1 THEN Tail(p) ELSE p
Environment(q) ==
    LET envs == {t.env : t \in q.targets}
    IN  Joined(Cardinality(envs), JoinAll([x \in envs |-> Chars[x]]))
DataOf(q, labels) ==
    Data(Environment(q), Path(imageName(event.repository)), Path(event.repository),
         Chars[event.host] ++ Text(1, 0) ++ Path(event.repository),
         Path(event.tag), FormatPullRequestBody(labels))

RenderRepository ==
    LET renders == Renders(templates, DataOf(repositories[j], NewImageLabels(setup.labels)))
    IN  /\ step = "render" /\ j <= Len(repositories)
        /\ \/ renders /\ j' = j + 1 /\ UNCHANGED <<setup, step, outcome>>
           \/ ~renders /\ End("unrendered")
        /\ UNCHANGED vars

(* Everything is rendered: the first repository is updated.                *)
AllRendered ==
    /\ step = "render" /\ j > Len(repositories)
    /\ End("proposed")
    /\ UNCHANGED vars

ProposalNext ==
    \/ LoadFile \/ provideMessageRenderer \/ Decode
    \/ Plan \/ PlanEnds \/ RenderRepository \/ AllRendered
ProposalSpec == ProposalInit /\ [][ProposalNext]_allVars

-----------------------------------------------------------------------------
(* Properties *)

(* How often a body shows the default body.                                *)
Uses(t) ==
    Cardinality({k \in DOMAIN t.nodes :
        t.nodes[k].k = "dot" \/ (t.nodes[k].k = "field" /\ t.nodes[k].name = "DefaultBody")})
NoLabels ==
    NewImageLabels([key \in LabelKeys |->
        IF key \in {"uri", "size"} THEN setup.labels[key]
        ELSE NoLabel])
maxUnlabelledRunes == 22000

(* Labels never stop an update, whatever whoever pushed the image wrote    *)
(* into them: an event that cannot be rendered could not be rendered if    *)
(* the image had no labels either.  The limits of the labels leave room in *)
(* the limit of the body for two copies of the default body and a body     *)
(* that takes a third of the limit without them.                           *)
LabelsNeverStopUpdate ==
    LET unlabelled == DataOf(repositories[j], NoLabels)
    IN  /\ outcome = "unrendered" /\ Uses(templates.body) <= 2
        /\ executeMessageTemplate(templates.body, BodyData(unlabelled)).runes <= maxUnlabelledRunes
        => ~Renders(templates, unlabelled)

TooLong(data) ==
    \/ executeMessageTemplate(templates.title, data).runes > maxPullRequestTitleRunes
    \/ executeMessageTemplate(templates.commit, data).runes > maxCommitMessageRunes
    \/ executeMessageTemplate(templates.body, BodyData(data)).runes > maxPullRequestBodyRunes
Capturing(r) ==
    LET parts == r.segments \o r.tagPieces \o r.url
    IN  \E k \in DOMAIN parts : Variable(parts[k])
Repository(k) == manifestRepositoryKey(Target(rules[k], event))
Directory(k)  == Target(rules[k], event).dir

(* What startup lets through and no event can do with.  A message that     *)
(* cannot be rendered is too long, or an environment brought a line break  *)
(* or control character into it.  A plan is incomplete only if a rule      *)
(* captures, or two rules disagree about one directory.  A branch is       *)
(* refused for the names of the event, or for the environment of a rule    *)
(* that no rule with another environment joins in its repository.          *)
StartupCatches ==
    /\ outcome = "unrendered" =>
          LET data == DataOf(repositories[j], NewImageLabels(setup.labels))
          IN  data.Environment.breaks \/ data.Environment.control \/ TooLong(data)
    /\ outcome = "unplanned" /\ err = "ErrIncompleteRule" =>
          \/ \E k \in Applied(event) : Capturing(rules[k])
          \/ \E k, l \in Applied(event) :
                /\ Repository(k) = Repository(l) /\ Directory(k) = Directory(l)
                /\ \/ rules[k].env # rules[l].env
                   \/ annotateFromLabels /\ rules[k].block # rules[l].block
    /\ outcome = "unplanned" /\ err = "branch" =>
          \/ BadEvent(event)
          \/ \E k \in Applied(event) :
                /\ rules[k].env \in BadNames
                /\ \A l \in Applied(event) :
                      Repository(l) = Repository(k) => rules[l].env = rules[k].env

=============================================================================
