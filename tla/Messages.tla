------------------------------ MODULE Messages ------------------------------
(***************************************************************************)
(* The text of a pull request: the labels of the image as they are         *)
(* normalised (model.NewImageLabels), the default body made of them        *)
(* (FormatPullRequestBody) and the templates, checked at startup and       *)
(* executed for every repository (MessageRenderer).                        *)
(*                                                                         *)
(* A text is known by what the limits and the checks tell apart: how many  *)
(* characters it has, how many of them Markdown escapes, and whether it    *)
(* holds line breaks, other control characters or nothing but space.       *)
(***************************************************************************)
EXTENDS Integers, Sequences, FiniteSets, Functions

Text(n, meta) == [runes |-> n, meta |-> meta, breaks |-> FALSE, control |-> FALSE, blank |-> n = 0]
Empty         == Text(0, 0)
Lines(n)      == [runes |-> n, meta |-> 0, breaks |-> TRUE, control |-> FALSE, blank |-> n = 0]
IsText(t) ==
    t \in [runes : Nat, meta : Nat, breaks : BOOLEAN, control : BOOLEAN, blank : BOOLEAN]
OneLine(t) == IsText(t) /\ ~t.breaks /\ ~t.control

(* All texts of a list or a set, and one text after the other.             *)
JoinAll(ts) ==
    [runes   |-> SumFunction([k \in DOMAIN ts |-> ts[k].runes]),
     meta    |-> SumFunction([k \in DOMAIN ts |-> ts[k].meta]),
     breaks  |-> \E k \in DOMAIN ts : ts[k].breaks,
     control |-> \E k \in DOMAIN ts : ts[k].control,
     blank   |-> \A k \in DOMAIN ts : ts[k].blank]
a ++ b == JoinAll(<<a, b>>)

escapeMarkdown(t) == [t EXCEPT !.runes = @ + t.meta]

-----------------------------------------------------------------------------
(* Labels.  A raw label is [form, text, size]: what it looks like once     *)
(* trimmed, its length in bytes, and the text that is left of it without   *)
(* unprintable characters and repeated space; of a URL, the text that      *)
(* url.String prints, which has up to three characters for one byte.       *)

maxLabelTextLength   == 512
maxLabelURLLength    == 2048
maxLabelHandleLength == 39
maxLabelTokenLength  == 256

AtMost(m, n) == IF m <= n THEN m ELSE n

(* Mutant of sanitizeLabelText: long values are not truncated.             *)
Untruncated(l) == Text(l.text.runes, l.text.meta)

sanitizeLabelText(l) ==
    Text(AtMost(l.text.runes, maxLabelTextLength), AtMost(l.text.meta, maxLabelTextLength))

(* A value that does not have the form is dropped, never repaired.  Every  *)
(* number is a handle and every handle a token.                            *)
Kept(l, forms, limit) == IF l.form \in forms /\ l.size <= limit THEN l.text ELSE Empty
sanitizeLabelToken(l)  == Kept(l, {"number", "handle", "token"}, maxLabelTokenLength)
sanitizeLabelHandle(l) == Kept(l, {"number", "handle"}, maxLabelHandleLength)
sanitizeLabelNumber(l) == Kept(l, {"number"}, maxLabelTokenLength)
sanitizeLabelURL(l)    == Kept(l, {"url"}, maxLabelURLLength)

LabelKeys ==
    {"source", "revision", "created", "pr.number", "pr.author", "pr.title",
     "build.url", "build.run_id", "build.ref", "build.event", "uri", "size"}
IsLabel(l) ==
    /\ l.size \in Nat /\ OneLine(l.text)
    /\ l.form \in {"number", "handle", "token"} => l.text.runes <= l.size
    /\ l.form = "url" => l.text.runes <= 3 * l.size

NoLabel == [form |-> "other", size |-> 0, text |-> Empty]

NewImageLabels(raw) ==
    [Source     |-> sanitizeLabelURL(raw["source"]),
     Revision   |-> sanitizeLabelToken(raw["revision"]),
     Created    |-> sanitizeLabelToken(raw["created"]),
     PRNumber   |-> sanitizeLabelNumber(raw["pr.number"]),
     PRAuthor   |-> sanitizeLabelHandle(raw["pr.author"]),
     PRTitle    |-> sanitizeLabelText(raw["pr.title"]),
     BuildURL   |-> sanitizeLabelURL(raw["build.url"]),
     BuildRunID |-> sanitizeLabelToken(raw["build.run_id"]),
     BuildRef   |-> sanitizeLabelToken(raw["build.ref"]),
     BuildEvent |-> sanitizeLabelToken(raw["build.event"]),
     ImageURI   |-> raw["uri"].text,    \* of ImageMetadata, not labels
     ImageSize  |-> raw["size"].text]   \* as formatBytes writes it

-----------------------------------------------------------------------------
(* The default body: the lengths are those of the fixed parts.             *)

Has(t) == t.runes > 0
When(cond, t) == IF cond THEN t ELSE Empty

shortRevision(t) == Text(AtMost(t.runes, 7), 0)

writeChanges(l) ==
    LET commit  == Has(l.Source) /\ Has(l.Revision)
        content == commit \/ Has(l.BuildRef) \/ Has(l.PRAuthor) \/ Has(l.BuildEvent) \/ Has(l.ImageSize)
    IN  When(content, Lines(30)
            ++ When(commit, Lines(32) ++ shortRevision(l.Revision) ++ l.Source ++ l.Revision)
            ++ When(Has(l.BuildRef), Lines(20) ++ l.BuildRef)
            ++ When(Has(l.PRAuthor), Lines(19) ++ l.PRAuthor)
            ++ When(Has(l.BuildEvent), Lines(21) ++ l.BuildEvent)
            ++ When(Has(l.ImageSize), Lines(22) ++ l.ImageSize))

writeLinks(l) ==
    LET source == Has(l.PRNumber) /\ Has(l.Source)
        build  == Has(l.BuildURL) /\ Has(l.BuildRunID)
    IN  When(source \/ build, Lines(13)
            ++ When(source, Text(23, 0) ++ l.PRNumber ++ l.Source ++ l.PRNumber)
            ++ When(source /\ build, Text(3, 0))
            ++ When(build, Text(13, 0) ++ l.BuildURL))

writeLabels(l) ==
    When(Has(l.ImageURI) \/ Has(l.Revision) \/ Has(l.Created), Lines(65)
        ++ When(Has(l.ImageURI), Lines(8) ++ l.ImageURI)
        ++ When(Has(l.Created), Lines(10) ++ l.Created)
        ++ When(Has(l.Revision), Lines(11) ++ l.Revision))

FormatPullRequestBody(l) ==
    (IF Has(l.PRTitle) THEN Lines(21) ++ escapeMarkdown(l.PRTitle) ELSE Lines(19))
        ++ writeChanges(l) ++ writeLinks(l) ++ writeLabels(l)

-----------------------------------------------------------------------------
(* Templates.  A template is [source, nodes]: its text as configured and   *)
(* the nodes it is parsed into, a text or literal with its text, a field   *)
(* with its name, the dot, or one that cannot be parsed, is not allowed or *)
(* fails when it is executed.                                              *)

maxMessageTemplateBytes  == 65536
maxPullRequestTitleRunes == 256
maxCommitMessageRunes    == 4096
maxPullRequestBodyRunes  == 65536

allowedMessageTemplateFields ==
    {"Environment", "ImageName", "ImageRepository", "Image", "ImageTag", "DefaultBody"}

Plain(n)    == [k |-> "text", text |-> Text(n, 0)]
Field(name) == [k |-> "field", name |-> name]
Template(source, nodes) == [source |-> Text(source, 0), nodes |-> nodes]
IsTemplate(t) ==
    /\ Len(t.nodes) \in Nat /\ DOMAIN t.nodes = 1 .. Len(t.nodes)
    /\ \A k \in DOMAIN t.nodes : t.nodes[k].k = "text" => IsText(t.nodes[k].text)

defaultTemplates ==
    [title  |-> Template(62, <<Plain(32), Field("Environment"), Field("ImageName")>>),
     body   |-> Template(16, <<Field("DefaultBody")>>),
     commit |-> Template(70, <<Plain(34), Field("Environment"), Field("ImageRepository")>>)]

parseMessageTemplate(t) ==
    /\ ~t.source.blank /\ t.source.runes <= maxMessageTemplateBytes
    /\ \A k \in DOMAIN t.nodes :
          LET n == t.nodes[k]
          IN  \/ n.k \in {"text", "dot", "failing"}
              \/ n.k = "field" /\ n.name \in allowedMessageTemplateFields

(* {{.}} prints every field, in braces and with spaces between them.       *)
EveryField(data) ==
    Text(7, 0) ++ data.Environment ++ data.ImageName ++ data.ImageRepository ++ data.Image
        ++ data.ImageTag ++ data.DefaultBody
NodeText(n, data) ==
    CASE n.k = "text"  -> n.text
      [] n.k = "field" -> data[n.name]
      [] n.k = "dot"   -> EveryField(data)
executeMessageTemplate(t, data) == JoinAll([k \in DOMAIN t.nodes |-> NodeText(t.nodes[k], data)])

validateSingleLine(t, limit) == ~t.blank /\ t.runes <= limit /\ ~t.breaks /\ ~t.control
validateBody(t) == ~t.blank /\ t.runes <= maxPullRequestBodyRunes /\ ~t.control

BodyData(data) ==
    [f \in DOMAIN data |-> IF f = "DefaultBody" THEN data[f] ELSE escapeMarkdown(data[f])]

Renders(ts, data) ==
    /\ \A part \in DOMAIN ts : \A k \in DOMAIN ts[part].nodes : ts[part].nodes[k].k # "failing"
    /\ validateSingleLine(executeMessageTemplate(ts.title, data), maxPullRequestTitleRunes)
    /\ validateSingleLine(executeMessageTemplate(ts.commit, data), maxCommitMessageRunes)
    /\ validateBody(executeMessageTemplate(ts.body, BodyData(data)))

Data(env, name, repository, image, tag, body) ==
    [Environment |-> env, ImageName |-> name, ImageRepository |-> repository, Image |-> image,
     ImageTag |-> tag, DefaultBody |-> body]

(* Mutant of trialData: a default body of one line.                        *)
OneLineTrial == Data(Text(10, 0), Text(16, 0), Text(21, 0), Text(42, 0), Text(7, 0), Text(15, 0))

trialData == Data(Text(10, 0), Text(16, 0), Text(21, 0), Text(42, 0), Text(7, 0), Lines(16))

(* The templates NewMessageRenderer accepts.                               *)
NewMessageRenderer(ts) ==
    /\ \A part \in DOMAIN ts : parseMessageTemplate(ts[part])
    /\ Renders(ts, trialData)

=============================================================================
