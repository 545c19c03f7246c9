----------------------------- MODULE Kustomize ------------------------------
(***************************************************************************)
(* kustomize.Patcher.Patch: a new tag is written into a kustomization.yaml *)
(* line by line, so that everything else survives, and the managed comment *)
(* block above the images key is refreshed.  The edits use the line        *)
(* numbers recorded by parse, while the earlier edits insert lines.        *)
(*                                                                         *)
(* A line is a record with a kind k.  An image is a pair <<host, path>> of *)
(* numbers, in the order of the names.  A tag is the sequence of its dot   *)
(* separated pieces, NoTag the missing newTag.  A newTag is fixed if its   *)
(* value is an alias, a block scalar or has a YAML tag, or if the item is  *)
(* an alias itself: it can be read and not be rewritten.                   *)
(***************************************************************************)
EXTENDS SequencesExt

CONSTANTS
    Files,      \* the files a history starts with
    Updates,    \* [image, tag, meta]: meta is the content of the block entry,
                \*   "none" when no block is written, "marker" when a value
                \*   renders as a marker
    MaxPatches  \* bound: the patches of one history

Image == Nat \X Nat
Tag   == Seq(STRING) \ {<<>>}
Line  == [k : {"name"}, image : Image]
           \cup [k : {"flow"}, image : Image, tag : Tag, quoted : BOOLEAN]
           \cup [k : {"tag"}, tag : Tag, fixed : BOOLEAN]
           \cup [k : {"meta"}, image : Image, content : STRING]
           \cup [k : {"comment", "other"}, text : STRING]
           \cup [k : {"images", "field", "begin", "end", "garbled", "broken"}]

ASSUME KustomizeConstants ==
    /\ Files \subseteq Seq(Line)
    /\ Updates \subseteq [image : Image, tag : Tag, meta : STRING] /\ Updates # {}
    /\ MaxPatches \in Nat

VARIABLES
    file,       \* the lines on disk
    pc,         \* idle, tags, block, write
    update,     \* the argument of Patch
    lines,      \* document.lines
    nodes,      \* document.imageNodes, with their line numbers
    todo,       \* indexes setNewTags has still to rewrite
    patches,    \* how many patches were begun
    result      \* what the last Patch returned

vars == <<file, pc, update, lines, nodes, todo, patches, result>>

NoTag == <<"">>
TagLine(t) == [k |-> "tag", tag |-> t, fixed |-> FALSE]
Begin      == [k |-> "begin"]
End        == [k |-> "end"]
Meta(i, m) == [k |-> "meta", image |-> i, content |-> m]

-----------------------------------------------------------------------------
(* parse *)

IsImages(l) == l.k = "images"
imagesKeyLine(ls) == SelectInSeq(ls, IsImages)

(* The images block ends at the next key.                                  *)
InBlock(ls) ==
    LET key == imagesKeyLine(ls)
    IN  {n \in key + 1 .. Len(ls) : \A l \in key + 1 .. n : ls[l].k \notin {"other", "images"}}

(* The items of the sequence: a mapping that starts with its name line, or *)
(* one in flow style, all on one line.                                     *)
Starts(ls) == {n \in InBlock(ls) : ls[n].k \in {"name", "flow"}}
Own(ls, s) ==
    LET starts == Starts(ls)
    IN  {n \in InBlock(ls) : /\ n >= s /\ \A x \in starts : x <= s \/ n < x
                             /\ ls[n].k \in {"name", "flow", "tag", "field"}}

Parses(ls) ==
    /\ imagesKeyLine(ls) > 0
    /\ \A n \in InBlock(ls) : ls[n].k # "broken"
    /\ \A s \in Starts(ls) :
         /\ ls[s].k = "flow" => Own(ls, s) = {s}
         /\ Cardinality({n \in Own(ls, s) : ls[n].k = "tag"}) <= 1

Node(ls, s) ==
    LET tags == {n \in Own(ls, s) : ls[n].k = "tag"}
        hasTag == tags # {} \/ (ls[s].k = "flow" /\ ls[s].tag # NoTag)
        tagLine == IF ~hasTag THEN 0 ELSE IF ls[s].k = "flow" THEN s ELSE Max(tags)
    IN  [image |-> ls[s].image, tag |-> IF hasTag THEN ls[tagLine].tag ELSE NoTag,
         tagLine |-> tagLine, last |-> Max(Own(ls, s))]

(* The members of a set of line numbers from top to bottom.                *)
TopDown(ns) ==
    [n \in 1 .. Cardinality(ns) |-> CHOOSE x \in ns : Cardinality({y \in ns : y < x}) = n - 1]

imageNodes(ls) ==
    LET starts == TopDown(Starts(ls)) IN [n \in DOMAIN starts |-> Node(ls, starts[n])]
Images(ls) ==
    LET ns == imageNodes(ls)
    IN  [n \in DOMAIN ns |-> [image |-> ns[n].image, tag |-> ns[n].tag]]

-----------------------------------------------------------------------------
(* replaceTag: entries are matched by repository path, whatever their      *)
(* registry, and by the identifier in front of the first dot if the pushed *)
(* tag has one.                                                            *)

tagIdentifier(t) == t[1]
HasIdentifier(t) == Len(t) > 1
Refers(entry, u) == entry.image[2] = u.image[2]

(* Mutant of Selects: a plain tag replaces every tag of the repository.    *)
PlainReplacesAll(entry, u) ==
    /\ Refers(entry, u)
    /\ HasIdentifier(u.tag) => tagIdentifier(entry.tag) = tagIdentifier(u.tag)

Selects(entry, u) ==
    /\ Refers(entry, u)
    /\ IF HasIdentifier(u.tag) THEN tagIdentifier(entry.tag) = tagIdentifier(u.tag)
                               ELSE ~HasIdentifier(entry.tag)
replaceTag(es, u) ==
    [n \in DOMAIN es |-> IF Selects(es[n], u) THEN [es[n] EXCEPT !.tag = u.tag] ELSE es[n]]

(* Mutant of Managed: an entry that is already there does not count.       *)
OnlyChangesCount(es, u) == \E n \in DOMAIN es : Selects(es[n], u) /\ es[n].tag # u.tag

(* Some entry refers to the image; one of another branch does if the       *)
(* pushed tag is plain.                                                    *)
Managed(es, u) ==
    \E n \in DOMAIN es : Refers(es[n], u) /\ (HasIdentifier(u.tag) => Selects(es[n], u))
changedNewTags(es, u) ==
    LET updated == replaceTag(es, u) IN {n \in DOMAIN es : updated[n].tag # es[n].tag}

-----------------------------------------------------------------------------
(* The managed block *)

IsComment(l) == l.k \in {"comment", "begin", "end", "meta", "garbled"}

(* headCommentRange: the first comment line directly above the images key. *)
RegionStart(ls) ==
    Min({imagesKeyLine(ls)} \cup
        {n \in 1 .. imagesKeyLine(ls) - 1 : \A l \in n .. imagesKeyLine(ls) - 1 : IsComment(ls[l])})

(* findManifestBlock: up to the first end marker after a begin marker, from*)
(* the last begin marker before it.                                        *)
BlockEnds(ls) ==
    {n \in RegionStart(ls) .. imagesKeyLine(ls) - 1 :
        ls[n].k = "end" /\ \E b \in RegionStart(ls) .. n : ls[b].k = "begin"}
BlockEnd(ls)   == Min(BlockEnds(ls))
BlockStart(ls) == Max({b \in RegionStart(ls) .. BlockEnd(ls) : ls[b].k = "begin"})
HasBlock(ls)   == BlockEnds(ls) # {}

(* The entries of the block; one that cannot be read counts as empty.      *)
Entries(ls) ==
    LET body  == IF HasBlock(ls) THEN BlockStart(ls) + 1 .. BlockEnd(ls) - 1 ELSE {}
        order == TopDown({n \in body : ls[n].k = "meta"})
    IN  IF \E n \in body : ls[n].k = "garbled" THEN <<>> ELSE [n \in DOMAIN order |-> ls[order[n]]]

(* Mutant of Upsert: the entry is appended.                                *)
UpsertAppends(es, e) == Append(es, e)

(* Upsert replaces the first entry of the image or appends one, and sorts  *)
(* by the full image name; entries of one image stay in their order.       *)
NameBefore(x, y) ==
    \/ x.image[1] < y.image[1]
    \/ x.image[1] = y.image[1] /\ x.image[2] < y.image[2]
Precedes(es, l, n) == NameBefore(es[l], es[n]) \/ (es[l].image = es[n].image /\ l < n)
ByName(es) ==
    [n \in DOMAIN es |->
        es[CHOOSE l \in DOMAIN es : Cardinality({m \in DOMAIN es : Precedes(es, m, l)}) = n - 1]]
Upsert(es, e) ==
    LET same == {n \in DOMAIN es : es[n].image = e.image}
    IN  ByName(IF same = {} THEN Append(es, e) ELSE [es EXCEPT ![Min(same)] = e])

-----------------------------------------------------------------------------
Init ==
    /\ file \in Files
    /\ pc = "idle"
    /\ update = CHOOSE u \in Updates : TRUE
    /\ lines = <<>> /\ nodes = <<>> /\ todo = {}
    /\ patches = 0
    /\ result = "none"

Return(r) ==
    /\ pc' = "idle"
    /\ result' = r
    /\ lines' = <<>> /\ nodes' = <<>> /\ todo' = {}

Patch(u) ==
    LET valid    == Parses(file)
        original == Images(file)
        changed  == changedNewTags(original, u)
    IN  /\ pc = "idle" /\ patches < MaxPatches
        /\ patches' = patches + 1
        /\ update' = u
        /\ \/ ~valid /\ Return("ErrInvalidManifest")
           \/ valid /\ ~Managed(original, u) /\ Return("ErrImageNotManaged")
           \/ valid /\ Managed(original, u) /\ changed = {} /\ Return("ErrNoDifference")
           \/ /\ valid /\ changed # {}
              /\ pc' = "tags"
              /\ lines' = file
              /\ nodes' = imageNodes(file)
              /\ todo' = changed
              /\ UNCHANGED result
        /\ UNCHANGED file

(* Mutant of NextIndex: from the top downwards.                            *)
TopFirst == Min(todo)

(* Edits run from the bottom of the file upwards.                          *)
NextIndex == Max(todo)

(* replaceScalar takes a plain scalar for everything up to a comment, so   *)
(* the closing brace of a flow mapping goes with it; appendMappingEntry    *)
(* inserts a line below the last one of the item.                          *)
Edited(node, t) ==
    IF node.tagLine = 0 THEN InsertAt(lines, node.last + 1, TagLine(t))
    ELSE LET old == lines[node.tagLine]
         IN  ReplaceAt(lines, node.tagLine,
                       IF old.k # "flow" THEN TagLine(t)
                       ELSE IF old.quoted THEN [old EXCEPT !.tag = t] ELSE [k |-> "broken"])

Fixed(node) == node.tagLine # 0 /\ lines[node.tagLine].k = "tag" /\ lines[node.tagLine].fixed

SetNewTag ==
    /\ pc = "tags"
    /\ ~Fixed(nodes[NextIndex])
    /\ lines' = Edited(nodes[NextIndex], update.tag)
    /\ todo' = todo \ {NextIndex}
    /\ pc' = IF todo' = {} THEN "block" ELSE "tags"
    /\ UNCHANGED <<file, update, nodes, patches, result>>

(* setNewTag finds an item or a value it cannot rewrite: the edits made so *)
(* far are dropped.                                                        *)
SetNewTagFails ==
    /\ pc = "tags"
    /\ Fixed(nodes[NextIndex])
    /\ Return("ErrInvalidManifest")
    /\ UNCHANGED <<file, update, patches>>

(* The lines with a new block in the place of from .. upto - 1.            *)
WithBlock(from, upto) ==
    LET es == Upsert(Entries(lines), Meta(update.image, update.meta))
    IN  SubSeq(lines, 1, from - 1) \o <<Begin>> \o es \o <<End>> \o SubSeq(lines, upto, Len(lines))

(* Mutant of Rebuilt: the end marker of the old block stays.               *)
EndLeftBehind ==
    IF HasBlock(lines) THEN WithBlock(BlockStart(lines), BlockEnd(lines))
                       ELSE WithBlock(RegionStart(lines), RegionStart(lines))

(* The block is replaced, or put above the comments of the images key.     *)
Rebuilt ==
    IF HasBlock(lines) THEN WithBlock(BlockStart(lines), BlockEnd(lines) + 1)
                       ELSE WithBlock(RegionStart(lines), RegionStart(lines))

(* A failure to render the block is logged and leaves the tags edited.     *)
UpsertImageManifest ==
    /\ pc = "block"
    /\ lines' = IF update.meta \in {"none", "marker"} THEN lines ELSE Rebuilt
    /\ pc' = "write"
    /\ UNCHANGED <<file, update, nodes, todo, patches, result>>

Write ==
    /\ pc = "write"
    /\ file' = lines
    /\ Return("nil")
    /\ UNCHANGED <<update, patches>>

(* Reading or writing fails: the checkout is thrown away, and the next     *)
(* delivery starts from the file as it was.                                *)
Fails ==
    /\ pc # "idle"
    /\ Return("retryable")
    /\ UNCHANGED <<file, update, patches>>

Next ==
    \/ \E u \in Updates : Patch(u)
    \/ SetNewTag \/ SetNewTagFails \/ UpsertImageManifest \/ Write \/ Fails
Spec == Init /\ [][Next]_vars

-----------------------------------------------------------------------------
(* Properties *)

(* Types; a Patch that edits has something to edit.                        *)
TypeOK ==
    /\ pc \in {"idle", "tags", "block", "write"}
    /\ update \in Updates
    /\ pc = "tags" => todo # {} /\ todo \subseteq DOMAIN nodes
    /\ patches \in 0 .. MaxPatches
    /\ result \in {"none", "nil", "retryable", "ErrInvalidManifest", "ErrImageNotManaged",
                   "ErrNoDifference"}

(* The line edits do what replaceTag decided, to every entry: read back,   *)
(* the edited file has exactly the replaced images, although entries may   *)
(* lack a newTag and lines were inserted between the recorded numbers.     *)
EditsMatch ==
    pc = "write" => Parses(lines) /\ Images(lines) = replaceTag(Images(file), update)

(* Only newTag lines and the managed block change: comments, other fields  *)
(* and the order of everything survive.                                    *)
Rest(ls) ==
    LET blocked == IF HasBlock(ls) THEN BlockStart(ls) .. BlockEnd(ls) ELSE {}
        kept    == {n \in DOMAIN ls \ blocked : ls[n].k # "tag"}
        order   == TopDown(kept)
        Untagged(l) == IF l.k = "flow" THEN [l EXCEPT !.tag = NoTag] ELSE l
    IN  [n \in DOMAIN order |-> Untagged(ls[order[n]])]
RestUntouched == pc = "write" => Rest(lines) = Rest(file)

(* A redelivered update finds nothing to do in the file it has written.    *)
RedeliveryIsNoop ==
    pc = "idle" /\ result = "nil" =>
        Managed(Images(file), update) /\ changedNewTags(Images(file), update) = {}

(* One overlay tracks several branches of an image: an entry whose tag has *)
(* an identifier keeps it through every history of pushes.                 *)
IdentifierKept ==
    pc = "write" => LET before == Images(file)  after == Images(lines) IN
        \A n \in DOMAIN before :
        LET old == before[n].tag  new == after[n].tag
        IN  HasIdentifier(old) => HasIdentifier(new) /\ tagIdentifier(new) = tagIdentifier(old)

(* The block has one sorted entry per image, the entry of the update among *)
(* them, and the readable entries of the other images are kept, however    *)
(* often it is rewritten.                                                  *)
BlockMerged ==
    pc = "write" /\ update.meta \notin {"none", "marker"} =>
        LET es == Entries(lines)
        IN  /\ \A n, m \in DOMAIN es : n < m => NameBefore(es[n], es[m])
            /\ Range(es) = {e \in Range(Entries(file)) : e.image # update.image}
                             \cup {Meta(update.image, update.meta)}

=============================================================================
