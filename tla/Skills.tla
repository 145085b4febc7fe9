------------------------------- MODULE Skills -------------------------------
(***************************************************************************)
(* Skills: how the directories of the workspace, of Atra and of the user   *)
(* become what the model is told, what a message invokes and the tree that *)
(* every Runner is given.                                                  *)
(*                                                                         *)
(* A disk has the four sources in their order.  A source is the sequence   *)
(* of its directories with a SKILL.md, in the order of the walk: a path, a *)
(* text (which stands for what it says), the name and flags of its         *)
(* frontmatter, and its entries.  An entry is a file (copied, also through *)
(* a link that leaves the skill), a link inside the skill, or unusable: a  *)
(* socket, a cycle, a file past the limits.  `broken' is a source that     *)
(* cannot be walked.                                                       *)
(***************************************************************************)
EXTENDS Naturals, Sequences, SequencesExt, FiniteSets

Ignored == {".git", "node_modules"}

\* The directories that are skills: nothing below a skill, nothing hidden.
Discovered(source) ==
  SelectSeq(source.directories, LAMBDA d :
    /\ Range(d.path) \cap Ignored = {}
    /\ \A e \in Range(source.directories) : ~IsStrictPrefix(e.path, d.path))

\* parse_skill accepts the frontmatter.
Reads(d) == d.sound /\ d.path # <<>> /\ d.name = Last(d.path)

Found(disk) == SelectSeq(FlattenSeq([s \in DOMAIN disk |-> Discovered(disk[s])]), Reads)

\* The first of a name wins, whether or not its files can be collected.
Winners(found) ==
  {found[i] : i \in {i \in DOMAIN found : \A j \in 1..(i - 1) : found[j].name # found[i].name}}

Entries(d) ==
  {[e EXCEPT !.path = <<d.name>> \o @,
             !.target = IF e.kind = "link" THEN <<d.name>> \o @ ELSE @] : e \in d.entries}

\* TreeManifest::validate
Valid(manifest) ==
  \A e \in manifest :
    /\ \A f \in manifest \ {e} : ~IsPrefix(f.path, e.path)
    /\ e.kind = "link" => \E f \in manifest : IsPrefix(e.target, f.path)

Collects(d) == (\A e \in d.entries : e.kind # "unusable") /\ Valid(Entries(d))

\* The skill generation of a disk; ok: it could be collected.
Collect(disk) ==
  LET skills == {d \in Winners(Found(disk)) : Collects(d)}
      manifest == UNION {Entries(d) : d \in skills}
  IN [ok |-> (\A s \in DOMAIN disk : ~disk[s].broken) /\ Valid(manifest),
      manifest |-> manifest,
      prompt |-> {d.name : d \in {d \in skills : ~d.hidden}},
      skills |-> {[name |-> d.name, instructions |-> d.text] : d \in skills}]

CollectAll(disks) == FoldLeft(LAMBDA done, d : Append(done, Collect(d)), <<>>, disks)

Objects(manifest) == {e.content : e \in {e \in manifest : e.kind = "file"}}

-----------------------------------------------------------------------------
\* A message is a sequence of words, mentions ($name) and escaped mentions.
\* What is left of it, and the skills it invokes, in order.
ResolveInvocations(message, skills) ==
  LET Known(w) == \E s \in skills : s.name = w.name
      Invokes(i) ==
        /\ message[i].kind = "mention" /\ Known(message[i])
        /\ \A j \in 1..(i - 1) : ~(message[j].kind = "mention" /\ message[j].name = message[i].name)
      first == SelectSeq([i \in DOMAIN message |-> i], Invokes)
  IN [content |-> [i \in DOMAIN message |->
                     IF message[i].kind = "escaped" /\ Known(message[i])
                       THEN [message[i] EXCEPT !.kind = "mention"] ELSE message[i]],
      invoked |-> [i \in DOMAIN first |-> CHOOSE s \in skills : s.name = message[first[i]].name]]
=============================================================================
