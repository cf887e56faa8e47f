---------------------------- MODULE SettingsFiles ----------------------------
(* The names under which a settings document is written and read
   (src/flows/settings-write.ts and the guards of src/flows/snapshot.ts and
   src/flows/render.ts).

   A path is a directory as spelled and a leaf.  The file system leads a
   directory to another one through a link, may fold the case of leaves, and
   holds nodes: a regular file, or a link to a path.                          *)
EXTENDS Naturals, FiniteSets

CONSTANTS
  Nowhere,      \* no such entry
  Inside,       \* the pairs of directories of which one is, or lies in, the other
  Hops          \* how many links a path is followed through

Path(dir, leaf) == [dir |-> dir, leaf |-> leaf]

(* fs.links leads directories, fs.folds leaves; disk maps names to nodes. *)
CanonicalDir(fs, dir) == IF dir \in DOMAIN fs.links THEN fs.links[dir] ELSE dir
Folded(fs, leaf) == IF leaf \in DOMAIN fs.folds THEN fs.folds[leaf] ELSE leaf
RenameTarget(fs, path) == Path(CanonicalDir(fs, path.dir), path.leaf)

(* The entry under a path, unfollowed: what a rename onto the path replaces. *)
RenameEntry(fs, disk, path) ==
  LET found == {n \in DOMAIN disk : /\ n.dir = CanonicalDir(fs, path.dir)
                                    /\ Folded(fs, n.leaf) = Folded(fs, path.leaf)}
  IN  IF found = {} THEN Nowhere ELSE CHOOSE n \in found : TRUE

(* A name stands for one entry, however it is spelled. *)
UniqueNames(fs, disk) ==
  \A m, n \in DOMAIN disk :
    m.dir = n.dir /\ Folded(fs, m.leaf) = Folded(fs, n.leaf) => m = n

(* The entries a read of the path follows, hop by hop, and the last of them. *)
Followed(fs, disk, n) ==
  IF n = Nowhere \/ disk[n].link = Nowhere THEN n ELSE RenameEntry(fs, disk, disk[n].link)
Walk(fs, disk, path) ==
  LET at[k \in 0..Hops] ==
        IF k = 0 THEN RenameEntry(fs, disk, path) ELSE Followed(fs, disk, at[k - 1])
  IN  at
ReadEntries(fs, disk, path) == {Walk(fs, disk, path)[k] : k \in 0..Hops} \ {Nowhere}
Referent(fs, disk, path) == Walk(fs, disk, path)[Hops]
ReadThrough(fs, disk, path) ==
  LET n == Referent(fs, disk, path) IN IF n = Nowhere THEN Nowhere ELSE disk[n]
Readable(fs, disk, path) ==
  LET n == Referent(fs, disk, path) IN n # Nowhere /\ disk[n].link = Nowhere

(* The real name of what exists, the rest as spelled. *)
CanonicalPath(fs, disk, path) ==
  LET n == Referent(fs, disk, path) IN IF n = Nowhere THEN RenameTarget(fs, path) ELSE n

IsLink(fs, disk, path) ==
  LET n == RenameEntry(fs, disk, path) IN n # Nowhere /\ disk[n].link # Nowhere
LandingAsSpelled(fs, disk, path) == {RenameTarget(fs, path)}
LandingNames(fs, disk, path) ==
  {RenameTarget(fs, path)}
    \cup (IF IsLink(fs, disk, path) THEN {} ELSE {CanonicalPath(fs, disk, path)})

(* Two directories of which one leads into the other, as spelled or as named. *)
Overlap(fs, a, b) ==
  \E p \in {<<a, b>>, <<CanonicalDir(fs, a), CanonicalDir(fs, b)>>} :
     p \in Inside \/ <<p[2], p[1]>> \in Inside

(* The destinations a run refuses before it reads anything. *)
FileCollision(fs, disk, path, settings) ==
  CanonicalPath(fs, disk, path) = CanonicalPath(fs, disk, settings)
RenderedFileCollision(fs, disk, path, layers) ==
  LET replaced == RenameEntry(fs, disk, path)
  IN  replaced # Nowhere /\ \E l \in layers : replaced \in ReadEntries(fs, disk, l)

(* A target's file is refused when the file system carries it to an authored
   file, into the repos-dir, or to a file this run already claimed.          *)
LandsOnAuthored(fs, disk, path, authored) == CanonicalPath(fs, disk, path) \in authored
LandsInRepos(fs, disk, path, reposDir) ==
  <<CanonicalPath(fs, disk, path).dir, CanonicalDir(fs, reposDir)>> \in Inside
LandsOnClaimed(fs, disk, path, claimed) ==
  LandingNames(fs, disk, path) \cap claimed # {}

(* The rename: the entry under the path gives way to a regular file of that
   spelling; a link is replaced, its referent untouched.                     *)
Renamed(fs, disk, path, node) ==
  LET kept == DOMAIN disk \ {RenameEntry(fs, disk, path)}
  IN  [n \in kept \cup {RenameTarget(fs, path)} |->
         IF n = RenameTarget(fs, path) THEN node ELSE disk[n]]
=============================================================================
